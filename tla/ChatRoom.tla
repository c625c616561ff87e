------------------------------- MODULE ChatRoom -------------------------------
(***************************************************************************)
(* The server side of one chat room: the rows it has in the database, the  *)
(* Workers handlers of routes/chat.ts, routes/clients.ts and               *)
(* routes/employees.ts that touch them, and the Durable Object that holds  *)
(* the room's WebSockets (durable_objects/ChatRoomDO.ts).                  *)
(*                                                                         *)
(* A handler runs in an isolate of its own and every `await` of a SQL      *)
(* statement or of the Durable Object is a step: the steps of different    *)
(* handlers, of the Durable Object and of the sockets interleave.  The     *)
(* Durable Object runs one event at a time; it lets other events in only   *)
(* while it awaits the database.                                           *)
(*                                                                         *)
(* Abstracted: a message is the position of its row in created_at order,   *)
(* its text is present in a payload or blanked; presence, typing, receipt  *)
(* and status payloads are not queued, only their effect on the sessions   *)
(* (a broadcast drops the sockets it cannot use) is kept.                  *)
(***************************************************************************)
EXTENDS Naturals, Sequences

CONSTANTS
  Admin,         \* users with permanent access
  SubAdmin,      \* users whose access follows sub_admin_assignments
  Recruiter,     \* users whose access follows employee_clients
  Request,       \* handlers that may be in progress at the same time
  Socket,        \* bound: WebSocket connections ever opened
  MaxMessage,    \* bound: messages ever posted
  MaxPayload,    \* bound: nothing is deleted once a socket carried so much
  ReplayLimit,   \* rows one replay reads (50 in the code)
  Handler,       \* the handlers that this instance exercises
  Fault          \* the faults of the platform that this instance exercises

ASSUME BoundsAssumption == {MaxMessage, MaxPayload} \subseteq Nat /\ ReplayLimit \in Nat \ {0}

ASSUME RolesAssumption ==
  /\ Admin \cap (SubAdmin \cup Recruiter) = {}
  /\ SubAdmin \cap Recruiter = {}

VARIABLES
  status,     \* chat_rooms.status
  assigned,   \* sub-admins and recruiters with an active assignment and account
  messages,   \* the rows of chat_messages, in the order of created_at
  read,       \* read[u]: rows not later than last_read_at of u in chat_reads
  notified,   \* the rows of notifications: <<recipient, message>>
  request,    \* request[r]: where the handler r is, with its local variables
  conn,       \* conn[s]: where the upgrade request of socket s is
  sessions,   \* the Durable Object's map of sockets
  stale,      \* sessions whose lastSeen is more than 35 s ago
  gone,       \* sockets whose client went away
  alarm,      \* an alarm of the Durable Object is scheduled
  wire,       \* wire[s]: everything sent on socket s
  replays     \* the calls of replayMissedMessages in progress

rows == <<status, assigned, messages, read, notified>>
object == <<conn, sessions, stale, gone, alarm, wire, replays>>
vars == <<rows, request, object>>

User == Admin \cup SubAdmin \cup Recruiter
Status == {"active", "read_only", "archived"}
Kind == {"text", "job", "file"}

Message == [sender : User, deleted : BOOLEAN]

(* What a socket may carry; text says whether the text of the message is   *)
(* in it, cid whether the client_id is: the broadcast of a handler has     *)
(* both, a replay has no client_id (the row does not keep it).             *)
Payload == [type : {"new_message", "message_deleted", "access_revoked"},
            msg : Nat, text : BOOLEAN, cid : BOOLEAN]

NewMessage(m, text, cid) == [type |-> "new_message", msg |-> m, text |-> text, cid |-> cid]
MessageDeleted(m) == [type |-> "message_deleted", msg |-> m, text |-> FALSE, cid |-> FALSE]
AccessRevoked == [type |-> "access_revoked", msg |-> 0, text |-> FALSE, cid |-> FALSE]

Step == {"idle", "insert", "cursor", "post", "resolve", "notify", "delete",
         "delete_cast", "status", "status_cast", "upsert", "receipt_cast",
         "evict", "welcome", "answer"}

(* The local variables of a handler: the caller (or the user whose         *)
(* assignment changes), what is posted or the new status, the message,     *)
(* onlineUserIds and resolved.members.                                     *)
Nobody == "nobody"

ASSUME NobodyAssumption == Nobody \notin User

Local == [step : Step, user : User \cup {Nobody}, arg : Kind \cup Status,
          msg : Nat, online : SUBSET User, members : SUBSET User]

Replay == [socket : Socket, step : {"select", "send"}, after : Nat,
           admin : BOOLEAN, rows : Seq(Payload)]

(* The life of a socket: unused, past the Worker's access check, past the  *)
(* Durable Object's own check, accepted, past the client's sync; refused.  *)
Upgrade == [step : {"free", "checked", "admitted", "open", "synced", "refused"},
            user : User \cup {Nobody}, after : Nat]

TypeOK ==
  /\ status \in Status
  /\ assigned \subseteq SubAdmin \cup Recruiter
  /\ messages \in Seq(Message)
  /\ read \in [User -> Nat]
  /\ notified \subseteq User \X Nat
  /\ request \in [Request -> Local]
  /\ conn \in [Socket -> Upgrade]
  /\ sessions \subseteq Socket
  /\ stale \subseteq sessions
  /\ gone \subseteq Socket
  /\ alarm \in BOOLEAN
  /\ wire \in [Socket -> Seq(Payload)]
  /\ replays \subseteq Replay

Idle == [step |-> "idle", user |-> Nobody, arg |-> "text", msg |-> 0,
         online |-> {}, members |-> {}]

Init ==
  /\ status = "active"
  /\ assigned = SubAdmin \cup Recruiter
  /\ messages = <<>>
  /\ read = [u \in User |-> 0]
  /\ notified = {}
  /\ request = [r \in Request |-> Idle]
  /\ conn = [s \in Socket |-> [step |-> "free", user |-> Nobody, after |-> 0]]
  /\ sessions = {}
  /\ stale = {}
  /\ gone = {}
  /\ alarm = FALSE
  /\ wire = [s \in Socket |-> <<>>]
  /\ replays = {}

-----------------------------------------------------------------------------
(* Helpers of the handlers and of the Durable Object.                      *)

(* validateRoomAccess authorises exactly the members of the room.          *)
Member == Admin \cup assigned

(* Mutant of UserOf: sockets still in their upgrade count as well.         *)
UserOfUpgrades(S) == {conn[s].user : s \in Socket}

UserOf(S) == {conn[s].user : s \in S}
Owned(u) == {s \in sessions : conn[s].user = u}

(* Handler r, idle until now, begins; continues; answers.                  *)
Start(r, u, arg, m, step) ==
  /\ request[r].step = "idle"
  /\ request' = [request EXCEPT ![r] = [step |-> step, user |-> u, arg |-> arg,
                                       msg |-> m, online |-> {}, members |-> {}]]

Continue(r, step) == request' = [request EXCEPT ![r].step = step]
Answer(r) == request' = [request EXCEPT ![r] = Idle]

(* The sets of sockets that a broadcast to S may still reach: without the  *)
(* old ones, that missed the heartbeat, and without those on which send    *)
(* throws, which may happen once the client is gone.                       *)
Reach(S, old) == {S \ (old \cup broken) : broken \in SUBSET (S \cap gone)}

(* broadcast(): the sockets of S that are reached get the payloads, the    *)
(* others are closed and leave the map.                                    *)
Broadcast(S, payloads) ==
  \E reached \in Reach(S, stale) :
    /\ sessions' = reached
    /\ stale' = {}
    /\ wire' = [s \in Socket |-> IF s \in reached THEN wire[s] \o payloads ELSE wire[s]]
    /\ UNCHANGED <<conn, gone, alarm, replays>>

(* A handler's call of the Durable Object.  When the call fails the        *)
(* handler only logs it.                                                   *)
CallBroadcast(payloads) ==
  \/ Broadcast(sessions, payloads)
  \/ "object" \in Fault /\ UNCHANGED object

-----------------------------------------------------------------------------
(* POST /rooms/:room_id/messages ("text"), /share-job ("job"),             *)
(* /share-resume and /attachment ("file").                                 *)

(* An attachment does not move the read cursor of its sender.              *)
AfterInsert(kind) == IF kind = "file" THEN "post" ELSE "cursor"

(* Only a text is notified to the members who are away; a shared job is    *)
(* broadcast and answered.                                                 *)
AfterBroadcast(kind) == IF kind = "text" THEN "resolve" ELSE "answer"

PostCheck(r, u, kind) ==
  /\ kind \in Handler
  /\ u \in Member
  /\ status \notin {"read_only", "archived"}
  /\ Start(r, u, kind, 0, "insert")
  /\ UNCHANGED <<rows, object>>

PostInsert(r) ==
  /\ request[r].step = "insert"
  /\ Len(messages) < MaxMessage
  /\ messages' = Append(messages, [sender |-> request[r].user, deleted |-> FALSE])
  /\ request' = [request EXCEPT
                   ![r].msg = Len(messages) + 1,
                   ![r].step = AfterInsert(request[r].arg)]
  /\ UNCHANGED <<status, assigned, read, notified, object>>

(* The read cursor of the sender moves to NOW().                           *)
PostCursor(r) ==
  /\ request[r].step = "cursor"
  /\ read' = [read EXCEPT ![request[r].user] = Len(messages)]
  /\ Continue(r, "post")
  /\ UNCHANGED <<status, assigned, messages, notified, object>>

(* Mutant of Online: it is computed before the broadcast.                  *)
OnlineBefore == UserOf(sessions)

(* onlineUserIds: the users that still have a session after the broadcast. *)
Online == UserOf(sessions')

(* The Durable Object broadcasts and answers with onlineUserIds; without   *)
(* an answer nobody counts as online.                                      *)
PostBroadcast(r) ==
  /\ request[r].step = "post"
  /\ \/ /\ Broadcast(sessions, <<NewMessage(request[r].msg, TRUE, TRUE)>>)
        /\ request' = [request EXCEPT
                         ![r].online = Online,
                         ![r].step = AfterBroadcast(request[r].arg)]
     \/ /\ "object" \in Fault
        /\ \/ Broadcast(sessions, <<NewMessage(request[r].msg, TRUE, TRUE)>>)
           \/ UNCHANGED object
        /\ Continue(r, AfterBroadcast(request[r].arg))
  /\ UNCHANGED rows

PostResolve(r) ==
  /\ request[r].step = "resolve"
  /\ request' = [request EXCEPT ![r].members = Member, ![r].step = "notify"]
  /\ UNCHANGED <<rows, object>>

(* The recipients that the loop over offlineRecipients has still to reach. *)
Offline(r) ==
  {u \in request[r].members \ (request[r].online \cup {request[r].user}) :
     <<u, request[r].msg>> \notin notified}

PostNotify(r, u) ==
  /\ request[r].step = "notify"
  /\ u \in Offline(r)
  /\ notified' = notified \cup {<<u, request[r].msg>>}
  /\ UNCHANGED <<status, assigned, messages, read, request, object>>

(* Mutant of PostAnswer: the loop over the recipients is left early.       *)
PostAnswerEarly(r) ==
  /\ request[r].step \in {"answer", "notify"}
  /\ Answer(r)
  /\ UNCHANGED <<rows, object>>

PostAnswer(r) ==
  /\ \/ request[r].step = "answer"
     \/ request[r].step = "notify" /\ Offline(r) = {}
  /\ Answer(r)
  /\ UNCHANGED <<rows, object>>

-----------------------------------------------------------------------------
(* DELETE /messages/:message_id                                            *)

(* Admins delete everything, sub-admins everything but the messages of     *)
(* admins, the others what they sent.                                      *)
MayDelete(u, m) ==
  \/ u \in Admin
  \/ u \in SubAdmin /\ messages[m].sender \notin Admin
  \/ u = messages[m].sender

DeleteCheck(r, u, m) ==
  /\ "delete" \in Handler
  /\ u \in Member
  /\ \A s \in Socket : Len(wire[s]) < MaxPayload
  /\ MayDelete(u, m)
  /\ Start(r, u, "text", m, "delete")
  /\ UNCHANGED <<rows, object>>

(* Mutant of DeleteUpdate: the handler ends without the broadcast.         *)
DeleteUnannounced(r) ==
  /\ request[r].step = "delete"
  /\ messages' = [messages EXCEPT ![request[r].msg].deleted = TRUE]
  /\ Answer(r)
  /\ UNCHANGED <<status, assigned, read, notified, object>>

DeleteUpdate(r) ==
  /\ request[r].step = "delete"
  /\ messages' = [messages EXCEPT ![request[r].msg].deleted = TRUE]
  /\ Continue(r, "delete_cast")
  /\ UNCHANGED <<status, assigned, read, notified, object>>

DeleteBroadcast(r) ==
  /\ request[r].step = "delete_cast"
  /\ CallBroadcast(<<MessageDeleted(request[r].msg)>>)
  /\ Answer(r)
  /\ UNCHANGED rows

-----------------------------------------------------------------------------
(* POST /rooms/:room_id/lock, /unlock and /archive                         *)

StatusCheck(r, u, st) ==
  /\ "status" \in Handler
  /\ u \in Member \cap (Admin \cup SubAdmin)
  /\ Start(r, u, st, 0, "status")
  /\ UNCHANGED <<rows, object>>

StatusUpdate(r) ==
  /\ request[r].step = "status"
  /\ status' = request[r].arg
  /\ Continue(r, "status_cast")
  /\ UNCHANGED <<assigned, messages, read, notified, object>>

StatusBroadcast(r) ==
  /\ request[r].step = "status_cast"
  /\ CallBroadcast(<<>>)
  /\ Answer(r)
  /\ UNCHANGED rows

-----------------------------------------------------------------------------
(* PATCH /rooms/:room_id/read: last_read_at moves to NOW(), whatever       *)
(* message the caller names.                                               *)

ReadCheck(r, u) ==
  /\ "read" \in Handler
  /\ u \in Member
  /\ Start(r, u, "text", 0, "upsert")
  /\ UNCHANGED <<rows, object>>

ReadUpsert(r) ==
  /\ request[r].step = "upsert"
  /\ read' = [read EXCEPT ![request[r].user] = Len(messages)]
  /\ Continue(r, "receipt_cast")
  /\ UNCHANGED <<status, assigned, messages, notified, object>>

ReadBroadcast(r) ==
  /\ request[r].step = "receipt_cast"
  /\ CallBroadcast(<<>>)
  /\ Answer(r)
  /\ UNCHANGED rows

-----------------------------------------------------------------------------
(* The end of an assignment (DELETE /clients/:id/employees/:id, and the    *)
(* deactivation of an account, which evicts in the same way): first the    *)
(* row, then the sessions of the user.  Sub-admins are not evicted when    *)
(* their assignments are replaced (routes/subAdmins.ts).                   *)

Unassign(r, u) ==
  /\ "assign" \in Handler
  /\ u \in assigned
  /\ assigned' = assigned \ {u}
  /\ Start(r, u, "text", 0, IF u \in Recruiter THEN "evict" ELSE "answer")
  /\ UNCHANGED <<status, messages, read, notified, object>>

(* The sockets of the user get access_revoked and leave the map; the rest  *)
(* of the room gets the new presence and room_members_updated.             *)
Evict(r) ==
  /\ request[r].step = "evict"
  /\ LET removed == Owned(request[r].user) IN
       \/ \E reached \in Reach(sessions \ removed, stale) :
            /\ sessions' = reached
            /\ stale' = {}
            /\ wire' = [s \in Socket |-> IF s \in removed
                                         THEN Append(wire[s], AccessRevoked) ELSE wire[s]]
            /\ UNCHANGED <<conn, gone, alarm, replays>>
       \/ "object" \in Fault /\ UNCHANGED object
  /\ Answer(r)
  /\ UNCHANGED rows

(* POST /clients/:id/assign: the row, then room_members_updated.           *)
Assign(r, u) ==
  /\ "assign" \in Handler
  /\ u \in (SubAdmin \cup Recruiter) \ assigned
  /\ assigned' = assigned \cup {u}
  /\ Start(r, u, "text", 0, IF u \in Recruiter THEN "welcome" ELSE "answer")
  /\ UNCHANGED <<status, messages, read, notified, object>>

Welcome(r) ==
  /\ request[r].step = "welcome"
  /\ CallBroadcast(<<>>)
  /\ Answer(r)
  /\ UNCHANGED rows

(* A handler ends between two of its steps: its isolate is evicted, or a   *)
(* statement throws and it answers 500.                                    *)
RequestLost(r) ==
  /\ "request" \in Fault
  /\ request[r].step # "idle"
  /\ Answer(r)
  /\ UNCHANGED <<rows, object>>

-----------------------------------------------------------------------------
(* The Durable Object: sockets, replays and the heartbeat alarm.           *)

(* GET /rooms/:room_id/ws: the Worker checks the access of u and forwards  *)
(* the upgrade; after is the client's last_message_id.                     *)
Connect(s, u, after) ==
  /\ conn[s].step = "free"
  /\ u \in Member
  /\ conn' = [conn EXCEPT ![s] = [step |-> "checked", user |-> u, after |-> after]]
  /\ UNCHANGED <<rows, request, sessions, stale, gone, alarm, wire, replays>>

(* The Durable Object checks again; an error of the database is only       *)
(* logged, and the upgrade goes on.                                        *)
Admit(s) ==
  /\ conn[s].step = "checked"
  /\ \/ /\ conn[s].user \in Member \/ "database" \in Fault
        /\ conn' = [conn EXCEPT ![s].step = "admitted"]
     \/ /\ conn[s].user \notin Member
        /\ conn' = [conn EXCEPT ![s].step = "refused"]
  /\ UNCHANGED <<rows, request, sessions, stale, gone, alarm, wire, replays>>

(* handleSession, the start of the replay and the scheduling of the alarm, *)
(* whose errors are swallowed.                                             *)
Register(s) ==
  /\ conn[s].step = "admitted"
  /\ conn' = [conn EXCEPT ![s].step = "open"]
  /\ sessions' \in Reach(sessions \cup {s}, stale)
  /\ stale' = {}
  /\ replays' = IF conn[s].after = 0 THEN replays
                ELSE replays \cup {[socket |-> s, step |-> "select", after |-> conn[s].after,
                                    admin |-> conn[s].user \in Admin, rows |-> <<>>]}
  /\ \/ alarm' = TRUE
     \/ "storage" \in Fault /\ UNCHANGED alarm
  /\ UNCHANGED <<rows, request, gone, wire>>

(* replayMissedMessages: the rows after the given one, the oldest first;   *)
(* a deleted one without its text unless the call says that the user is an *)
(* admin.                                                                  *)
Missed(p) ==
  LET Least(a, b) == IF a < b THEN a ELSE b IN
    [i \in 1..Least(ReplayLimit, Len(messages) - p.after) |->
       NewMessage(p.after + i, p.admin \/ ~messages[p.after + i].deleted, FALSE)]

ReplaySelect(p) ==
  /\ p \in replays /\ p.step = "select"
  /\ \/ replays' = (replays \ {p}) \cup {[p EXCEPT !.step = "send", !.rows = Missed(p)]}
     \/ "database" \in Fault /\ replays' = replays \ {p}
  /\ UNCHANGED <<rows, request, conn, sessions, stale, gone, alarm, wire>>

(* Mutant of ReplaySend: the socket is not looked at again after the       *)
(* SELECT.                                                                 *)
ReplaySendBlind(p) ==
  /\ p \in replays /\ p.step = "send"
  /\ wire' = [wire EXCEPT ![p.socket] = @ \o p.rows]
  /\ replays' = replays \ {p}
  /\ UNCHANGED <<rows, request, conn, sessions, stale, gone, alarm>>

(* One event, so the rows go out together; nothing goes out on a socket    *)
(* that was closed in the meantime.                                        *)
ReplaySend(p) ==
  /\ p \in replays /\ p.step = "send"
  /\ wire' = IF p.socket \in sessions
             THEN [wire EXCEPT ![p.socket] = @ \o p.rows] ELSE wire
  /\ replays' = replays \ {p}
  /\ UNCHANGED <<rows, request, conn, sessions, stale, gone, alarm>>

(* Mutant of FrameRefused: the socket stays in the map.                    *)
FrameRefusedKept(s) ==
  /\ s \in sessions \ gone
  /\ conn[s].user \notin Member
  /\ wire' = [wire EXCEPT ![s] = Append(@, AccessRevoked)]
  /\ sessions' \in Reach(sessions, stale)
  /\ stale' = {}
  /\ UNCHANGED <<rows, request, conn, gone, alarm, replays>>

(* A frame of a live client: its access is checked again, and a user who   *)
(* lost it is disconnected.                                                *)
FrameRefused(s) ==
  /\ s \in sessions \ gone
  /\ conn[s].user \notin Member
  /\ wire' = [wire EXCEPT ![s] = Append(@, AccessRevoked)]
  /\ sessions' \in Reach(sessions \ {s}, stale)
  /\ stale' = {}
  /\ UNCHANGED <<rows, request, conn, gone, alarm, replays>>

FrameAccepted(s) ==
  /\ s \in sessions \ gone
  /\ conn[s].user \in Member \/ "database" \in Fault

(* The sync that the client sends when the socket opens.  Its replay never *)
(* counts as one for an admin.                                             *)
Sync(s) ==
  /\ FrameAccepted(s)
  /\ conn[s].step = "open"
  /\ conn' = [conn EXCEPT ![s].step = "synced"]
  /\ replays' = IF conn[s].after = 0 THEN replays
                ELSE replays \cup {[socket |-> s, step |-> "select", after |-> conn[s].after,
                                    admin |-> FALSE, rows |-> <<>>]}
  /\ stale' = stale \ {s}
  /\ UNCHANGED <<rows, request, sessions, gone, alarm, wire>>

(* typing, read and delivery_ack are broadcast.                            *)
Frame(s) ==
  /\ FrameAccepted(s)
  /\ sessions' \in Reach(sessions, stale \ {s})
  /\ stale' = {}
  /\ UNCHANGED <<rows, request, conn, gone, alarm, wire, replays>>

Ping(s) ==
  /\ s \in stale \ gone
  /\ stale' = stale \ {s}
  /\ UNCHANGED <<rows, request, conn, sessions, gone, alarm, wire, replays>>

(* 35 s pass without a frame of s.                                         *)
Quiet(s) ==
  /\ s \in sessions \ stale
  /\ stale' = stale \cup {s}
  /\ UNCHANGED <<rows, request, conn, sessions, gone, alarm, wire, replays>>

(* The client of s goes away; the Durable Object may learn of it or not.   *)
Leave(s) ==
  /\ conn[s].step \notin {"free", "refused"}
  /\ s \notin gone
  /\ gone' = gone \cup {s}
  /\ UNCHANGED <<rows, request, conn, sessions, stale, alarm, wire, replays>>

CloseEvent(s) ==
  /\ s \in sessions \cap gone
  /\ sessions' \in Reach(sessions \ {s}, stale)
  /\ stale' = {}
  /\ UNCHANGED <<rows, request, conn, gone, alarm, wire, replays>>

(* Mutant of Alarm: it is not scheduled again.                             *)
AlarmOnce ==
  /\ alarm
  /\ \/ stale = {} /\ sessions' = sessions
     \/ stale # {} /\ sessions' \in Reach(sessions, stale)
  /\ stale' = {}
  /\ alarm' = FALSE
  /\ UNCHANGED <<rows, request, conn, gone, wire, replays>>

(* Mutant of Alarm: the stale sessions stay.                               *)
AlarmSparing ==
  /\ alarm
  /\ alarm' = (sessions # {})
  /\ UNCHANGED <<rows, request, conn, sessions, stale, gone, wire, replays>>

(* The alarm closes the stale sessions and is scheduled again as long as   *)
(* there are others.                                                       *)
Alarm ==
  /\ alarm
  /\ \/ stale = {} /\ sessions' = sessions
     \/ stale # {} /\ sessions' \in Reach(sessions, stale)
  /\ stale' = {}
  /\ \/ alarm' = (sessions' # {})
     \/ "storage" \in Fault /\ alarm' = FALSE
  /\ UNCHANGED <<rows, request, conn, gone, wire, replays>>

(* The Durable Object is evicted or deployed again: its memory and its     *)
(* sockets go, the alarm stays.                                            *)
Restart ==
  /\ "restart" \in Fault
  /\ sessions' = {} /\ stale' = {} /\ replays' = {}
  /\ conn' = [s \in Socket |-> IF conn[s].step \in {"checked", "admitted"}
                               THEN [conn[s] EXCEPT !.step = "refused"] ELSE conn[s]]
  /\ UNCHANGED <<rows, request, gone, alarm, wire>>

-----------------------------------------------------------------------------

Post(r) ==
  \/ \E u \in User, kind \in Kind : PostCheck(r, u, kind)
  \/ PostInsert(r) \/ PostCursor(r) \/ PostBroadcast(r)
  \/ PostResolve(r) \/ (\E u \in User : PostNotify(r, u)) \/ PostAnswer(r)

Delete(r) ==
  \/ \E u \in User, m \in DOMAIN messages : DeleteCheck(r, u, m)
  \/ DeleteUpdate(r) \/ DeleteBroadcast(r)

ChangeStatus(r) ==
  \/ \E u \in User, st \in Status : StatusCheck(r, u, st)
  \/ StatusUpdate(r) \/ StatusBroadcast(r)

MarkRead(r) ==
  \/ \E u \in User : ReadCheck(r, u)
  \/ ReadUpsert(r) \/ ReadBroadcast(r)

ChangeMembers(r) ==
  \/ \E u \in User : Unassign(r, u) \/ Assign(r, u)
  \/ Evict(r) \/ Welcome(r)

Rest(r) ==
  \/ Post(r) \/ Delete(r) \/ ChangeStatus(r) \/ MarkRead(r) \/ ChangeMembers(r)
  \/ RequestLost(r)

Objects ==
  \/ \E s \in Socket : Admit(s) \/ Register(s) \/ Quiet(s) \/ CloseEvent(s)
  \/ \E p \in replays : ReplaySelect(p) \/ ReplaySend(p)
  \/ Alarm
  \/ Restart

(* What the browsers do; after is any message the client may have seen.    *)
Browser ==
  \E s \in Socket :
    \/ \E u \in User, after \in 0..Len(messages) : Connect(s, u, after)
    \/ Sync(s) \/ Frame(s) \/ FrameRefused(s)
    \/ Ping(s)
    \/ Leave(s)

Next == (\E r \in Request : Rest(r)) \/ Objects \/ Browser

Spec == Init /\ [][Next]_vars

(* Alarms fire and time passes for a client that went away.                *)
FairSpec ==
  /\ Spec
  /\ WF_vars(Alarm)
  /\ \A s \in Socket : WF_vars(s \in gone /\ Quiet(s))

-----------------------------------------------------------------------------

Sent(u, m) ==
  \E s \in Socket : /\ conn[s].user = u
                    /\ \E i \in DOMAIN wire[s] : wire[s][i].type = "new_message"
                                              /\ wire[s][i].msg = m

(* "Insert into Neon -> Broadcast from DO -> If Recipient Offline -> Push  *)
(* Notification" (chat.ts:687): once the handler knows the members, each   *)
(* of them but the sender was sent the message, has the notification or is *)
(* still in the loop, whatever sockets came and went meanwhile.            *)
NobodyOverlooked ==
  \A r \in Request :
    request[r].step = "notify" =>
      \A u \in request[r].members \ {request[r].user} :
        \/ u \in Offline(r)
        \/ <<u, request[r].msg>> \in notified
        \/ Sent(u, request[r].msg)

(* While the Durable Object holds a socket its alarm is scheduled, so that *)
(* a dead one is swept even in a room where nothing is sent.               *)
SweepArmed == sessions # {} => alarm

(* Nothing follows access_revoked on a socket: a removed user gets no      *)
(* message that was broadcast or replayed after the eviction.              *)
NothingAfterRevocation ==
  \A s \in Socket : \A i \in DOMAIN wire[s] :
    wire[s][i].type = "access_revoked" => i = Len(wire[s]) /\ s \notin sessions

(* A socket whose client went away leaves the map, even without an event,  *)
(* unless the alarm is lost: which takes a failure of the storage (see     *)
(* SweepArmed), whose error the object swallows (ChatRoomDO.ts:141-167).   *)
DeadSocketSwept ==
  \A s \in Socket : (s \in gone) ~> (s \notin sessions \/ ~alarm)

(* "completely sanitize deleted messages" (chat.ts:544): with no handler    *)
(* or replay under way, the last that a connected user who is no admin was *)
(* sent of a deleted message is not its text.  It holds of the sockets     *)
(* that were opened without a replay, for handlers that follow one another *)
(* (a replay may send a text that it read before the deletion).            *)
About(s, m) == {i \in DOMAIN wire[s] : wire[s][i].msg = m}

LiveTextWithdrawn ==
  replays = {} /\ (\A r \in Request : request[r].step = "idle") =>
    \A s \in sessions, m \in DOMAIN messages :
      conn[s].after = 0 /\ messages[m].deleted /\ conn[s].user \notin Admin =>
        \A i \in About(s, m) : (\A j \in About(s, m) : j <= i) => ~wire[s][i].text

(* "Instant account invalidation on ... recruiter offboarding"             *)
(* (SECURITY.md:19): when no eviction is under way, every session belongs  *)
(* to a member of the room.                                                *)
SessionsOfMembers ==
  (\A r \in Request : request[r].step # "evict") => UserOf(sessions) \subseteq Member

=============================================================================
