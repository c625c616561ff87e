------------------------------ MODULE ChatProofs ------------------------------
(***************************************************************************)
(* Proofs about the chat room, for any users, sockets, handlers and        *)
(* bounds: the invariants of ChatRoom; that its handlers, the Durable      *)
(* Object and the browsers implement Delivery; that the browsers of        *)
(* ChatClient are browsers of the room; and what their panes show.         *)
(***************************************************************************)
EXTENDS ChatClient, ChatDelivery, Integers, FiniteSetTheorems, TLAPS

(*-------------------------------------------------------------------------*)
(* The room.                                                               *)
(*-------------------------------------------------------------------------*)

(* The type invariant by the groups of variables that change together.     *)
RowsTyped ==
  /\ status \in Status
  /\ assigned \subseteq SubAdmin \cup Recruiter
  /\ messages \in Seq(Message)
  /\ read \in [User -> Nat]
  /\ notified \subseteq User \X Nat

RequestTyped == request \in [Request -> Local]

ObjectTyped ==
  /\ conn \in [Socket -> Upgrade]
  /\ sessions \subseteq Socket
  /\ stale \subseteq sessions
  /\ gone \subseteq Socket
  /\ alarm \in BOOLEAN
  /\ wire \in [Socket -> Seq(Payload)]
  /\ replays \subseteq Replay

(* The handlers know their caller, and a status change its status.         *)
Locals ==
  \A r \in Request :
    /\ request[r].step # "idle" => request[r].user \in User
    /\ request[r].step \in {"status"} => request[r].arg \in Status

(* A socket has its user from the first check on; only sockets that were   *)
(* accepted are in the map or carried anything.                            *)
Accepted == {"open", "synced"}

Sockets ==
  \A s \in Socket :
    /\ conn[s].step # "free" => conn[s].user \in User
    /\ s \in sessions => conn[s].step \in Accepted
    /\ wire[s] # <<>> => conn[s].step \in Accepted

(* The strengthening of NobodyOverlooked: whoever the Durable Object named *)
(* as online was sent the message.                                         *)
OnlineWereSent ==
  \A r \in Request :
    request[r].step \in {"resolve", "notify"} =>
      \A u \in request[r].online : Sent(u, request[r].msg)

IInv == TypeOK /\ Locals /\ Sockets

-----------------------------------------------------------------------------

LEMMA TypeParts == TypeOK <=> RowsTyped /\ RequestTyped /\ ObjectTyped
  BY DEF TypeOK, RowsTyped, RequestTyped, ObjectTyped

LEMMA TypePartsNext == TypeOK' <=> RowsTyped' /\ RequestTyped' /\ ObjectTyped'
  BY DEF TypeOK, RowsTyped, RequestTyped, ObjectTyped

LEMMA PayloadTypes ==
  /\ \A m \in Nat, a, b \in BOOLEAN : NewMessage(m, a, b) \in Payload
  /\ \A m \in Nat : MessageDeleted(m) \in Payload
  /\ AccessRevoked \in Payload
  BY DEF NewMessage, MessageDeleted, AccessRevoked, Payload

LEMMA OnePayload ==
  ASSUME NEW m \in Nat PROVE <<NewMessage(m, TRUE, TRUE)>> \in Seq(Payload)
  <1>1. PICK p : p = NewMessage(m, TRUE, TRUE)
    OBVIOUS
  <1>2. p \in Payload
    BY <1>1, PayloadTypes
  <1>3. <<p>> \in Seq(Payload)
    BY <1>2
  <1> QED
    BY <1>1, <1>3, Zenon

LEMMA InitIInv == Init => IInv
  <1> SUFFICES ASSUME Init PROVE IInv
    OBVIOUS
  <1>1. RowsTyped
    BY DEF Init, RowsTyped, Status
  <1>2. RequestTyped
    BY DEF Init, RequestTyped, Idle, Local, Step, Kind, Nobody
  <1>3. ObjectTyped
    <2>1. [step |-> "free", user |-> Nobody, after |-> 0] \in Upgrade
      BY DEF Upgrade
    <2>2. <<>> \in Seq(Payload)
      OBVIOUS
    <2> QED
      BY <2>1, <2>2 DEF Init, ObjectTyped
  <1>4. Locals
    BY DEF Init, Locals, Idle
  <1>5. Sockets
    BY DEF Init, Sockets
  <1> QED
    BY <1>1, <1>2, <1>3, <1>4, <1>5, TypeParts DEF IInv

(* What a broadcast leaves behind.                                         *)
LEMMA BroadcastTyped ==
  ASSUME TypeOK, NEW S \in SUBSET sessions, NEW payloads \in Seq(Payload),
         Broadcast(S, payloads)
  PROVE  /\ ObjectTyped'
         /\ sessions' \subseteq S
         /\ UNCHANGED <<conn, gone, alarm, replays>>
  <1>1. PICK reached \in Reach(S, stale) :
          /\ sessions' = reached
          /\ stale' = {}
          /\ wire' = [s \in Socket |-> IF s \in reached THEN wire[s] \o payloads ELSE wire[s]]
          /\ UNCHANGED <<conn, gone, alarm, replays>>
    BY DEF Broadcast
  <1>2. reached \subseteq S
    BY <1>1 DEF Reach
  <1>3. \A s \in Socket : wire[s] \o payloads \in Seq(Payload)
    BY DEF TypeOK
  <1>4. wire' \in [Socket -> Seq(Payload)]
    BY <1>1, <1>3 DEF TypeOK
  <1> QED
    BY <1>1, <1>2, <1>4 DEF TypeOK, ObjectTyped

(* The local variables of the handlers stay typed.                         *)
LEMMA StartTyped ==
  ASSUME TypeOK, Locals, NEW r \in Request, NEW u \in User, NEW arg \in Kind \cup Status,
         NEW m \in Nat, NEW step \in Step, Start(r, u, arg, m, step),
         step = "status" => arg \in Status
  PROVE  RequestTyped' /\ Locals'
  <1> DEFINE new == [step |-> step, user |-> u, arg |-> arg,
                     msg |-> m, online |-> {}, members |-> {}]
  <1>1. request' = [request EXCEPT ![r] = new]
    BY DEF Start
  <1>2. new \in Local
    BY DEF Local
  <1>3. /\ new.step = step /\ new.user = u /\ new.arg = arg
    OBVIOUS
  <1> HIDE DEF new
  <1>4. \A q \in Request : request'[q] = IF q = r THEN new ELSE request[q]
    BY <1>1 DEF TypeOK
  <1>5. RequestTyped'
    BY <1>1, <1>2 DEF TypeOK, RequestTyped
  <1>6. Locals'
    BY <1>3, <1>4 DEF Locals
  <1> QED
    BY <1>5, <1>6

LEMMA ContinueTyped ==
  ASSUME TypeOK, Locals, NEW r \in Request, NEW step \in Step \ {"status"},
         request[r].step # "idle", Continue(r, step)
  PROVE  RequestTyped' /\ Locals'
  <1>1. request[r] \in Local
    BY DEF TypeOK
  <1> DEFINE new == [request[r] EXCEPT !.step = step]
  <1>2. new \in Local /\ new.step = step /\ new.user = request[r].user
    BY <1>1 DEF Local
  <1>3. request' = [request EXCEPT ![r] = new]
    BY DEF Continue
  <1> HIDE DEF new
  <1>4. \A q \in Request : request'[q] = IF q = r THEN new ELSE request[q]
    BY <1>3 DEF TypeOK
  <1>5. RequestTyped'
    BY <1>2, <1>3 DEF TypeOK, RequestTyped
  <1>6. Locals'
    BY <1>2, <1>4 DEF Locals
  <1> QED
    BY <1>5, <1>6

LEMMA AnswerTyped ==
  ASSUME TypeOK, Locals, NEW r \in Request, Answer(r)
  PROVE  RequestTyped' /\ Locals'
  <1>1. Idle \in Local /\ Idle.step = "idle"
    BY DEF Idle, Local, Step, Kind
  <1>2. \A q \in Request : request'[q] = IF q = r THEN Idle ELSE request[q]
    BY DEF Answer, TypeOK
  <1>3. RequestTyped'
    BY <1>1 DEF Answer, TypeOK, RequestTyped
  <1>4. Locals'
    BY <1>1, <1>2 DEF Locals
  <1> QED
    BY <1>3, <1>4

LEMMA SameRows == ASSUME TypeOK, UNCHANGED rows PROVE RowsTyped'
  BY DEF TypeOK, RowsTyped, rows

LEMMA SameRequest ==
  ASSUME TypeOK, Locals, UNCHANGED request PROVE RequestTyped' /\ Locals'
  BY DEF TypeOK, RequestTyped, Locals

LEMMA SameObject ==
  ASSUME TypeOK, Sockets, UNCHANGED object PROVE ObjectTyped' /\ Sockets'
  <1>1. ObjectTyped'
    BY DEF TypeOK, ObjectTyped, object
  <1>2. Sockets'
    BY DEF Sockets, object
  <1> QED
    BY <1>1, <1>2

LEMMA BroadcastSockets ==
  ASSUME TypeOK, Sockets, NEW payloads \in Seq(Payload), Broadcast(sessions, payloads)
  PROVE  ObjectTyped' /\ Sockets'
  <1>1. ObjectTyped' /\ sessions' \subseteq sessions /\ UNCHANGED conn
    BY BroadcastTyped
  <1>2. \A s \in Socket : wire'[s] # <<>> => wire[s] # <<>> \/ s \in sessions
    <2>1. PICK reached \in Reach(sessions, stale) :
            wire' = [s \in Socket |-> IF s \in reached THEN wire[s] \o payloads ELSE wire[s]]
      BY DEF Broadcast
    <2>2. reached \subseteq sessions
      BY DEF Reach
    <2> QED
      BY <2>1, <2>2
  <1>3. Sockets'
    BY <1>1, <1>2 DEF Sockets
  <1> QED
    BY <1>1, <1>3

LEMMA CallSockets ==
  ASSUME TypeOK, Sockets, NEW payloads \in Seq(Payload), CallBroadcast(payloads)
  PROVE  ObjectTyped' /\ Sockets'
  BY BroadcastSockets, SameObject DEF CallBroadcast

(* The handlers.                                                           *)
LEMMA RestStep == ASSUME IInv, NEW r \in Request, Rest(r) PROVE IInv'
  <1> USE DEF IInv
  <1>0. /\ TypeOK /\ Locals /\ Sockets
        /\ request[r] \in Local
        /\ request[r].msg \in Nat
        /\ {"text", "job", "file"} \subseteq Kind \cup Status
        /\ Kind \cap Status = {}
        /\ Len(messages) \in Nat
        /\ <<>> \in Seq(Payload)
    BY DEF TypeOK, Local, Kind, Status
  <1> SUFFICES /\ RowsTyped' /\ RequestTyped' /\ Locals'
               /\ ObjectTyped' /\ Sockets'
    BY TypePartsNext
  <1>1. ASSUME NEW u \in User, NEW kind \in Kind, PostCheck(r, u, kind)
        PROVE  RowsTyped' /\ RequestTyped' /\ Locals' /\ ObjectTyped' /\ Sockets'
    <2>1. RequestTyped' /\ Locals'
      BY <1>0, <1>1, StartTyped DEF PostCheck, Step
    <2> QED
      BY <1>0, <1>1, <2>1, SameRows, SameObject DEF PostCheck
  <1>2. CASE PostInsert(r)
    <2>1. ObjectTyped' /\ Sockets'
      BY <1>0, <1>2, SameObject DEF PostInsert
    <2>2. request[r].user \in User /\ Len(messages) \in Nat
      BY <1>0, <1>2 DEF PostInsert, Locals, TypeOK
    <2>3. RowsTyped'
      <3>1. [sender |-> request[r].user, deleted |-> FALSE] \in Message
        BY <2>2 DEF Message
      <3> QED
        BY <1>2, <3>1 DEF PostInsert, TypeOK, RowsTyped
    <2> DEFINE next == AfterInsert(request[r].arg)
    <2> DEFINE new == [request[r] EXCEPT !.msg = Len(messages) + 1, !.step = next]
    <2>5. request' = [request EXCEPT ![r] = new]
      BY <1>2 DEF PostInsert
    <2>a. next \in {"post", "cursor"} /\ next \in Step /\ Len(messages) + 1 \in Nat
      BY <2>2 DEF Step, AfterInsert
    <2> HIDE DEF next
    <2>4. new \in Local /\ new.user = request[r].user /\ new.step \in {"post", "cursor"}
      BY <1>0, <2>a DEF Local
    <2> HIDE DEF new
    <2>6. \A q \in Request : request'[q] = IF q = r THEN new ELSE request[q]
      BY <2>5 DEF TypeOK
    <2>7. RequestTyped' /\ Locals'
      BY <2>2, <2>4, <2>5, <2>6 DEF TypeOK, RequestTyped, Locals
    <2> QED
      BY <2>1, <2>3, <2>7
  <1>3. CASE PostCursor(r)
    <2>1. RequestTyped' /\ Locals'
      BY <1>0, <1>3, ContinueTyped DEF PostCursor, Step
    <2>2. ObjectTyped' /\ Sockets'
      BY <1>0, <1>3, SameObject DEF PostCursor
    <2>3. RowsTyped'
      BY <1>0, <1>3 DEF PostCursor, TypeOK, RowsTyped
    <2> QED
      BY <2>1, <2>2, <2>3
  <1>4. CASE PostBroadcast(r)
    <2>1. <<NewMessage(request[r].msg, TRUE, TRUE)>> \in Seq(Payload)
      BY <1>0, OnePayload
    <2>2. ObjectTyped' /\ Sockets'
      BY <1>0, <1>4, <2>1, BroadcastSockets, SameObject DEF PostBroadcast
    <2>3. RowsTyped'
      BY <1>4, SameRows DEF PostBroadcast
    <2> DEFINE next == AfterBroadcast(request[r].arg)
    <2>4. next \in Step \ {"status"} /\ request[r].step = "post"
      BY <1>4 DEF Step, PostBroadcast, AfterBroadcast
    <2>b. conn' = conn
      BY <1>4, <2>1, BroadcastTyped DEF PostBroadcast, object
    <2>5. CASE request' = [request EXCEPT ![r].online = UserOf(sessions'), ![r].step = next]
      <3>1. UserOf(sessions') \subseteq User
        BY <2>2, <2>b DEF UserOf, Sockets, ObjectTyped, Accepted
      <3> DEFINE new == [request[r] EXCEPT !.online = UserOf(sessions'), !.step = next]
      <3>2. new \in Local /\ new.user = request[r].user /\ new.step = next
        BY <1>0, <2>4, <3>1 DEF Local
      <3>3. request' = [request EXCEPT ![r] = new]
        BY <2>5
      <3> HIDE DEF new
      <3>4. \A q \in Request : request'[q] = IF q = r THEN new ELSE request[q]
        BY <3>3 DEF TypeOK
      <3>5. RequestTyped' /\ Locals'
        BY <2>4, <3>2, <3>3, <3>4 DEF TypeOK, RequestTyped, Locals
      <3> QED
        BY <2>2, <2>3, <3>5
    <2>6. CASE Continue(r, next)
      <3>1. RequestTyped' /\ Locals'
        BY <1>0, <2>4, <2>6, ContinueTyped
      <3> QED
        BY <2>2, <2>3, <3>1
    <2> QED
      BY <1>4, <2>5, <2>6 DEF PostBroadcast, Online
  <1>5. CASE PostResolve(r)
    <2> DEFINE new == [request[r] EXCEPT !.members = Member, !.step = "notify"]
    <2>1. new \in Local /\ new.user = request[r].user /\ new.step = "notify"
      BY <1>0 DEF Local, Step, Member, TypeOK, User
    <2>2. request' = [request EXCEPT ![r] = new]
      BY <1>5 DEF PostResolve
    <2> HIDE DEF new
    <2>3. \A q \in Request : request'[q] = IF q = r THEN new ELSE request[q]
      BY <2>2 DEF TypeOK
    <2>4. RequestTyped' /\ Locals'
      BY <1>5, <2>1, <2>2, <2>3 DEF TypeOK, RequestTyped, Locals, PostResolve
    <2> QED
      BY <1>0, <1>5, <2>4, SameRows, SameObject DEF PostResolve
  <1>6. ASSUME NEW u \in User, PostNotify(r, u)
        PROVE  RowsTyped' /\ RequestTyped' /\ Locals' /\ ObjectTyped' /\ Sockets'
    <2>1. RowsTyped'
      BY <1>0, <1>6 DEF PostNotify, TypeOK, RowsTyped
    <2> QED
      BY <1>0, <1>6, <2>1, SameRequest, SameObject DEF PostNotify
  <1>7. CASE PostAnswer(r)
    BY <1>0, <1>7, AnswerTyped, SameRows, SameObject DEF PostAnswer
  <1>8. ASSUME NEW u \in User, NEW m \in DOMAIN messages, DeleteCheck(r, u, m)
        PROVE  RowsTyped' /\ RequestTyped' /\ Locals' /\ ObjectTyped' /\ Sockets'
    <2>1. m \in Nat
      BY <1>0 DEF TypeOK
    <2>2. RequestTyped' /\ Locals'
      BY <1>0, <1>8, <2>1, StartTyped DEF DeleteCheck, Step
    <2> QED
      BY <1>0, <1>8, <2>2, SameRows, SameObject DEF DeleteCheck
  <1>9. CASE DeleteUpdate(r)
    <2>1. RequestTyped' /\ Locals'
      BY <1>0, <1>9, ContinueTyped DEF DeleteUpdate, Step
    <2>2. messages' \in Seq(Message)
      <3>1. ASSUME request[r].msg \in DOMAIN messages
            PROVE  messages[request[r].msg] \in Message
        BY <1>0, <3>1 DEF TypeOK
      <3>2. ASSUME request[r].msg \in DOMAIN messages
            PROVE  [messages[request[r].msg] EXCEPT !.deleted = TRUE] \in Message
        BY <3>1, <3>2 DEF Message
      <3>3. CASE request[r].msg \in DOMAIN messages
        <4> DEFINE new == [messages[request[r].msg] EXCEPT !.deleted = TRUE]
        <4>1. messages' = [messages EXCEPT ![request[r].msg] = new]
          BY <1>9 DEF DeleteUpdate
        <4>2. new \in Message
          BY <3>2, <3>3
        <4> HIDE DEF new
        <4> QED
          BY <3>3, <4>1, <4>2 DEF TypeOK
      <3>4. CASE request[r].msg \notin DOMAIN messages
        <4>1. messages' = messages
          BY <1>9, <3>4 DEF DeleteUpdate, TypeOK
        <4> QED
          BY <4>1 DEF TypeOK
      <3> QED
        BY <3>3, <3>4
    <2>3. RowsTyped'
      BY <1>9, <2>2 DEF DeleteUpdate, TypeOK, RowsTyped
    <2> QED
      BY <1>0, <1>9, <2>1, <2>3, SameObject DEF DeleteUpdate
  <1>10. CASE DeleteBroadcast(r)
    <2>1. <<MessageDeleted(request[r].msg)>> \in Seq(Payload)
      BY <1>0, PayloadTypes
    <2> QED
      BY <1>0, <1>10, <2>1, CallSockets, AnswerTyped, SameRows DEF DeleteBroadcast
  <1>11. ASSUME NEW u \in User, NEW st \in Status, StatusCheck(r, u, st)
         PROVE  RowsTyped' /\ RequestTyped' /\ Locals' /\ ObjectTyped' /\ Sockets'
    <2>1. RequestTyped' /\ Locals'
      BY <1>0, <1>11, StartTyped DEF StatusCheck, Step
    <2> QED
      BY <1>0, <1>11, <2>1, SameRows, SameObject DEF StatusCheck
  <1>12. CASE StatusUpdate(r)
    <2>1. RequestTyped' /\ Locals'
      BY <1>0, <1>12, ContinueTyped DEF StatusUpdate, Step
    <2>2. RowsTyped'
      BY <1>0, <1>12 DEF StatusUpdate, TypeOK, RowsTyped, Locals
    <2> QED
      BY <1>0, <1>12, <2>1, <2>2, SameObject DEF StatusUpdate
  <1>13. CASE StatusBroadcast(r)
    BY <1>0, <1>13, CallSockets, AnswerTyped, SameRows DEF StatusBroadcast
  <1>14. ASSUME NEW u \in User, ReadCheck(r, u)
         PROVE  RowsTyped' /\ RequestTyped' /\ Locals' /\ ObjectTyped' /\ Sockets'
    <2>1. RequestTyped' /\ Locals'
      BY <1>0, <1>14, StartTyped DEF ReadCheck, Step
    <2> QED
      BY <1>0, <1>14, <2>1, SameRows, SameObject DEF ReadCheck
  <1>15. CASE ReadUpsert(r)
    <2>1. RequestTyped' /\ Locals'
      BY <1>0, <1>15, ContinueTyped DEF ReadUpsert, Step
    <2>2. RowsTyped'
      BY <1>0, <1>15 DEF ReadUpsert, TypeOK, RowsTyped
    <2> QED
      BY <1>0, <1>15, <2>1, <2>2, SameObject DEF ReadUpsert
  <1>16. CASE ReadBroadcast(r)
    BY <1>0, <1>16, CallSockets, AnswerTyped, SameRows DEF ReadBroadcast
  <1>17. ASSUME NEW u \in User, Unassign(r, u) \/ Assign(r, u)
         PROVE  RowsTyped' /\ RequestTyped' /\ Locals' /\ ObjectTyped' /\ Sockets'
    <2>1. PICK step \in {"evict", "welcome", "answer"} : Start(r, u, "text", 0, step)
      BY <1>17 DEF Unassign, Assign
    <2>2. RequestTyped' /\ Locals'
      BY <1>0, <2>1, StartTyped DEF Step
    <2>3. RowsTyped'
      BY <1>17 DEF Unassign, Assign, TypeOK, RowsTyped
    <2>4. UNCHANGED object
      BY <1>17 DEF Unassign, Assign
    <2> QED
      BY <1>0, <2>2, <2>3, <2>4, SameObject
  <1>18. CASE Evict(r)
    <2>1. RequestTyped' /\ Locals' /\ RowsTyped'
      BY <1>0, <1>18, AnswerTyped, SameRows DEF Evict
    <2> DEFINE removed == Owned(request[r].user)
    <2>2. removed \subseteq sessions
      BY DEF Owned
    <2>3. CASE UNCHANGED object
      BY <1>0, <2>1, <2>3, SameObject
    <2>4. ASSUME NEW reached \in Reach(sessions \ removed, stale),
                 sessions' = reached, stale' = {},
                 wire' = [s \in Socket |-> IF s \in removed
                                           THEN Append(wire[s], AccessRevoked) ELSE wire[s]],
                 UNCHANGED <<conn, gone, alarm, replays>>
          PROVE  ObjectTyped' /\ Sockets'
      <3>1. reached \subseteq sessions
        BY <2>4 DEF Reach
      <3>2. \A s \in Socket : Append(wire[s], AccessRevoked) \in Seq(Payload)
        BY PayloadTypes DEF TypeOK
      <3>3. wire' \in [Socket -> Seq(Payload)]
        BY <2>4, <3>2 DEF TypeOK
      <3>4. ObjectTyped'
        BY <2>4, <3>1, <3>3 DEF TypeOK, ObjectTyped
      <3>5. Sockets'
        BY <2>2, <2>4, <3>1 DEF Sockets
      <3> QED
        BY <3>4, <3>5
    <2> QED
      BY <1>18, <2>1, <2>3, <2>4 DEF Evict
  <1>19. CASE Welcome(r)
    BY <1>0, <1>19, CallSockets, AnswerTyped, SameRows DEF Welcome
  <1>20. CASE RequestLost(r)
    BY <1>0, <1>20, AnswerTyped, SameRows, SameObject DEF RequestLost
  <1> QED
    BY <1>1, <1>2, <1>3, <1>4, <1>5, <1>6, <1>7, <1>8, <1>9, <1>10, <1>11, <1>12,
       <1>13, <1>14, <1>15, <1>16, <1>17, <1>18, <1>19, <1>20
       DEF Rest, Post, Delete, ChangeStatus, MarkRead, ChangeMembers

(* The Durable Object and the browsers.                                    *)
LEMMA ConnTyped ==
  ASSUME TypeOK, NEW s \in Socket, NEW c \in Upgrade, conn' = [conn EXCEPT ![s] = c]
  PROVE  /\ conn' \in [Socket -> Upgrade]
         /\ \A q \in Socket : conn'[q] = IF q = s THEN c ELSE conn[q]
  BY DEF TypeOK

LEMMA ObjectStep == ASSUME IInv, Objects \/ Browser PROVE IInv'
  <1> USE DEF IInv
  <1>a. SUFFICES ASSUME UNCHANGED <<rows, request>>
        PROVE  ObjectTyped' /\ Sockets'
    <2>1. UNCHANGED <<rows, request>>
      BY DEF Objects, Browser, Admit, Register, Quiet, CloseEvent, ReplaySelect, ReplaySend,
             Alarm, Restart, Connect, Sync, Frame, FrameRefused, Ping, Leave
    <2> QED
      BY <1>a, <2>1, SameRows, SameRequest, TypePartsNext
  <1>b. TypeOK /\ Sockets
    OBVIOUS
  <1>1. ASSUME NEW s \in Socket, Admit(s) PROVE ObjectTyped' /\ Sockets'
    <2>1. PICK step \in {"admitted", "refused"} : conn' = [conn EXCEPT ![s].step = step]
      BY <1>1 DEF Admit
    <2> DEFINE c == [conn[s] EXCEPT !.step = step]
    <2>2. c \in Upgrade /\ c.user = conn[s].user
      BY DEF TypeOK, Upgrade
    <2>3. conn' = [conn EXCEPT ![s] = c]
      BY <2>1
    <2>4. conn[s].step = "checked"
      BY <1>1 DEF Admit
    <2> HIDE DEF c
    <2>5. /\ conn' \in [Socket -> Upgrade]
          /\ \A q \in Socket : conn'[q] = IF q = s THEN c ELSE conn[q]
      BY <1>b, <2>2, <2>3, ConnTyped
    <2>6. ObjectTyped'
      BY <1>1, <2>5 DEF Admit, TypeOK, ObjectTyped
    <2>7. Sockets'
      BY <1>1, <2>2, <2>4, <2>5 DEF Admit, Sockets, Accepted
    <2> QED
      BY <2>6, <2>7
  <1>2. ASSUME NEW s \in Socket, Register(s) PROVE ObjectTyped' /\ Sockets'
    <2> DEFINE c == [conn[s] EXCEPT !.step = "open"]
    <2>1. c \in Upgrade /\ c.user = conn[s].user /\ c.step = "open"
      BY DEF TypeOK, Upgrade
    <2>2. conn' = [conn EXCEPT ![s] = c]
      BY <1>2 DEF Register
    <2>3. conn[s].step = "admitted" /\ conn[s].after \in Nat
      BY <1>2 DEF Register, TypeOK, Upgrade
    <2> HIDE DEF c
    <2>4. /\ conn' \in [Socket -> Upgrade]
          /\ \A q \in Socket : conn'[q] = IF q = s THEN c ELSE conn[q]
      BY <1>b, <2>1, <2>2, ConnTyped
    <2>5. sessions' \subseteq sessions \cup {s} /\ stale' = {}
      BY <1>2 DEF Register, Reach
    <2>6. replays' \subseteq Replay
      <3> DEFINE p == [socket |-> s, step |-> "select", after |-> conn[s].after,
                       admin |-> conn[s].user \in Admin, rows |-> <<>>]
      <3>1. (conn[s].user \in Admin) \in BOOLEAN /\ <<>> \in Seq(Payload)
        OBVIOUS
      <3>2. p \in Replay
        BY <2>3, <3>1 DEF Replay
      <3>3. replays' = replays \/ replays' = replays \cup {p}
        BY <1>2 DEF Register
      <3> QED
        BY <3>2, <3>3 DEF TypeOK
    <2>7. ObjectTyped'
      BY <1>2, <2>4, <2>5, <2>6 DEF Register, TypeOK, ObjectTyped
    <2>8. Sockets'
      BY <1>2, <2>1, <2>3, <2>4, <2>5 DEF Register, Sockets, Accepted
    <2> QED
      BY <2>7, <2>8
  <1>3. ASSUME NEW s \in Socket, Quiet(s) \/ Ping(s) \/ Leave(s) PROVE ObjectTyped' /\ Sockets'
    <2>1. ObjectTyped'
      BY <1>3 DEF Quiet, Ping, Leave, TypeOK, ObjectTyped
    <2>2. Sockets'
      BY <1>3 DEF Quiet, Ping, Leave, Sockets
    <2> QED
      BY <2>1, <2>2
  <1>4. ASSUME NEW s \in Socket, CloseEvent(s) \/ Frame(s) PROVE ObjectTyped' /\ Sockets'
    <2>1. sessions' \subseteq sessions /\ stale' = {}
      BY <1>4 DEF CloseEvent, Frame, Reach
    <2>2. UNCHANGED <<conn, gone, alarm, wire, replays>>
      BY <1>4 DEF CloseEvent, Frame
    <2>3. ObjectTyped'
      BY <2>1, <2>2 DEF TypeOK, ObjectTyped
    <2>4. Sockets'
      BY <2>1, <2>2 DEF Sockets
    <2> QED
      BY <2>3, <2>4
  <1>5. ASSUME NEW p \in replays, ReplaySelect(p) PROVE ObjectTyped' /\ Sockets'
    <2>1. p \in Replay
      BY DEF TypeOK
    <2> DEFINE q == [p EXCEPT !.step = "send", !.rows = Missed(p)]
    <2>2. Missed(p) \in Seq(Payload)
      <3> DEFINE least == IF ReplayLimit < Len(messages) - p.after
                          THEN ReplayLimit ELSE Len(messages) - p.after
      <3> DEFINE row(i) == NewMessage(p.after + i, p.admin \/ ~messages[p.after + i].deleted, FALSE)
      <3>1. Missed(p) = [i \in 1..least |-> row(i)]
        BY DEF Missed
      <3>2. p.after \in Nat /\ least \in Int
        BY <2>1, BoundsAssumption DEF Replay, TypeOK
      <3>3. ASSUME NEW i \in 1..least PROVE row(i) \in Payload
        <4>1. p.after + i \in Nat
          BY <3>2
        <4>2. (p.admin \/ ~messages[p.after + i].deleted) \in BOOLEAN
          OBVIOUS
        <4> QED
          BY <4>1, <4>2, PayloadTypes
      <3> HIDE DEF row, least
      <3>4. CASE least \in Nat
        BY <3>1, <3>3, <3>4
      <3>5. CASE least \notin Nat
        <4>1. 1..least = 1..0
          BY <3>2, <3>5
        <4>2. Missed(p) = [i \in 1..0 |-> row(i)]
          BY <3>1, <4>1
        <4>3. \A i \in 1..0 : row(i) \in Payload
          OBVIOUS
        <4>4. [i \in 1..0 |-> row(i)] \in Seq(Payload)
          BY <4>3
        <4> QED
          BY <4>2, <4>4
      <3> QED
        BY <3>4, <3>5
    <2>3. q \in Replay
      BY <2>1, <2>2 DEF Replay
    <2>4. replays' \subseteq replays \cup {q}
      BY <1>5 DEF ReplaySelect
    <2> HIDE DEF q
    <2>5. ObjectTyped'
      BY <1>5, <2>3, <2>4 DEF ReplaySelect, TypeOK, ObjectTyped
    <2>6. Sockets'
      BY <1>5 DEF ReplaySelect, Sockets
    <2> QED
      BY <2>5, <2>6
  <1>6. ASSUME NEW p \in replays, ReplaySend(p) PROVE ObjectTyped' /\ Sockets'
    <2>1. p \in Replay /\ p.socket \in Socket /\ p.rows \in Seq(Payload)
      BY DEF TypeOK, Replay
    <2>2. CASE p.socket \in sessions /\ wire' = [wire EXCEPT ![p.socket] = @ \o p.rows]
      <3>1. wire[p.socket] \o p.rows \in Seq(Payload)
        BY <2>1 DEF TypeOK
      <3>2. wire' \in [Socket -> Seq(Payload)]
        BY <2>2, <3>1 DEF TypeOK
      <3>3. ObjectTyped'
        BY <1>6, <3>2 DEF ReplaySend, TypeOK, ObjectTyped
      <3>4. \A s \in Socket : wire'[s] # <<>> => wire[s] # <<>> \/ s \in sessions
        BY <2>2 DEF TypeOK
      <3>5. Sockets'
        BY <1>6, <3>4 DEF ReplaySend, Sockets
      <3> QED
        BY <3>3, <3>5
    <2>3. CASE wire' = wire
      <3>1. ObjectTyped'
        BY <1>6, <2>3 DEF ReplaySend, TypeOK, ObjectTyped
      <3>2. Sockets'
        BY <1>6, <2>3 DEF ReplaySend, Sockets
      <3> QED
        BY <3>1, <3>2
    <2> QED
      BY <1>6, <2>2, <2>3 DEF ReplaySend
  <1>7. CASE Alarm
    <2>1. sessions' \subseteq sessions
      BY <1>7 DEF Alarm, Reach
    <2>2. ObjectTyped'
      BY <1>7, <2>1 DEF Alarm, TypeOK, ObjectTyped
    <2>3. Sockets'
      BY <1>7, <2>1 DEF Alarm, Sockets
    <2> QED
      BY <2>2, <2>3
  <1>8. CASE Restart
    <2>1. \A s \in Socket : [conn[s] EXCEPT !.step = "refused"] \in Upgrade
      BY DEF TypeOK, Upgrade
    <2>2. conn' \in [Socket -> Upgrade]
      BY <1>8, <2>1 DEF Restart, TypeOK
    <2>3. ObjectTyped'
      BY <1>8, <2>2 DEF Restart, TypeOK, ObjectTyped
    <2>4. \A s \in Socket : /\ conn[s].step \in Accepted \cup {"free", "refused"} => conn'[s] = conn[s]
                            /\ conn'[s].user = conn[s].user
      BY <1>8, <2>1 DEF Restart, Accepted, TypeOK, Upgrade
    <2>5. Sockets'
      BY <1>8, <2>4 DEF Restart, Sockets, Accepted
    <2> QED
      BY <2>3, <2>5
  <1>9. ASSUME NEW s \in Socket, NEW u \in User, NEW after \in 0..Len(messages),
               Connect(s, u, after)
        PROVE  ObjectTyped' /\ Sockets'
    <2> DEFINE c == [step |-> "checked", user |-> u, after |-> after]
    <2>1. c \in Upgrade /\ c.user = u /\ c.step = "checked"
      BY DEF Upgrade, TypeOK
    <2>2. conn' = [conn EXCEPT ![s] = c] /\ conn[s].step = "free"
      BY <1>9 DEF Connect
    <2> HIDE DEF c
    <2>3. /\ conn' \in [Socket -> Upgrade]
          /\ \A q \in Socket : conn'[q] = IF q = s THEN c ELSE conn[q]
      BY <1>b, <2>1, <2>2, ConnTyped
    <2>4. ObjectTyped'
      BY <1>9, <2>3 DEF Connect, TypeOK, ObjectTyped
    <2>5. Sockets'
      BY <1>9, <2>1, <2>2, <2>3 DEF Connect, Sockets, Accepted
    <2> QED
      BY <2>4, <2>5
  <1>10. ASSUME NEW s \in Socket, Sync(s) PROVE ObjectTyped' /\ Sockets'
    <2> DEFINE c == [conn[s] EXCEPT !.step = "synced"]
    <2>1. c \in Upgrade /\ c.user = conn[s].user /\ c.step = "synced"
      BY DEF TypeOK, Upgrade
    <2>2. conn' = [conn EXCEPT ![s] = c] /\ conn[s].step = "open" /\ conn[s].after \in Nat
      BY <1>10 DEF Sync, TypeOK, Upgrade
    <2> HIDE DEF c
    <2>3. /\ conn' \in [Socket -> Upgrade]
          /\ \A q \in Socket : conn'[q] = IF q = s THEN c ELSE conn[q]
      BY <1>b, <2>1, <2>2, ConnTyped
    <2>4. replays' \subseteq Replay
      <3> DEFINE p == [socket |-> s, step |-> "select", after |-> conn[s].after,
                       admin |-> FALSE, rows |-> <<>>]
      <3>1. p \in Replay
        BY <2>2 DEF Replay
      <3>2. replays' = replays \/ replays' = replays \cup {p}
        BY <1>10 DEF Sync
      <3> QED
        BY <3>1, <3>2 DEF TypeOK
    <2>5. ObjectTyped'
      BY <1>10, <2>3, <2>4 DEF Sync, TypeOK, ObjectTyped
    <2>6. Sockets'
      BY <1>10, <2>1, <2>2, <2>3 DEF Sync, Sockets, Accepted
    <2> QED
      BY <2>5, <2>6
  <1>11. ASSUME NEW s \in Socket, FrameRefused(s) PROVE ObjectTyped' /\ Sockets'
    <2>1. sessions' \subseteq sessions /\ stale' = {} /\ s \in sessions
      BY <1>11 DEF FrameRefused, Reach
    <2>2. Append(wire[s], AccessRevoked) \in Seq(Payload)
      BY PayloadTypes DEF TypeOK
    <2>3. wire' = [wire EXCEPT ![s] = Append(wire[s], AccessRevoked)]
      BY <1>11 DEF FrameRefused
    <2>4. ObjectTyped'
      BY <1>11, <2>1, <2>2, <2>3 DEF FrameRefused, TypeOK, ObjectTyped
    <2>5. \A q \in Socket : wire'[q] # <<>> => wire[q] # <<>> \/ q \in sessions
      BY <2>1, <2>3 DEF TypeOK
    <2>6. Sockets'
      BY <1>11, <2>1, <2>5 DEF FrameRefused, Sockets
    <2> QED
      BY <2>4, <2>6
  <1> QED
    BY <1>1, <1>2, <1>3, <1>4, <1>5, <1>6, <1>7, <1>8, <1>9, <1>10, <1>11
       DEF Objects, Browser

LEMMA IInvStep == IInv /\ [Next]_vars => IInv'
  <1> SUFFICES ASSUME IInv, [Next]_vars PROVE IInv'
    OBVIOUS
  <1>1. CASE UNCHANGED vars
    <2>1. UNCHANGED <<rows, request, object>>
      BY <1>1 DEF vars
    <2> QED
      BY <2>1, SameRows, SameRequest, SameObject, TypePartsNext DEF IInv
  <1> QED
    BY <1>1, RestStep, ObjectStep DEF Next

(* Every variable keeps its type: in particular no handler works for an    *)
(* unknown user, and the Durable Object's map holds sockets only.          *)
THEOREM TypeCorrect == Spec => []TypeOK
  <1>1. Spec => []IInv
    BY InitIInv, IInvStep, PTL DEF Spec
  <1>2. IInv => TypeOK
    BY DEF IInv
  <1> QED
    BY <1>1, <1>2, PTL

-----------------------------------------------------------------------------

(* SweepArmed is inductive with the types: only Register adds a session,   *)
(* and it schedules the alarm unless the storage fails.                    *)
LEMMA CallShrinks ==
  ASSUME NEW payloads, CallBroadcast(payloads)
  PROVE  sessions' \subseteq sessions /\ alarm' = alarm
  BY DEF CallBroadcast, Broadcast, Reach, object

LEMMA RestShrinks ==
  ASSUME NEW r \in Request, Rest(r)
  PROVE  sessions' \subseteq sessions /\ alarm' = alarm
  <1>1. ASSUME Post(r) PROVE sessions' \subseteq sessions /\ alarm' = alarm
    <2>1. CASE PostBroadcast(r)
      BY <2>1 DEF PostBroadcast, Broadcast, Reach, object
    <2>2. CASE ~PostBroadcast(r)
      BY <1>1, <2>2 DEF Post, PostCheck, PostInsert, PostCursor, PostResolve, PostNotify,
                        PostAnswer, object
    <2> QED
      BY <2>1, <2>2
  <1>2. ASSUME Delete(r) \/ ChangeStatus(r) \/ MarkRead(r)
        PROVE  sessions' \subseteq sessions /\ alarm' = alarm
    BY <1>2, CallShrinks
       DEF Delete, DeleteCheck, DeleteUpdate, DeleteBroadcast,
           ChangeStatus, StatusCheck, StatusUpdate, StatusBroadcast,
           MarkRead, ReadCheck, ReadUpsert, ReadBroadcast, object
  <1>3. ASSUME ChangeMembers(r) PROVE sessions' \subseteq sessions /\ alarm' = alarm
    <2>1. CASE Evict(r)
      BY <2>1 DEF Evict, Reach, object
    <2>2. CASE ~Evict(r)
      BY <1>3, <2>2, CallShrinks DEF ChangeMembers, Unassign, Assign, Welcome, object
    <2> QED
      BY <2>1, <2>2
  <1> QED
    BY <1>1, <1>2, <1>3 DEF Rest, RequestLost, object

LEMMA SweepArmedStep ==
  ASSUME "storage" \notin Fault, SweepArmed, [Next]_vars
  PROVE  SweepArmed'
  <1>1. ASSUME NEW r \in Request, Rest(r) PROVE SweepArmed'
    BY <1>1, RestShrinks DEF SweepArmed
  <1>2. CASE Objects
    BY <1>2 DEF Objects, Admit, Register, Quiet, CloseEvent, ReplaySelect, ReplaySend,
                Alarm, Restart, Reach, SweepArmed
  <1>3. CASE Browser
    BY <1>3 DEF Browser, Connect, Sync, Frame, FrameRefused, Ping, Leave, Reach, SweepArmed
  <1>4. CASE UNCHANGED vars
    BY <1>4 DEF vars, object, SweepArmed
  <1> QED
    BY <1>1, <1>2, <1>3, <1>4 DEF Next

(* As long as the storage works, a room with sockets has its alarm         *)
(* scheduled (ChatRoomDO.ts:127-133, 158-166).                             *)
THEOREM SweepArmedHolds == ASSUME "storage" \notin Fault PROVE Spec => []SweepArmed
  <1>1. Init => SweepArmed
    BY DEF Init, SweepArmed
  <1> QED
    BY <1>1, SweepArmedStep, PTL DEF Spec

-----------------------------------------------------------------------------

(* What any step does to the wires: a socket of the map gets payloads that *)
(* are no access_revoked and stays, or access_revoked and leaves the map;  *)
(* a socket that enters the map carried nothing yet.                       *)
Plain(x) == \A i \in DOMAIN x : x[i].type # "access_revoked"

Extended(s) ==
  /\ s \in sessions'
  /\ \E x \in Seq(Payload) : wire'[s] = wire[s] \o x /\ Plain(x)
Revoked(s) == wire'[s] = Append(wire[s], AccessRevoked) /\ s \notin sessions'

WireStep ==
  /\ \A s \in Socket : \/ wire'[s] = wire[s]
                       \/ s \in sessions /\ (Extended(s) \/ Revoked(s))
  /\ \A s \in sessions' : s \in sessions \/ wire[s] = <<>>
  /\ \A s \in Socket : conn[s].step \in Accepted => conn'[s].user = conn[s].user

(* A replay carries messages only.                                         *)
ReplaysPlain == \A p \in replays : Plain(p.rows)

LEMMA NewMessagePlain ==
  ASSUME NEW m \in Nat PROVE Plain(<<NewMessage(m, TRUE, TRUE)>>)
  BY DEF Plain, NewMessage

LEMMA DeletedPlain ==
  ASSUME NEW m \in Nat PROVE Plain(<<MessageDeleted(m)>>)
  BY DEF Plain, MessageDeleted

LEMMA BroadcastWires ==
  ASSUME TypeOK, NEW payloads \in Seq(Payload), Plain(payloads),
         Broadcast(sessions, payloads)
  PROVE  WireStep /\ replays' = replays
  <1>1. PICK reached \in Reach(sessions, stale) :
          /\ sessions' = reached
          /\ wire' = [s \in Socket |-> IF s \in reached THEN wire[s] \o payloads ELSE wire[s]]
          /\ UNCHANGED <<conn, replays>>
    BY DEF Broadcast
  <1>2. reached \subseteq sessions /\ sessions \subseteq Socket
    BY DEF Reach, TypeOK
  <1>3. ASSUME NEW s \in Socket
        PROVE  wire'[s] = wire[s] \/ (s \in sessions /\ Extended(s))
    BY <1>1, <1>2 DEF Extended
  <1> QED
    BY <1>1, <1>2, <1>3 DEF WireStep

LEMMA CallWires ==
  ASSUME TypeOK, NEW payloads \in Seq(Payload), Plain(payloads), CallBroadcast(payloads)
  PROVE  WireStep /\ replays' = replays
  <1>1. CASE UNCHANGED object
    BY <1>1 DEF object, WireStep
  <1> QED
    BY <1>1, BroadcastWires DEF CallBroadcast

LEMMA RestWires ==
  ASSUME IInv, NEW r \in Request, Rest(r)
  PROVE  WireStep /\ replays' = replays
  <1>0. TypeOK /\ request[r].msg \in Nat
    BY DEF IInv, TypeOK, Local
  <1>a. <<>> \in Seq(Payload) /\ Plain(<<>>)
    BY DEF Plain
  <1>b. ASSUME UNCHANGED object PROVE WireStep /\ replays' = replays
    BY <1>b DEF object, WireStep
  <1>1. ASSUME Post(r) PROVE WireStep /\ replays' = replays
    <2>1. CASE PostBroadcast(r)
      <3> DEFINE x == <<NewMessage(request[r].msg, TRUE, TRUE)>>
      <3>1. x \in Seq(Payload) /\ Plain(x)
        BY <1>0, OnePayload, NewMessagePlain
      <3>2. Broadcast(sessions, x) \/ UNCHANGED object
        BY <2>1 DEF PostBroadcast
      <3> HIDE DEF x
      <3> QED
        BY <1>0, <1>b, <3>1, <3>2, BroadcastWires
    <2>2. CASE ~PostBroadcast(r)
      <3>1. UNCHANGED object
        BY <1>1, <2>2 DEF Post, PostCheck, PostInsert, PostCursor, PostResolve, PostNotify,
                          PostAnswer
      <3> QED
        BY <1>b, <3>1
    <2> QED
      BY <2>1, <2>2
  <1>2. ASSUME Delete(r) PROVE WireStep /\ replays' = replays
    <2>1. CASE DeleteBroadcast(r)
      <3> DEFINE x == <<MessageDeleted(request[r].msg)>>
      <3>1. x \in Seq(Payload)
        BY <1>0, PayloadTypes
      <3>2. Plain(x)
        BY <1>0, DeletedPlain
      <3>3. CallBroadcast(x)
        BY <2>1 DEF DeleteBroadcast
      <3> HIDE DEF x
      <3> QED
        BY <1>0, <3>1, <3>2, <3>3, CallWires
    <2>2. CASE ~DeleteBroadcast(r)
      <3>1. UNCHANGED object
        BY <1>2, <2>2 DEF Delete, DeleteCheck, DeleteUpdate
      <3> QED
        BY <1>b, <3>1
    <2> QED
      BY <2>1, <2>2
  <1>3. ASSUME ChangeStatus(r) \/ MarkRead(r) PROVE WireStep /\ replays' = replays
    <2>1. CallBroadcast(<<>>) \/ UNCHANGED object
      BY <1>3 DEF ChangeStatus, StatusCheck, StatusUpdate, StatusBroadcast,
                  MarkRead, ReadCheck, ReadUpsert, ReadBroadcast
    <2> QED
      BY <1>0, <1>a, <1>b, <2>1, CallWires
  <1>4. ASSUME ChangeMembers(r) PROVE WireStep /\ replays' = replays
    <2>1. CASE Evict(r)
      <3> DEFINE removed == Owned(request[r].user)
      <3>1. removed \subseteq sessions /\ sessions \subseteq Socket
        BY <1>0 DEF Owned, TypeOK
      <3>2. CASE UNCHANGED object
        BY <1>b, <3>2
      <3>3. ASSUME NEW reached \in Reach(sessions \ removed, stale),
                   sessions' = reached,
                   wire' = [s \in Socket |-> IF s \in removed
                                             THEN Append(wire[s], AccessRevoked) ELSE wire[s]],
                   UNCHANGED <<conn, gone, alarm, replays>>
            PROVE  WireStep /\ replays' = replays
        <4>1. reached \subseteq sessions \ removed
          BY DEF Reach
        <4>2. ASSUME NEW s \in Socket
              PROVE  wire'[s] = wire[s] \/ (s \in sessions /\ Revoked(s))
          BY <3>1, <3>3, <4>1 DEF Revoked
        <4> QED
          BY <3>3, <4>1, <4>2 DEF WireStep
      <3> QED
        BY <2>1, <3>2, <3>3 DEF Evict
    <2>2. CASE ~Evict(r)
      <3>1. CallBroadcast(<<>>) \/ UNCHANGED object
        BY <1>4, <2>2 DEF ChangeMembers, Unassign, Assign, Welcome
      <3> QED
        BY <1>0, <1>a, <1>b, <3>1, CallWires
    <2> QED
      BY <2>1, <2>2
  <1> QED
    BY <1>1, <1>2, <1>3, <1>4, <1>b DEF Rest, RequestLost

LEMMA MissedPlain ==
  ASSUME TypeOK, NEW p \in Replay PROVE Plain(Missed(p))
  BY DEF Plain, Missed, NewMessage

LEMMA ObjectWires ==
  ASSUME IInv, ReplaysPlain, Objects \/ Browser
  PROVE  WireStep /\ ReplaysPlain'
  <1>0. TypeOK /\ Sockets /\ sessions \subseteq Socket /\ Plain(<<>>)
    BY DEF IInv, TypeOK, Plain
  <1>1. ASSUME NEW s \in Socket,
               Admit(s) \/ Quiet(s) \/ Ping(s) \/ Leave(s) \/ CloseEvent(s) \/ Frame(s)
        PROVE  WireStep /\ ReplaysPlain'
    <2>1. wire' = wire /\ replays' = replays /\ sessions' \subseteq sessions
      BY <1>1 DEF Admit, Quiet, Ping, Leave, CloseEvent, Frame, Reach
    <2>2. \A q \in Socket : conn[q].step \in Accepted => conn'[q] = conn[q]
      BY <1>0, <1>1 DEF Admit, Quiet, Ping, Leave, CloseEvent, Frame, TypeOK, Accepted
    <2> QED
      BY <2>1, <2>2 DEF WireStep, ReplaysPlain
  <1>2. ASSUME NEW s \in Socket, Register(s) PROVE WireStep /\ ReplaysPlain'
    <2>1. wire' = wire /\ sessions' \subseteq sessions \cup {s} /\ conn[s].step = "admitted"
      BY <1>2 DEF Register, Reach
    <2>2. wire[s] = <<>>
      BY <1>0, <2>1 DEF Sockets, Accepted
    <2>3. \A q \in Socket : conn[q].step \in Accepted => conn'[q] = conn[q]
      BY <1>0, <1>2 DEF Register, TypeOK, Accepted
    <2>4. \A p \in replays' : p \in replays \/ p.rows = <<>>
      BY <1>2 DEF Register
    <2> QED
      BY <1>0, <2>1, <2>2, <2>3, <2>4 DEF WireStep, ReplaysPlain
  <1>3. ASSUME NEW p \in replays, ReplaySelect(p) PROVE WireStep /\ ReplaysPlain'
    <2>1. UNCHANGED <<wire, sessions, conn>>
      BY <1>3 DEF ReplaySelect
    <2>2. p \in Replay
      BY <1>0 DEF TypeOK
    <2> DEFINE q == [p EXCEPT !.step = "send", !.rows = Missed(p)]
    <2>3. q.rows = Missed(p)
      BY <2>2 DEF Replay
    <2>4. replays' \subseteq replays \cup {q}
      BY <1>3 DEF ReplaySelect
    <2> HIDE DEF q
    <2> QED
      BY <1>0, <2>1, <2>2, <2>3, <2>4, MissedPlain DEF WireStep, ReplaysPlain
  <1>4. ASSUME NEW p \in replays, ReplaySend(p) PROVE WireStep /\ ReplaysPlain'
    <2>1. p.socket \in Socket /\ p.rows \in Seq(Payload) /\ Plain(p.rows)
      BY <1>0 DEF TypeOK, Replay, ReplaysPlain
    <2>2. ASSUME NEW s \in Socket PROVE wire'[s] = wire[s] \/ (s \in sessions /\ Extended(s))
      BY <1>0, <1>4, <2>1 DEF ReplaySend, Extended, TypeOK
    <2> QED
      BY <1>4, <2>2 DEF ReplaySend, WireStep, ReplaysPlain
  <1>5. CASE Alarm
    BY <1>5 DEF Alarm, Reach, WireStep, ReplaysPlain
  <1>6. CASE Restart
    <2>1. \A q \in Socket : conn[q].step \in Accepted => conn'[q] = conn[q]
      BY <1>6 DEF Restart, Accepted
    <2> QED
      BY <1>6, <2>1 DEF Restart, WireStep, ReplaysPlain
  <1>7. ASSUME NEW s \in Socket, NEW u \in User, NEW after \in 0..Len(messages),
               Connect(s, u, after)
        PROVE  WireStep /\ ReplaysPlain'
    <2>1. \A q \in Socket : conn[q].step \in Accepted => conn'[q] = conn[q]
      BY <1>0, <1>7 DEF Connect, Accepted, TypeOK
    <2> QED
      BY <1>7, <2>1 DEF Connect, WireStep, ReplaysPlain
  <1>8. ASSUME NEW s \in Socket, Sync(s) PROVE WireStep /\ ReplaysPlain'
    <2>1. \A q \in Socket : conn'[q].user = conn[q].user
      BY <1>0, <1>8 DEF Sync, TypeOK, Upgrade
    <2>2. \A p \in replays' : p \in replays \/ p.rows = <<>>
      BY <1>8 DEF Sync
    <2> QED
      BY <1>0, <1>8, <2>1, <2>2 DEF Sync, WireStep, ReplaysPlain
  <1>9. ASSUME NEW s \in Socket, FrameRefused(s) PROVE WireStep /\ ReplaysPlain'
    <2>1. sessions' \subseteq sessions \ {s} /\ s \in sessions
      BY <1>9 DEF FrameRefused, Reach
    <2>2. ASSUME NEW q \in Socket PROVE wire'[q] = wire[q] \/ (q \in sessions /\ Revoked(q))
      BY <1>0, <1>9, <2>1 DEF FrameRefused, Revoked, TypeOK
    <2> QED
      BY <1>9, <2>1, <2>2 DEF FrameRefused, WireStep, ReplaysPlain
  <1> QED
    BY <1>1, <1>2, <1>3, <1>4, <1>5, <1>6, <1>7, <1>8, <1>9 DEF Objects, Browser

LEMMA NextWires ==
  ASSUME IInv, ReplaysPlain, [Next]_vars
  PROVE  WireStep /\ ReplaysPlain'
  <1>1. CASE UNCHANGED vars
    BY <1>1 DEF vars, object, WireStep, ReplaysPlain
  <1> QED
    BY <1>1, RestWires, ObjectWires DEF Next, ReplaysPlain

LEMMA RevocationStep ==
  ASSUME IInv, NothingAfterRevocation, WireStep
  PROVE  NothingAfterRevocation'
  <1> SUFFICES ASSUME NEW s \in Socket, NEW i \in DOMAIN wire'[s],
                      wire'[s][i].type = "access_revoked"
               PROVE  i = Len(wire'[s]) /\ s \notin sessions'
    BY DEF NothingAfterRevocation
  <1>0. wire[s] \in Seq(Payload) /\ Len(wire[s]) \in Nat
    BY DEF IInv, TypeOK
  <1>1. CASE wire'[s] = wire[s]
    <2>1. i = Len(wire[s]) /\ s \notin sessions
      BY <1>1 DEF NothingAfterRevocation
    <2>2. wire[s] # <<>>
      BY <1>0, <1>1
    <2> QED
      BY <1>1, <2>1, <2>2 DEF WireStep
  <1>2. CASE s \in sessions /\ Extended(s)
    <2>1. PICK x \in Seq(Payload) : wire'[s] = wire[s] \o x /\ Plain(x)
      BY <1>2 DEF Extended
    <2>2. CASE i \in DOMAIN wire[s]
      BY <1>0, <1>2, <2>1, <2>2 DEF NothingAfterRevocation
    <2>3. CASE i \notin DOMAIN wire[s]
      <3>1. i - Len(wire[s]) \in DOMAIN x /\ wire'[s][i] = x[i - Len(wire[s])]
        BY <1>0, <2>1, <2>3
      <3> QED
        BY <2>1, <3>1 DEF Plain
    <2> QED
      BY <2>2, <2>3
  <1>3. CASE s \in sessions /\ Revoked(s)
    <2>1. i \notin DOMAIN wire[s]
      BY <1>0, <1>3 DEF NothingAfterRevocation, Revoked
    <2> QED
      BY <1>0, <1>3, <2>1 DEF Revoked
  <1> QED
    BY <1>1, <1>2, <1>3 DEF WireStep

(* Whatever fails, access_revoked is the last that a socket carries        *)
(* (ChatRoomDO.ts:42-59, 191-205).                                         *)
THEOREM NothingAfterRevocationHolds == Spec => []NothingAfterRevocation
  <1> DEFINE Inv == IInv /\ ReplaysPlain /\ NothingAfterRevocation
  <1>1. Init => Inv
    BY InitIInv DEF Init, ReplaysPlain, NothingAfterRevocation
  <1>2. Inv /\ [Next]_vars => Inv'
    BY IInvStep, NextWires, RevocationStep
  <1> QED
    BY <1>1, <1>2, PTL DEF Spec

-----------------------------------------------------------------------------

(* A handler has no onlineUserIds before its broadcast answered.           *)
NoneYet ==
  \A r \in Request :
    request[r].step \notin {"resolve", "notify", "answer"} => request[r].online = {}

(* What was sent to a user stays sent: wires only grow.                    *)
LEMMA SentStays ==
  ASSUME IInv, WireStep, NEW u \in User, NEW m \in Nat, Sent(u, m)
  PROVE  Sent(u, m)'
  <1>1. PICK s \in Socket : /\ conn[s].user = u
                            /\ \E i \in DOMAIN wire[s] : wire[s][i].type = "new_message"
                                                      /\ wire[s][i].msg = m
    BY DEF Sent
  <1>2. PICK i \in DOMAIN wire[s] : wire[s][i].type = "new_message" /\ wire[s][i].msg = m
    BY <1>1
  <1>3. wire[s] \in Seq(Payload) /\ wire[s] # <<>>
    BY <1>2 DEF IInv, TypeOK
  <1>4. conn'[s].user = u
    BY <1>1, <1>3 DEF IInv, Sockets, WireStep
  <1>5. i \in DOMAIN wire'[s] /\ wire'[s][i] = wire[s][i]
    <2>1. CASE wire'[s] = wire[s]
      BY <2>1
    <2>2. CASE Extended(s)
      BY <1>3, <2>2 DEF Extended
    <2>3. CASE Revoked(s)
      BY <1>3, <2>3 DEF Revoked
    <2> QED
      BY <2>1, <2>2, <2>3 DEF WireStep
  <1> QED
    BY <1>2, <1>4, <1>5 DEF Sent

(* Only the answer of the broadcast brings users into onlineUserIds; they  *)
(* own sockets that the broadcast reached.                                 *)
LEMMA OnlineComesFromBroadcast ==
  ASSUME IInv, NoneYet, NEW r \in Request, Rest(r)
  PROVE  /\ \A q \in Request \ {r} : request'[q] = request[q]
         /\ request'[r].step \notin {"resolve", "notify", "answer"} => request'[r].online = {}
         /\ request'[r].step \in {"resolve", "notify"} =>
              /\ request'[r].msg = request[r].msg
              /\ \A u \in request'[r].online :
                   \/ request[r].step \in {"resolve", "notify"} /\ u \in request[r].online
                   \/ Sent(u, request[r].msg)'
  <1>0. TypeOK /\ request[r] \in Local /\ Idle.online = {} /\ Idle.step = "idle"
    BY DEF IInv, TypeOK, Idle
  <1>1. ASSUME NEW u, NEW arg, NEW m, NEW step,
               step \notin {"resolve", "notify"}, Start(r, u, arg, m, step)
        PROVE  /\ \A q \in Request \ {r} : request'[q] = request[q]
               /\ request'[r].online = {} /\ request'[r].step \notin {"resolve", "notify"}
    BY <1>0, <1>1 DEF Start, TypeOK
  <1>2. ASSUME NEW step, step \notin {"resolve", "notify"}, Continue(r, step)
        PROVE  /\ \A q \in Request \ {r} : request'[q] = request[q]
               /\ request'[r].online = request[r].online /\ request'[r].step = step
    BY <1>0, <1>2 DEF Continue, TypeOK, Local
  <1>3. ASSUME Answer(r)
        PROVE  /\ \A q \in Request \ {r} : request'[q] = request[q]
               /\ request'[r].online = {} /\ request'[r].step = "idle"
    BY <1>0, <1>3 DEF Answer, TypeOK
  <1>4. CASE PostInsert(r)
    <2> DEFINE next == AfterInsert(request[r].arg)
    <2> DEFINE new == [request[r] EXCEPT !.msg = Len(messages) + 1, !.step = next]
    <2>1. request' = [request EXCEPT ![r] = new]
      BY <1>4 DEF PostInsert
    <2>2. next \in {"post", "cursor"}
      BY DEF AfterInsert
    <2> HIDE DEF next
    <2>3. new.online = request[r].online /\ new.step \in {"post", "cursor"}
      BY <1>0, <2>2 DEF Local
    <2> HIDE DEF new
    <2>4. \A q \in Request : request'[q] = IF q = r THEN new ELSE request[q]
      BY <1>0, <2>1 DEF TypeOK
    <2>5. request[r].online = {}
      BY <1>4 DEF PostInsert, NoneYet
    <2> QED
      BY <2>3, <2>4, <2>5
  <1>5. CASE PostBroadcast(r)
    <2> DEFINE next == AfterBroadcast(request[r].arg)
    <2> DEFINE p == NewMessage(request[r].msg, TRUE, TRUE)
    <2>0. next \in {"resolve", "answer"}
      BY DEF AfterBroadcast
    <2> HIDE DEF next
    <2>1. request[r].step = "post" /\ request[r].online = {}
      BY <1>5 DEF PostBroadcast, NoneYet
    <2>2. CASE Continue(r, next)
      <3> DEFINE new == [request[r] EXCEPT !.step = next]
      <3>1. request' = [request EXCEPT ![r] = new]
        BY <2>2 DEF Continue
      <3>2. new.online = {} /\ new.msg = request[r].msg
        BY <1>0, <2>1 DEF Local
      <3> HIDE DEF new
      <3>3. \A q \in Request : request'[q] = IF q = r THEN new ELSE request[q]
        BY <1>0, <3>1 DEF TypeOK
      <3> QED
        BY <3>2, <3>3
    <2>3. CASE /\ Broadcast(sessions, <<p>>)
               /\ request' = [request EXCEPT ![r].online = UserOf(sessions'), ![r].step = next]
      <3> DEFINE new == [request[r] EXCEPT !.online = UserOf(sessions'), !.step = next]
      <3>1. request' = [request EXCEPT ![r] = new]
        BY <2>3
      <3>2. /\ new.online = UserOf(sessions')
            /\ new.msg = request[r].msg /\ new.step = next
        BY <1>0 DEF Local
      <3> HIDE DEF new
      <3>3. \A q \in Request : request'[q] = IF q = r THEN new ELSE request[q]
        BY <1>0, <3>1 DEF TypeOK
      <3>4. p.type = "new_message" /\ p.msg = request[r].msg
        BY DEF NewMessage
      <3> HIDE DEF p
      <3>5. PICK reached \in Reach(sessions, stale) :
              /\ sessions' = reached
              /\ wire' = [s \in Socket |-> IF s \in reached THEN wire[s] \o <<p>> ELSE wire[s]]
              /\ conn' = conn
        BY <2>3 DEF Broadcast
      <3>6. ASSUME NEW u \in UserOf(sessions') PROVE Sent(u, request[r].msg)'
        <4>0. UserOf(sessions') = {conn[s].user : s \in sessions'}
          BY DEF UserOf
        <4>1. PICK s \in sessions' : conn[s].user = u
          BY <4>0
        <4>2. s \in Socket /\ s \in reached
          BY <1>0, <3>5 DEF Reach, TypeOK
        <4>3. wire'[s] = wire[s] \o <<p>> /\ wire[s] \in Seq(Payload)
          BY <1>0, <3>5, <4>2 DEF TypeOK
        <4>4. /\ Len(wire[s]) + 1 \in DOMAIN wire'[s]
              /\ wire'[s][Len(wire[s]) + 1] = p
          BY <4>3
        <4>5. conn'[s].user = u /\ request'[r].msg = request[r].msg
          BY <3>2, <3>3, <3>5, <4>1
        <4> QED
          BY <3>4, <4>2, <4>4, <4>5 DEF Sent
      <3> QED
        BY <2>0, <3>2, <3>3, <3>6
    <2> QED
      BY <1>5, <2>2, <2>3 DEF PostBroadcast, Online, next
  <1>6. CASE PostResolve(r)
    <2> DEFINE new == [request[r] EXCEPT !.members = Member, !.step = "notify"]
    <2>1. request' = [request EXCEPT ![r] = new] /\ request[r].step = "resolve"
      BY <1>6 DEF PostResolve
    <2>2. /\ new.online = request[r].online /\ new.step = "notify"
          /\ new.msg = request[r].msg
      BY <1>0 DEF Local
    <2> HIDE DEF new
    <2>3. \A q \in Request : request'[q] = IF q = r THEN new ELSE request[q]
      BY <1>0, <2>1 DEF TypeOK
    <2> QED
      BY <2>1, <2>2, <2>3
  <1>7. ASSUME NEW u \in User, PostNotify(r, u)
        PROVE  request' = request /\ request[r].step = "notify"
    BY <1>7 DEF PostNotify
  <1>8. ASSUME NEW step, step \notin {"resolve", "notify", "answer"}, Continue(r, step),
               request[r].step \notin {"resolve", "notify", "answer"}
        PROVE  /\ \A q \in Request \ {r} : request'[q] = request[q]
               /\ request'[r].online = {} /\ request'[r].step = step
    BY <1>2, <1>8 DEF NoneYet
  <1>9. ASSUME Post(r), ~PostInsert(r), ~PostBroadcast(r), ~PostResolve(r),
               \A u \in User : ~PostNotify(r, u)
        PROVE  /\ \A q \in Request \ {r} : request'[q] = request[q]
               /\ request'[r].online = {} /\ request'[r].step \notin {"resolve", "notify"}
    BY <1>1, <1>3, <1>8, <1>9 DEF Post, PostCheck, PostCursor, PostAnswer
  <1>10. ASSUME Delete(r) \/ ChangeStatus(r) \/ MarkRead(r)
         PROVE  /\ \A q \in Request \ {r} : request'[q] = request[q]
                /\ request'[r].online = {} /\ request'[r].step \notin {"resolve", "notify"}
    BY <1>1, <1>3, <1>8, <1>10
       DEF Delete, DeleteCheck, DeleteUpdate, DeleteBroadcast,
           ChangeStatus, StatusCheck, StatusUpdate, StatusBroadcast,
           MarkRead, ReadCheck, ReadUpsert, ReadBroadcast
  <1>11. ASSUME ChangeMembers(r) \/ RequestLost(r)
         PROVE  /\ \A q \in Request \ {r} : request'[q] = request[q]
                /\ request'[r].online = {} /\ request'[r].step \notin {"resolve", "notify"}
    BY <1>1, <1>3, <1>11 DEF ChangeMembers, Unassign, Assign, Evict, Welcome, RequestLost
  <1> QED
    BY <1>4, <1>5, <1>6, <1>7, <1>9, <1>10, <1>11 DEF Rest, Post

LEMMA OnlineStep ==
  ASSUME IInv, NoneYet, OnlineWereSent, WireStep, [Next]_vars
  PROVE  NoneYet' /\ OnlineWereSent'
  <1>0. \A r \in Request : request[r].msg \in Nat /\ request[r].online \subseteq User
    BY DEF IInv, TypeOK, Local
  <1>1. ASSUME NEW r \in Request,
               request'[r].msg = request[r].msg,
               request[r].step \in {"resolve", "notify"}
        PROVE  \A u \in request[r].online : Sent(u, request[r].msg)'
    <2>1. PICK m \in Nat : m = request[r].msg /\ m = request'[r].msg
      BY <1>0, <1>1
    <2>2. \A u \in request[r].online : Sent(u, m)
      BY <1>1, <2>1 DEF OnlineWereSent
    <2>3. \A u \in request[r].online : Sent(u, m)'
      BY <1>0, <2>2, SentStays
    <2> QED
      BY <2>1, <2>3 DEF Sent
  <1>2. CASE UNCHANGED request
    BY <1>1, <1>2 DEF NoneYet, OnlineWereSent
  <1>3. ASSUME NEW q \in Request, Rest(q) PROVE NoneYet' /\ OnlineWereSent'
    <2>1. NoneYet'
      BY <1>3, OnlineComesFromBroadcast DEF NoneYet
    <2>2. ASSUME NEW r \in Request, request'[r].step \in {"resolve", "notify"},
                 NEW u \in request'[r].online
          PROVE  Sent(u, request[r].msg)'
      BY <1>1, <1>3, <2>2, OnlineComesFromBroadcast
    <2> QED
      BY <2>1, <2>2 DEF OnlineWereSent
  <1>4. CASE Objects \/ Browser
    BY <1>2, <1>4 DEF Objects, Browser, Admit, Register, Quiet, CloseEvent, ReplaySelect,
       ReplaySend, Alarm, Restart, Connect, Sync, Frame, FrameRefused, Ping, Leave
  <1> QED
    BY <1>2, <1>3, <1>4 DEF Next, vars

(* No member is overlooked by a post: the inductive part is that whoever   *)
(* the Durable Object named as online had been sent the message.           *)
THEOREM NobodyOverlookedHolds == Spec => []NobodyOverlooked
  <1> DEFINE Inv == IInv /\ ReplaysPlain /\ NoneYet /\ OnlineWereSent
  <1>1. Init => Inv
    BY InitIInv DEF Init, ReplaysPlain, NoneYet, OnlineWereSent, Idle
  <1>2. Inv /\ [Next]_vars => Inv'
    BY IInvStep, NextWires, OnlineStep
  <1>3. Inv => NobodyOverlooked
    BY DEF NobodyOverlooked, OnlineWereSent, Offline
  <1> QED
    BY <1>1, <1>2, <1>3, PTL DEF Spec

-----------------------------------------------------------------------------
(* A deleted text is withdrawn, with handlers that follow one another.     *)

(* The last that a wire tells of the message m is not its text.            *)
Silent(w, m) ==
  \A i \in DOMAIN w :
    w[i].msg = m /\ (\A j \in DOMAIN w : w[j].msg = m => j <= i) => ~w[i].text

(* The deletion of m is written, and its broadcast is still to come.       *)
Announcing(m) == \E r \in Request : request[r].step = "delete_cast" /\ request[r].msg = m

Withdrawn ==
  \A s \in sessions, m \in DOMAIN messages :
    conn[s].after = 0 /\ messages[m].deleted => Silent(wire[s], m) \/ Announcing(m)

(* What is about to be broadcast was not deleted; what a handler deletes   *)
(* exists.                                                                 *)
Owed ==
  \A r \in Request :
    /\ request[r].step \in {"cursor", "post"} =>
         request[r].msg \in DOMAIN messages /\ ~messages[request[r].msg].deleted
    /\ request[r].step \in {"delete", "delete_cast"} => request[r].msg \in DOMAIN messages

(* Only a client that names a message gets a replay.                       *)
Replayed ==
  \A p \in replays : conn[p.socket].step \in Accepted /\ conn[p.socket].after # 0

OneHandler == \A q, r \in Request : q = r

LEMMA SilentEmpty == \A m : Silent(<<>>, m)
  BY DEF Silent

LEMMA SilentAppended ==
  ASSUME NEW w \in Seq(Payload), NEW p \in Payload, NEW m, NEW v, v = w \o <<p>>,
         (p.msg = m /\ ~p.text) \/ (p.msg # m /\ Silent(w, m))
  PROVE  Silent(v, m)
  <1>1. /\ Len(w) \in Nat /\ DOMAIN w = 1 .. Len(w) /\ DOMAIN v = 1 .. Len(w) + 1
        /\ v[Len(w) + 1] = p /\ \A i \in 1 .. Len(w) : v[i] = w[i]
    OBVIOUS
  <1>2. SUFFICES ASSUME NEW i \in DOMAIN v, v[i].msg = m,
                        \A j \in DOMAIN v : v[j].msg = m => j <= i
                 PROVE  ~v[i].text
    BY DEF Silent
  <1>3. CASE p.msg = m
    <2>1. i = Len(w) + 1
      BY <1>1, <1>2, <1>3
    <2> QED
      BY <1>1, <1>3, <2>1
  <1>4. CASE p.msg # m
    <2>1. i \in DOMAIN w /\ v[i] = w[i]
      BY <1>1, <1>2, <1>4
    <2>2. \A j \in DOMAIN w : w[j].msg = m => j <= i
      BY <1>1, <1>2
    <2> QED
      BY <1>2, <1>4, <2>1, <2>2 DEF Silent
  <1> QED
    BY <1>3, <1>4

LEMMA WithdrawnKept ==
  ASSUME Withdrawn, messages' = messages,
         \A s \in sessions' :
           conn'[s].after = 0 =>
             \/ wire'[s] = <<>>
             \/ s \in sessions /\ conn[s].after = 0 /\ wire'[s] = wire[s],
         \A r \in Request : request[r].step = "delete_cast" => request'[r] = request[r]
  PROVE  Withdrawn'
  <1>1. \A m : Announcing(m) => Announcing(m)'
    BY DEF Announcing
  <1>2. ASSUME NEW s \in sessions', NEW m \in DOMAIN messages,
               conn'[s].after = 0, messages[m].deleted
        PROVE  Silent(wire'[s], m) \/ Announcing(m)'
    BY <1>1, <1>2, SilentEmpty DEF Withdrawn
  <1> QED
    BY <1>2 DEF Withdrawn, Silent

LEMMA OwedKept ==
  ASSUME Owed, messages' = messages,
         \A r \in Request :
           \/ request'[r].step \notin {"cursor", "post", "delete", "delete_cast"}
           \/ request'[r] = request[r]
  PROVE  Owed'
  BY DEF Owed

(* A broadcast of nothing, or none: the sockets that remain carry what     *)
(* they carried.                                                           *)
LEMMA SilentCall ==
  ASSUME TypeOK, "object" \notin Fault, UNCHANGED object \/ CallBroadcast(<<>>)
  PROVE  /\ UNCHANGED <<conn, replays>> /\ sessions' \subseteq sessions
         /\ \A s \in sessions' : wire'[s] = wire[s]
  <1>1. CASE UNCHANGED object
    BY <1>1 DEF object
  <1>2. CASE CallBroadcast(<<>>)
    <2>1. PICK reached \in Reach(sessions, stale) :
            /\ sessions' = reached /\ UNCHANGED <<conn, replays>>
            /\ wire' = [s \in Socket |-> IF s \in reached THEN wire[s] \o <<>> ELSE wire[s]]
      BY <1>2 DEF CallBroadcast, Broadcast
    <2>2. reached \subseteq sessions /\ sessions \subseteq Socket
      BY DEF Reach, TypeOK
    <2>3. \A s \in Socket : wire[s] \in Seq(Payload) /\ wire[s] \o <<>> = wire[s]
      BY DEF TypeOK
    <2> QED
      BY <2>1, <2>2, <2>3
  <1> QED
    BY <1>1, <1>2

LEMMA CastTo ==
  ASSUME TypeOK, "object" \notin Fault, NEW p \in Payload,
         Broadcast(sessions, <<p>>) \/ CallBroadcast(<<p>>)
  PROVE  /\ UNCHANGED <<conn, replays>> /\ sessions' \subseteq sessions
         /\ \A s \in sessions' : wire'[s] = wire[s] \o <<p>>
  <1>1. PICK reached \in Reach(sessions, stale) :
          /\ sessions' = reached /\ UNCHANGED <<conn, replays>>
          /\ wire' = [s \in Socket |-> IF s \in reached THEN wire[s] \o <<p>> ELSE wire[s]]
    BY DEF CallBroadcast, Broadcast
  <1>2. reached \subseteq sessions /\ sessions \subseteq Socket
    BY DEF Reach, TypeOK
  <1> QED
    BY <1>1, <1>2

LEMMA RestWithdraws ==
  ASSUME IInv, OneHandler, "object" \notin Fault, "request" \notin Fault, Owed, Withdrawn,
         NEW r \in Request, Rest(r)
  PROVE  Withdrawn' /\ Owed'
  <1>0. /\ TypeOK /\ messages \in Seq(Message) /\ sessions \subseteq Socket
        /\ \A q \in Request : q = r
        /\ \A s \in Socket : wire[s] \in Seq(Payload)
    BY DEF IInv, TypeOK, OneHandler
  <1>p. PICK q \in Local : q = request[r]
    BY <1>0 DEF TypeOK
  <1>1. CASE PostInsert(r)
    <2>1. PICK row : row = [sender |-> q.user, deleted |-> FALSE]
      OBVIOUS
    <2>2. /\ messages' = Append(messages, row) /\ ~row.deleted
          /\ DOMAIN messages' = DOMAIN messages \cup {Len(messages) + 1}
          /\ Len(messages) + 1 \notin DOMAIN messages
          /\ messages'[Len(messages) + 1] = row
          /\ \A m \in DOMAIN messages : messages'[m] = messages[m]
      BY <1>0, <1>1, <1>p, <2>1 DEF PostInsert
    <2>3. UNCHANGED <<sessions, conn, wire>> /\ request[r].step = "insert"
      BY <1>1 DEF PostInsert, object
    <2>4. request'[r] = [q EXCEPT !.msg = Len(messages) + 1, !.step = AfterInsert(q.arg)]
      BY <1>0, <1>1, <1>p DEF PostInsert, TypeOK
    <2>5. request'[r].msg = Len(messages) + 1 /\ request'[r].step \in {"cursor", "post"}
      BY <2>4 DEF Local, AfterInsert
    <2>6. Owed'
      BY <1>0, <2>2, <2>5 DEF Owed
    <2>7. ASSUME NEW s \in sessions', NEW m \in DOMAIN messages',
                 conn'[s].after = 0, messages'[m].deleted
          PROVE  Silent(wire'[s], m)
      BY <1>0, <2>2, <2>3, <2>7 DEF Withdrawn, Announcing
    <2> QED
      BY <2>6, <2>7 DEF Withdrawn, Silent
  <1>2. CASE PostCursor(r)
    <2>1. UNCHANGED <<sessions, conn, wire, messages>> /\ request[r].step = "cursor"
      BY <1>2 DEF PostCursor, object
    <2>2. request'[r] = [q EXCEPT !.step = "post"]
      BY <1>0, <1>2, <1>p DEF PostCursor, Continue, TypeOK
    <2>3. request'[r].msg = request[r].msg /\ request'[r].step = "post"
      BY <1>p, <2>2 DEF Local
    <2>4. Owed'
      BY <1>0, <2>1, <2>3 DEF Owed
    <2> QED
      BY <1>0, <2>1, <2>4, WithdrawnKept
  <1>3. CASE PostBroadcast(r)
    <2>1. PICK p \in Payload : p = NewMessage(q.msg, TRUE, TRUE)
      BY PayloadTypes DEF Local
    <2>2. p.msg = q.msg
      BY <2>1 DEF NewMessage
    <2>3. Broadcast(sessions, <<p>>) /\ messages' = messages /\ request[r].step = "post"
      BY <1>3, <1>p, <2>1 DEF PostBroadcast, rows
    <2>4. /\ conn' = conn /\ sessions' \subseteq sessions
          /\ \A s \in sessions' : wire'[s] = wire[s] \o <<p>>
      BY <1>0, <2>3, CastTo
    <2>5. \A m \in DOMAIN messages : messages[m].deleted => m # p.msg
      BY <1>p, <2>2, <2>3 DEF Owed
    <2>6. ASSUME NEW s \in sessions', NEW m \in DOMAIN messages',
                 conn'[s].after = 0, messages'[m].deleted
          PROVE  Silent(wire'[s], m)
      <3>1. Silent(wire[s], m)
        BY <1>0, <2>3, <2>4, <2>6 DEF Withdrawn, Announcing
      <3> QED
        BY <1>0, <2>3, <2>4, <2>5, <2>6, <3>1, SilentAppended
    <2>7. Withdrawn'
      BY <2>6 DEF Withdrawn, Silent
    <2>8. request'[r] = [q EXCEPT !.online = Online, !.step = AfterBroadcast(q.arg)]
      BY <1>0, <1>3, <1>p DEF PostBroadcast, TypeOK
    <2>9. request'[r].step \notin {"cursor", "post", "delete", "delete_cast"}
      BY <2>8 DEF Local, AfterBroadcast
    <2> QED
      BY <1>0, <2>3, <2>7, <2>9, OwedKept
  <1>4. ASSUME NEW u \in User, NEW m \in DOMAIN messages, DeleteCheck(r, u, m)
        PROVE  Withdrawn' /\ Owed'
    <2>1. UNCHANGED <<sessions, conn, wire, messages>> /\ request[r].step = "idle"
      BY <1>4 DEF DeleteCheck, Start, object, rows
    <2>2. request'[r].msg = m /\ request'[r].step = "delete"
      BY <1>0, <1>4 DEF DeleteCheck, Start, TypeOK
    <2>3. Owed'
      BY <1>0, <2>1, <2>2 DEF Owed
    <2> QED
      BY <1>0, <2>1, <2>3, WithdrawnKept
  <1>5. CASE DeleteUpdate(r)
    <2>1. PICK n \in DOMAIN messages : n = q.msg
      BY <1>5, <1>p DEF Owed, DeleteUpdate
    <2>2. /\ messages' = [messages EXCEPT ![n].deleted = TRUE]
          /\ UNCHANGED <<sessions, conn, wire>> /\ request[r].step = "delete"
      BY <1>5, <1>p, <2>1 DEF DeleteUpdate, object
    <2>3. /\ DOMAIN messages' = DOMAIN messages
          /\ \A m \in DOMAIN messages : m # n => messages'[m] = messages[m]
      BY <2>2
    <2>4. request'[r] = [q EXCEPT !.step = "delete_cast"]
      BY <1>0, <1>5, <1>p DEF DeleteUpdate, Continue, TypeOK
    <2>5. request'[r].msg = n /\ request'[r].step = "delete_cast"
      BY <2>1, <2>4 DEF Local
    <2>6. Owed'
      BY <1>0, <2>3, <2>5 DEF Owed
    <2>7. Announcing(n)'
      BY <2>5 DEF Announcing
    <2>8. ASSUME NEW s \in sessions', NEW m \in DOMAIN messages',
                 conn'[s].after = 0, messages'[m].deleted, m # n
          PROVE  Silent(wire'[s], m)
      BY <1>0, <2>2, <2>3, <2>8 DEF Withdrawn, Announcing
    <2>9. Withdrawn'
      BY <2>7, <2>8 DEF Withdrawn, Silent
    <2> QED
      BY <2>6, <2>9
  <1>6. CASE DeleteBroadcast(r)
    <2>1. PICK p \in Payload : p = MessageDeleted(q.msg)
      BY PayloadTypes DEF Local
    <2>2. p.msg = q.msg /\ ~p.text
      BY <2>1 DEF MessageDeleted
    <2>3. CallBroadcast(<<p>>) /\ messages' = messages /\ request[r].step = "delete_cast"
      BY <1>6, <1>p, <2>1 DEF DeleteBroadcast, rows
    <2>4. /\ conn' = conn /\ sessions' \subseteq sessions
          /\ \A s \in sessions' : wire'[s] = wire[s] \o <<p>>
      BY <1>0, <2>3, CastTo
    <2>5. ASSUME NEW s \in sessions', NEW m \in DOMAIN messages',
                 conn'[s].after = 0, messages'[m].deleted
          PROVE  Silent(wire'[s], m)
      <3>1. m # p.msg => Silent(wire[s], m)
        BY <1>0, <1>p, <2>2, <2>3, <2>4, <2>5 DEF Withdrawn, Announcing
      <3> QED
        BY <1>0, <2>2, <2>4, <3>1, SilentAppended
    <2>6. Withdrawn'
      BY <2>5 DEF Withdrawn, Silent
    <2>7. request'[r].step = "idle"
      BY <1>0, <1>6 DEF DeleteBroadcast, Answer, Idle, TypeOK
    <2> QED
      BY <1>0, <2>3, <2>6, <2>7, OwedKept
  <1>7. CASE Evict(r)
    <2>1. PICK removed : removed = Owned(request[r].user)
      OBVIOUS
    <2>2. PICK reached \in Reach(sessions \ removed, stale) :
            /\ sessions' = reached /\ conn' = conn
            /\ wire' = [s \in Socket |-> IF s \in removed
                                         THEN Append(wire[s], AccessRevoked) ELSE wire[s]]
      BY <1>7, <2>1 DEF Evict
    <2>3. reached \subseteq sessions \ removed
      BY DEF Reach
    <2>4. \A s \in sessions' : s \in sessions /\ wire'[s] = wire[s]
      BY <1>0, <2>2, <2>3
    <2>5. messages' = messages /\ request[r].step = "evict"
      BY <1>7 DEF Evict, rows
    <2>6. request'[r].step = "idle"
      BY <1>0, <1>7 DEF Evict, Answer, Idle, TypeOK
    <2>7. Withdrawn'
      BY <1>0, <2>2, <2>4, <2>5, WithdrawnKept
    <2> QED
      BY <1>0, <2>5, <2>6, <2>7, OwedKept
  <1>8. CASE /\ ~(PostInsert(r) \/ PostCursor(r) \/ PostBroadcast(r) \/ DeleteUpdate(r))
             /\ ~(DeleteBroadcast(r) \/ Evict(r))
             /\ ~\E u \in User, m \in DOMAIN messages : DeleteCheck(r, u, m)
    <2>1. /\ messages' = messages /\ request[r].step # "delete_cast"
          /\ UNCHANGED object \/ CallBroadcast(<<>>)
      BY <1>8 DEF Rest, Post, PostCheck, PostResolve, PostNotify, PostAnswer, Delete, ChangeStatus,
           StatusCheck, StatusUpdate, StatusBroadcast, MarkRead, ReadCheck, ReadUpsert,
           ReadBroadcast, ChangeMembers, Unassign, Assign, Welcome, RequestLost, Start, rows
    <2>2. request'[r].step \notin {"cursor", "post", "delete", "delete_cast"}
      <3>1. CASE PostResolve(r)
        <4>1. request'[r] = [q EXCEPT !.members = Member, !.step = "notify"]
          BY <1>0, <1>p, <3>1 DEF PostResolve, TypeOK
        <4> QED
          BY <4>1 DEF Local
      <3>2. CASE StatusUpdate(r) \/ ReadUpsert(r)
        <4>1. request'[r] = [q EXCEPT !.step = "status_cast"]
                \/ request'[r] = [q EXCEPT !.step = "receipt_cast"]
          BY <1>0, <1>p, <3>2 DEF StatusUpdate, ReadUpsert, Continue, TypeOK
        <4> QED
          BY <4>1 DEF Local
      <3>3. CASE \E u \in User : PostNotify(r, u)
        BY <3>3 DEF PostNotify
      <3>4. CASE \/ PostAnswer(r) \/ StatusBroadcast(r) \/ ReadBroadcast(r) \/ Welcome(r)
                 \/ RequestLost(r)
        BY <1>0, <3>4 DEF PostAnswer, StatusBroadcast, ReadBroadcast, Welcome, RequestLost, Answer,
           Idle, TypeOK
      <3>5. ASSUME NEW u, NEW arg,
                   \/ PostCheck(r, u, arg) \/ StatusCheck(r, u, arg) \/ ReadCheck(r, u)
                   \/ Unassign(r, u) \/ Assign(r, u)
            PROVE  request'[r].step \notin {"cursor", "post", "delete", "delete_cast"}
        BY <1>0, <3>5 DEF PostCheck, StatusCheck, ReadCheck, Unassign, Assign, Start, TypeOK
      <3>6. CASE Post(r)
        BY <1>8, <3>1, <3>3, <3>4, <3>5, <3>6 DEF Post
      <3>7. CASE Delete(r)
        BY <1>8, <3>7 DEF Delete
      <3>8. CASE ChangeStatus(r) \/ MarkRead(r)
        BY <3>2, <3>4, <3>5, <3>8 DEF ChangeStatus, MarkRead
      <3>9. CASE ChangeMembers(r) \/ RequestLost(r)
        BY <1>8, <3>4, <3>5, <3>9 DEF ChangeMembers
      <3> QED
        BY <3>6, <3>7, <3>8, <3>9 DEF Rest
    <2>3. /\ conn' = conn /\ sessions' \subseteq sessions
          /\ \A s \in sessions' : wire'[s] = wire[s]
      BY <1>0, <2>1, SilentCall
    <2>4. Withdrawn'
      BY <1>0, <2>1, <2>3, WithdrawnKept
    <2> QED
      BY <1>0, <2>1, <2>2, <2>4, OwedKept
  <1> QED
    BY <1>1, <1>2, <1>3, <1>4, <1>5, <1>6, <1>7, <1>8

LEMMA RestConn ==
  ASSUME IInv, NEW r \in Request, Rest(r)
  PROVE  conn' = conn /\ sessions' \subseteq sessions
  <1>1. conn' = conn
    BY DEF Rest, Post, Delete, ChangeStatus, MarkRead, ChangeMembers, RequestLost,
           PostCheck, PostInsert, PostCursor, PostBroadcast, PostResolve, PostNotify, PostAnswer,
           DeleteCheck, DeleteUpdate, DeleteBroadcast, StatusCheck, StatusUpdate,
           StatusBroadcast, ReadCheck, ReadUpsert, ReadBroadcast, Unassign, Evict, Assign,
           Welcome, CallBroadcast, Broadcast, object
  <1>2. sessions' \subseteq sessions
    BY RestShrinks
  <1> QED
    BY <1>1, <1>2

LEMMA ObjectsWithdraw ==
  ASSUME IInv, Owed, Withdrawn, Replayed, Objects \/ Browser
  PROVE  Withdrawn' /\ Owed' /\ Replayed'
  <1>0. /\ TypeOK /\ Sockets /\ sessions \subseteq Socket /\ replays \subseteq Replay
        /\ \A s \in Socket : conn[s] \in Upgrade
    BY DEF IInv, TypeOK
  <1>a. UNCHANGED <<messages, request>>
    BY DEF Objects, Browser, Admit, Register, Quiet, CloseEvent, ReplaySelect, ReplaySend,
           Alarm, Restart, Connect, Sync, Frame, FrameRefused, Ping, Leave, rows
  <1>b. Owed'
    BY <1>a, OwedKept
  <1>c. ASSUME \A s \in sessions' :
                 conn'[s].after = 0 =>
                   \/ wire'[s] = <<>>
                   \/ s \in sessions /\ conn[s].after = 0 /\ wire'[s] = wire[s]
        PROVE  Withdrawn'
    BY <1>a, <1>c, WithdrawnKept
  <1>d. ASSUME NEW s \in Socket, NEW c \in Upgrade, conn' = [conn EXCEPT ![s] = c],
               conn[s].step \in Accepted => c.step \in Accepted /\ c.after = conn[s].after
        PROVE  \A q \in Socket : conn[q].step \in Accepted =>
                 conn'[q].step \in Accepted /\ conn'[q].after = conn[q].after
    BY <1>0, <1>d, ConnTyped
  <1>e. \A p \in replays : p.socket \in Socket
    BY <1>0 DEF Replay
  <1>f. \A s \in sessions : s \in Socket /\ conn[s].step \in Accepted
    BY <1>0 DEF Sockets
  <1>1. ASSUME NEW s \in Socket, Quiet(s) \/ Ping(s) \/ Leave(s) \/ CloseEvent(s) \/ Frame(s)
        PROVE  Withdrawn' /\ Replayed'
    <2>1. UNCHANGED <<wire, conn, replays>> /\ sessions' \subseteq sessions
      BY <1>1 DEF Quiet, Ping, Leave, CloseEvent, Frame, Reach
    <2> QED
      BY <1>c, <2>1 DEF Replayed
  <1>2. ASSUME NEW s \in Socket, Admit(s) PROVE Withdrawn' /\ Replayed'
    <2>1. /\ UNCHANGED <<wire, sessions, replays>>
          /\ \A q \in Socket : conn[q].step \in Accepted => conn'[q] = conn[q]
      BY <1>0, <1>2 DEF Admit, TypeOK, Accepted
    <2> QED
      BY <1>c, <1>e, <1>f, <2>1 DEF Replayed
  <1>3. ASSUME NEW s \in Socket, Register(s) PROVE Withdrawn' /\ Replayed'
    <2>1. wire' = wire /\ sessions' \subseteq sessions \cup {s} /\ conn[s].step = "admitted"
      BY <1>3 DEF Register, Reach
    <2>2. wire[s] = <<>>
      BY <1>0, <2>1 DEF Sockets, Accepted
    <2>3. PICK c : c = [conn[s] EXCEPT !.step = "open"]
      OBVIOUS
    <2>4. c \in Upgrade /\ c.step = "open" /\ c.after = conn[s].after
      BY <1>0, <2>3 DEF Upgrade
    <2>5. /\ conn'[s] = c
          /\ \A q \in Socket : conn[q].step \in Accepted => conn'[q] = conn[q]
      BY <1>0, <1>3, <2>1, <2>3 DEF Register, TypeOK, Accepted
    <2>6. \A p \in replays' : p \in replays \/ (p.socket = s /\ conn[s].after # 0)
      BY <1>3 DEF Register
    <2>7. Replayed'
      BY <1>e, <2>4, <2>5, <2>6 DEF Replayed, Accepted
    <2>8. Withdrawn'
      BY <1>c, <1>f, <2>1, <2>2, <2>5
    <2> QED
      BY <2>7, <2>8
  <1>4. ASSUME NEW p \in replays, ReplaySelect(p) PROVE Withdrawn' /\ Replayed'
    <2>1. UNCHANGED <<wire, sessions, conn>>
      BY <1>4 DEF ReplaySelect
    <2>2. PICK q : q = [p EXCEPT !.step = "send", !.rows = Missed(p)]
      OBVIOUS
    <2>3. q.socket = p.socket
      BY <1>0, <2>2 DEF Replay
    <2>4. replays' \subseteq replays \cup {q}
      BY <1>4, <2>2 DEF ReplaySelect
    <2> QED
      BY <1>c, <2>1, <2>3, <2>4 DEF Replayed
  <1>5. ASSUME NEW p \in replays, ReplaySend(p) PROVE Withdrawn' /\ Replayed'
    <2>1. PICK o \in Socket : o = p.socket /\ conn[o].after # 0
      BY <1>e DEF Replayed
    <2>2. /\ UNCHANGED <<sessions, conn>> /\ replays' \subseteq replays
          /\ \A s \in Socket : s # o => wire'[s] = wire[s]
      BY <1>0, <1>5, <2>1 DEF ReplaySend, TypeOK
    <2> QED
      BY <1>c, <1>f, <2>1, <2>2 DEF Replayed
  <1>6. CASE Alarm
    <2>1. UNCHANGED <<wire, conn, replays>> /\ sessions' \subseteq sessions
      BY <1>6 DEF Alarm, Reach
    <2> QED
      BY <1>b, <1>c, <2>1 DEF Replayed
  <1>7. CASE Restart
    <2>1. sessions' = {} /\ replays' = {}
      BY <1>7 DEF Restart
    <2> QED
      BY <1>b, <1>c, <2>1 DEF Replayed
  <1>8. ASSUME NEW s \in Socket, NEW u \in User, NEW after \in 0 .. Len(messages),
               Connect(s, u, after)
        PROVE  Withdrawn' /\ Replayed'
    <2>1. /\ UNCHANGED <<wire, sessions, replays>>
          /\ \A q \in Socket : conn[q].step \in Accepted => conn'[q] = conn[q]
      BY <1>0, <1>8 DEF Connect, TypeOK, Accepted
    <2> QED
      BY <1>c, <1>e, <1>f, <2>1 DEF Replayed
  <1>9. ASSUME NEW s \in Socket, Sync(s) PROVE Withdrawn' /\ Replayed'
    <2>1. PICK c : c = [conn[s] EXCEPT !.step = "synced"]
      OBVIOUS
    <2>2. c \in Upgrade /\ c.step = "synced" /\ c.after = conn[s].after
      BY <1>0, <2>1 DEF Upgrade
    <2>3. conn' = [conn EXCEPT ![s] = c] /\ conn[s].step = "open"
      BY <1>9, <2>1 DEF Sync
    <2>4. \A q \in Socket : conn[q].step \in Accepted =>
            conn'[q].step \in Accepted /\ conn'[q].after = conn[q].after
      BY <1>d, <2>2, <2>3 DEF Accepted
    <2>5. \A p \in replays' : p \in replays \/ (p.socket = s /\ conn[s].after # 0)
      BY <1>9 DEF Sync
    <2>6. Replayed'
      BY <1>e, <2>3, <2>4, <2>5 DEF Replayed, Accepted
    <2>7. UNCHANGED <<wire, sessions>>
      BY <1>9 DEF Sync
    <2> QED
      BY <1>c, <1>f, <2>4, <2>6, <2>7
  <1>10. ASSUME NEW s \in Socket, FrameRefused(s) PROVE Withdrawn' /\ Replayed'
    <2>1. UNCHANGED <<conn, replays>> /\ sessions' \subseteq sessions \ {s}
      BY <1>10 DEF FrameRefused, Reach
    <2>2. \A q \in Socket : q # s => wire'[q] = wire[q]
      BY <1>0, <1>10 DEF FrameRefused, TypeOK
    <2> QED
      BY <1>c, <1>f, <2>1, <2>2 DEF Replayed
  <1> QED
    BY <1>b, <1>1, <1>2, <1>3, <1>4, <1>5, <1>6, <1>7, <1>8, <1>9, <1>10 DEF Objects, Browser

WithdrawInv == IInv /\ Owed /\ Withdrawn /\ Replayed

LEMMA WithdrawStep ==
  ASSUME OneHandler, "object" \notin Fault, "request" \notin Fault, WithdrawInv, [Next]_vars
  PROVE  WithdrawInv'
  <1>0. IInv'
    BY IInvStep DEF WithdrawInv
  <1>1. CASE UNCHANGED vars
    <2>1. UNCHANGED <<messages, request, sessions, conn, wire, replays>>
      BY <1>1 DEF vars, rows, object
    <2> QED
      BY <1>0, <2>1, OwedKept, WithdrawnKept DEF WithdrawInv, Replayed
  <1>2. ASSUME NEW r \in Request, Rest(r) PROVE WithdrawInv'
    <2>1. Withdrawn' /\ Owed'
      BY <1>2, RestWithdraws DEF WithdrawInv
    <2>2. replays' = replays
      BY <1>2, RestWires DEF WithdrawInv
    <2>3. \A s \in Socket : conn'[s] = conn[s]
      BY <1>2, RestConn DEF WithdrawInv
    <2>4. \A p \in replays : p.socket \in Socket
      BY DEF WithdrawInv, IInv, TypeOK, Replay
    <2> QED
      BY <1>0, <2>1, <2>2, <2>3, <2>4 DEF WithdrawInv, Replayed
  <1>3. CASE Objects \/ Browser
    BY <1>0, <1>3, ObjectsWithdraw DEF WithdrawInv
  <1> QED
    BY <1>1, <1>2, <1>3 DEF Next

(* "completely sanitize deleted messages" (chat.ts:544): of a deleted      *)
(* message the last that a socket without a replay carried is not its      *)
(* text, for handlers that follow one another and do reach the object.     *)
THEOREM LiveTextWithdrawnHolds ==
  ASSUME OneHandler, "object" \notin Fault, "request" \notin Fault
  PROVE  Spec => []LiveTextWithdrawn
  <1>1. Init => WithdrawInv
    <2> SUFFICES ASSUME Init PROVE WithdrawInv
      OBVIOUS
    <2>1. IInv
      BY InitIInv
    <2>2. sessions = {} /\ replays = {} /\ \A r \in Request : request[r].step = "idle"
      BY DEF Init, Idle
    <2> QED
      BY <2>1, <2>2 DEF WithdrawInv, Owed, Withdrawn, Replayed
  <1>2. WithdrawInv /\ [Next]_vars => WithdrawInv'
    BY WithdrawStep
  <1>3. WithdrawInv => LiveTextWithdrawn
    <2> SUFFICES ASSUME WithdrawInv, \A r \in Request : request[r].step = "idle",
                        NEW s \in sessions, NEW m \in DOMAIN messages,
                        conn[s].after = 0, messages[m].deleted,
                        NEW i \in About(s, m), \A j \in About(s, m) : j <= i
                 PROVE  ~wire[s][i].text
      BY DEF LiveTextWithdrawn
    <2>1. Silent(wire[s], m)
      BY DEF WithdrawInv, Withdrawn, Announcing
    <2> QED
      BY <2>1 DEF Silent, About
  <1> QED
    BY <1>1, <1>2, <1>3, PTL DEF Spec

-----------------------------------------------------------------------------
(*-------------------------------------------------------------------------*)
(* The room keeps the promise of Delivery.                                 *)
(*-------------------------------------------------------------------------*)

(* A socket without an upgrade request has no owner.                       *)
FreeUnowned == \A s \in Socket : conn[s].step = "free" => conn[s].user = Nobody

(* From the INSERT on, the handler of a message has its number.            *)
MsgPosted ==
  \A r \in Request :
    request[r].step \in {"cursor", "post", "resolve", "notify"} => request[r].msg >= 1

(* What one step does to the upgrade request of a socket, and that only an *)
(* admitted one enters the map of the Durable Object.                      *)
ConnStep(s) ==
  \/ conn'[s] = conn[s]
  \/ conn[s].step = "free" /\ conn'[s].step = "checked"
  \/ /\ conn'[s].user = conn[s].user
     /\ \/ conn[s].step \in {"checked", "admitted"} /\ conn'[s].step # "free"
        \/ conn[s].step \in Accepted /\ conn'[s].step \in Accepted

Enters(s) == s \in sessions' \ sessions => conn[s].step = "admitted"

(* What one step does to a handler, as far as its duty goes.               *)
Quietly == UNCHANGED <<wire, conn, notified>>

DutyStep(r) ==
  \/ request'[r] = request[r]
  \/ request[r].step # "notify" /\ request'[r].step # "notify"
  \/ request[r].step # "notify" /\ Quietly
  \/ /\ request[r].step = "notify" /\ request'[r].step = "idle"
     /\ "request" \in Fault \/ (Offline(r) = {} /\ Quietly)

RefInv ==
  IInv /\ ReplaysPlain /\ NoneYet /\ OnlineWereSent /\ FreeUnowned /\ MsgPosted

-----------------------------------------------------------------------------

LEMMA ConnMoves ==
  ASSUME IInv, FreeUnowned, [Next]_vars
  PROVE  FreeUnowned' /\ \A s \in Socket : ConnStep(s) /\ Enters(s)
  <1>0. TypeOK /\ Sockets /\ conn \in [Socket -> Upgrade]
    BY DEF IInv, TypeOK
  <1>1. ASSUME NEW s \in Socket, Admit(s) \/ Register(s) \/ Sync(s)
        PROVE  FreeUnowned' /\ \A q \in Socket : ConnStep(q) /\ Enters(q)
    <2>1. PICK to \in {"admitted", "refused", "open", "synced"} :
            /\ conn' = [conn EXCEPT ![s].step = to]
            /\ \/ conn[s].step \in {"checked", "admitted"}
               \/ conn[s].step = "open" /\ to = "synced"
      BY <1>1 DEF Admit, Register, Sync
    <2>2. \A q \in Socket : conn'[q] = IF q = s THEN [conn[s] EXCEPT !.step = to] ELSE conn[q]
      BY <1>0, <2>1
    <2>3. /\ conn[s] \in Upgrade
          /\ conn'[s].step = to /\ conn'[s].user = conn[s].user
      BY <1>0, <2>2 DEF Upgrade
    <2>4. \A q \in Socket : ConnStep(q)
      BY <2>1, <2>2, <2>3 DEF ConnStep, Accepted
    <2>5. \A q \in Socket : Enters(q)
      BY <1>1 DEF Enters, Admit, Register, Sync, Reach
    <2> QED
      BY <2>2, <2>3, <2>4, <2>5 DEF FreeUnowned
  <1>2. ASSUME NEW s \in Socket, NEW u \in User, NEW after \in 0..Len(messages),
               Connect(s, u, after)
        PROVE  FreeUnowned' /\ \A q \in Socket : ConnStep(q) /\ Enters(q)
    <2> DEFINE new == [step |-> "checked", user |-> u, after |-> after]
    <2>1. \A q \in Socket : conn'[q] = IF q = s THEN new ELSE conn[q]
      BY <1>0, <1>2 DEF Connect
    <2>2. conn[s].step = "free" /\ sessions' = sessions
      BY <1>2 DEF Connect
    <2>3. \A q \in Socket : ConnStep(q)
      BY <2>1, <2>2 DEF ConnStep
    <2> QED
      BY <2>1, <2>2, <2>3 DEF FreeUnowned, Enters
  <1>3. ASSUME NEW s \in Socket,
               Quiet(s) \/ CloseEvent(s) \/ Frame(s) \/ FrameRefused(s) \/ Ping(s) \/ Leave(s)
        PROVE  conn' = conn /\ sessions' \subseteq sessions
    BY <1>3 DEF Quiet, CloseEvent, Frame, FrameRefused, Ping, Leave, Reach
  <1>4. ASSUME NEW p \in replays, ReplaySelect(p) \/ ReplaySend(p)
        PROVE  conn' = conn /\ sessions' \subseteq sessions
    BY <1>4 DEF ReplaySelect, ReplaySend
  <1>5. Alarm => conn' = conn /\ sessions' \subseteq sessions
    BY DEF Alarm, Reach
  <1>6. CASE Restart
    <2>1. \A q \in Socket :
            conn'[q] = IF conn[q].step \in {"checked", "admitted"}
                       THEN [conn[q] EXCEPT !.step = "refused"] ELSE conn[q]
      BY <1>6 DEF Restart
    <2>2. \A q \in Socket : ConnStep(q)
      BY <1>0, <2>1 DEF ConnStep, Upgrade
    <2>3. \A q \in Socket : conn'[q].step = "free" => conn'[q] = conn[q]
      BY <1>0, <2>1 DEF Upgrade
    <2> QED
      BY <1>6, <2>2, <2>3 DEF FreeUnowned, Enters, Restart
  <1>7. CASE conn' = conn /\ sessions' \subseteq sessions
    BY <1>7 DEF FreeUnowned, ConnStep, Enters
  <1>8. CASE UNCHANGED vars
    BY <1>7, <1>8 DEF vars, object
  <1> QED
    BY <1>1, <1>2, <1>3, <1>4, <1>5, <1>6, <1>7, <1>8, RestConn DEF Next, Objects, Browser

-----------------------------------------------------------------------------

LEMMA DutyMoves ==
  ASSUME IInv, MsgPosted, NEW r \in Request, Rest(r)
  PROVE  /\ \A q \in Request \ {r} : request'[q] = request[q]
         /\ DutyStep(r)
         /\ notified \subseteq notified'
         /\ request'[r].step \in {"cursor", "post", "resolve", "notify"} =>
              request'[r].msg >= 1
  <1> DEFINE Posting == {"cursor", "post", "resolve", "notify"}
  <1> DEFINE Goal == /\ \A q \in Request \ {r} : request'[q] = request[q]
                     /\ DutyStep(r)
                     /\ notified \subseteq notified'
                     /\ request'[r].step \in Posting => request'[r].msg >= 1
  <1>0. /\ TypeOK /\ request[r] \in Local /\ Idle.step = "idle"
        /\ request[r].step \in Posting => request[r].msg >= 1
    BY DEF IInv, TypeOK, Idle, MsgPosted
  <1>1. ASSUME NEW u, NEW arg, NEW m, NEW step, step \notin Posting, Start(r, u, arg, m, step),
               notified' = notified
        PROVE  Goal
    BY <1>0, <1>1 DEF Start, TypeOK, DutyStep
  <1>2. ASSUME NEW step, step # "notify", request[r].step # "notify", Continue(r, step),
               step \in Posting => request[r].step \in Posting,
               notified' = notified
        PROVE  Goal
    BY <1>0, <1>2 DEF Continue, TypeOK, Local, DutyStep
  <1>3. ASSUME Answer(r), request[r].step # "notify", notified' = notified
        PROVE  Goal
    BY <1>0, <1>3 DEF Answer, TypeOK, DutyStep
  <1>4. CASE PostInsert(r)
    <2> DEFINE next == AfterInsert(request[r].arg)
    <2> DEFINE new == [request[r] EXCEPT !.msg = Len(messages) + 1, !.step = next]
    <2>1. request' = [request EXCEPT ![r] = new] /\ notified' = notified
          /\ request[r].step = "insert"
      BY <1>4 DEF PostInsert
    <2>2. next # "notify" /\ Len(messages) \in Nat
      BY <1>0 DEF AfterInsert, TypeOK
    <2> HIDE DEF next
    <2>3. new.step # "notify" /\ new.msg >= 1
      BY <1>0, <2>2 DEF Local
    <2> HIDE DEF new
    <2>4. \A q \in Request : request'[q] = IF q = r THEN new ELSE request[q]
      BY <1>0, <2>1 DEF TypeOK
    <2> QED
      BY <2>1, <2>3, <2>4 DEF DutyStep
  <1>5. CASE PostBroadcast(r)
    <2>0. PICK next : next = AfterBroadcast(request[r].arg)
      OBVIOUS
    <2>1. next # "notify" /\ request[r].step = "post" /\ notified' = notified
      BY <1>5, <2>0 DEF PostBroadcast, AfterBroadcast, rows
    <2>2. CASE Continue(r, next)
      BY <1>2, <2>1, <2>2
    <2>3. ASSUME NEW online, request' = [request EXCEPT ![r].online = online, ![r].step = next]
          PROVE  Goal
      <3>1. \A q \in Request \ {r} : request'[q] = request[q]
        BY <1>0, <2>3 DEF TypeOK
      <3>2. request'[r] = [request[r] EXCEPT !.online = online, !.step = next]
        BY <1>0, <2>3 DEF TypeOK
      <3>3. request'[r].step = next /\ request'[r].msg = request[r].msg
        BY <1>0, <3>2 DEF Local
      <3> QED
        BY <1>0, <2>1, <3>1, <3>3 DEF DutyStep
    <2> QED
      BY <1>5, <2>0, <2>2, <2>3 DEF PostBroadcast
  <1>6. CASE PostResolve(r)
    <2> DEFINE new == [request[r] EXCEPT !.members = Member, !.step = "notify"]
    <2>1. /\ request' = [request EXCEPT ![r] = new] /\ request[r].step = "resolve"
          /\ Quietly
      BY <1>6 DEF PostResolve, Quietly, rows, object
    <2>2. new.msg = request[r].msg
      BY <1>0 DEF Local
    <2> HIDE DEF new
    <2>3. \A q \in Request : request'[q] = IF q = r THEN new ELSE request[q]
      BY <1>0, <2>1 DEF TypeOK
    <2> QED
      BY <1>0, <2>1, <2>2, <2>3 DEF DutyStep, Quietly
  <1>7. ASSUME NEW u \in User, PostNotify(r, u) PROVE Goal
    BY <1>0, <1>7 DEF PostNotify, DutyStep
  <1>8. CASE PostAnswer(r)
    <2>1. /\ Answer(r) /\ Quietly
          /\ request[r].step # "notify" \/ Offline(r) = {}
      BY <1>8 DEF PostAnswer, Quietly, rows, object
    <2> QED
      BY <1>0, <2>1 DEF Answer, TypeOK, DutyStep, Quietly
  <1>9. CASE PostCursor(r) \/ \E u \in User, kind \in Kind : PostCheck(r, u, kind)
    BY <1>1, <1>2, <1>9 DEF PostCursor, PostCheck, rows
  <1>10. ASSUME Delete(r) \/ ChangeStatus(r) \/ MarkRead(r) PROVE Goal
    BY <1>1, <1>2, <1>3, <1>10
       DEF Delete, DeleteCheck, DeleteUpdate, DeleteBroadcast,
           ChangeStatus, StatusCheck, StatusUpdate, StatusBroadcast,
           MarkRead, ReadCheck, ReadUpsert, ReadBroadcast, rows
  <1>11. ASSUME ChangeMembers(r) PROVE Goal
    BY <1>1, <1>3, <1>11 DEF ChangeMembers, Unassign, Assign, Evict, Welcome, rows
  <1>12. CASE RequestLost(r)
    BY <1>0, <1>12 DEF RequestLost, Answer, TypeOK, DutyStep, rows
  <1> QED
    BY <1>4, <1>5, <1>6, <1>7, <1>8, <1>9, <1>10, <1>11, <1>12 DEF Rest, Post

LEMMA DutiesMove ==
  ASSUME IInv, MsgPosted, [Next]_vars
  PROVE  MsgPosted' /\ notified \subseteq notified' /\ \A r \in Request : DutyStep(r)
  <1>1. ASSUME NEW q \in Request, Rest(q)
        PROVE  MsgPosted' /\ notified \subseteq notified' /\ \A r \in Request : DutyStep(r)
    BY <1>1, DutyMoves DEF MsgPosted, DutyStep
  <1>2. ASSUME UNCHANGED <<request, notified>>
        PROVE  MsgPosted' /\ notified \subseteq notified' /\ \A r \in Request : DutyStep(r)
    BY <1>2 DEF MsgPosted, DutyStep
  <1>3. CASE Objects \/ Browser \/ UNCHANGED vars
    BY <1>2, <1>3 DEF Objects, Browser, Admit, Register, Quiet, CloseEvent, ReplaySelect,
       ReplaySend, Alarm, Restart, Connect, Sync, Frame, FrameRefused, Ping, Leave, rows, vars
  <1> QED
    BY <1>1, <1>3 DEF Next

LEMMA RefInvStep == RefInv /\ [Next]_vars => RefInv'
  <1> SUFFICES ASSUME RefInv, [Next]_vars PROVE RefInv'
    OBVIOUS
  <1>1. IInv' /\ WireStep /\ ReplaysPlain'
    BY IInvStep, NextWires DEF RefInv
  <1>2. NoneYet' /\ OnlineWereSent'
    BY <1>1, OnlineStep DEF RefInv
  <1>3. FreeUnowned' /\ MsgPosted'
    BY ConnMoves, DutiesMove DEF RefInv
  <1> QED
    BY <1>1, <1>2, <1>3 DEF RefInv

-----------------------------------------------------------------------------
(* The refinement, socket by socket and handler by handler.                *)

LEMMA PlainCarries ==
  ASSUME NEW old \in Seq(Payload), NEW x \in Seq(Payload), Plain(x)
  PROVE  LET new == old \o x IN
           /\ Len(new) >= Len(old) /\ SubSeq(new, 1, Len(old)) = old
           /\ \A i \in Len(old) + 1 .. Len(new) : new[i].type # "access_revoked"
  <1> DEFINE new == old \o x
  <1>1. Len(new) = Len(old) + Len(x) /\ Len(old) \in Nat /\ Len(x) \in Nat
    OBVIOUS
  <1>2. SubSeq(new, 1, Len(old)) = old
    OBVIOUS
  <1>3. ASSUME NEW i \in Len(old) + 1 .. Len(new) PROVE new[i].type # "access_revoked"
    <2>1. i - Len(old) \in DOMAIN x /\ new[i] = x[i - Len(old)]
      BY <1>1
    <2> QED
      BY <2>1 DEF Plain
  <1> QED
    BY <1>1, <1>2, <1>3

LEMMA SocketRefines ==
  ASSUME RefInv, IInv', WireStep, NEW s \in Socket, ConnStep(s), Enters(s)
  PROVE  \/ Promise!Rest(s) \/ Promise!Claim(s) \/ Promise!Open(s)
         \/ Promise!Carry(s) \/ Promise!End(s)
  <1>1. /\ wire[s] \in Seq(Payload)
        /\ conn[s].step \in {"free", "checked", "admitted", "open", "synced", "refused"}
        /\ conn[s].step = "free" => conn[s].user = Nobody
        /\ conn[s].step # "free" => conn[s].user # Nobody
        /\ s \in sessions => conn[s].step \in Accepted
        /\ s \in sessions' => conn'[s].step \in Accepted
    BY NobodyAssumption DEF RefInv, IInv, TypeOK, Sockets, Upgrade, FreeUnowned
  <1>2. CASE s \in sessions
    <2>1. conn'[s].user = conn[s].user /\ conn'[s].step \in Accepted
      BY <1>1, <1>2 DEF ConnStep, Accepted
    <2>2. CASE wire'[s] = wire[s]
      BY <1>2, <2>1, <2>2 DEF Promise!Rest, Promise!End, Phase, Accepted
    <2>3. CASE Extended(s)
      <3>1. PICK x \in Seq(Payload) : wire'[s] = wire[s] \o x /\ Plain(x)
        BY <2>3 DEF Extended
      <3>2. /\ Len(wire'[s]) >= Len(wire[s])
            /\ SubSeq(wire'[s], 1, Len(wire[s])) = wire[s]
            /\ \A i \in Len(wire[s]) + 1 .. Len(wire'[s]) :
                 wire'[s][i].type # "access_revoked"
        BY <1>1, <3>1, PlainCarries
      <3>3. Phase(s) = "live" /\ Phase(s)' = "live"
        BY <1>2, <2>3 DEF Phase, Extended
      <3> QED
        BY <2>1, <3>2, <3>3 DEF Promise!Carry
    <2>4. CASE Revoked(s)
      <3>1. Phase(s) = "live" /\ Phase(s)' = "over"
        BY <1>2, <2>1, <2>4 DEF Phase, Revoked, Accepted
      <3>2. /\ Len(wire'[s]) = Len(wire[s]) + 1
            /\ SubSeq(wire'[s], 1, Len(wire[s])) = wire[s]
            /\ wire'[s][Len(wire[s]) + 1] = AccessRevoked
        BY <1>1, <2>4 DEF Revoked
      <3>3. AccessRevoked.type = "access_revoked"
        BY DEF AccessRevoked
      <3> QED
        BY <2>1, <3>1, <3>2, <3>3 DEF Promise!End
    <2> QED
      BY <2>2, <2>3, <2>4 DEF WireStep
  <1>3. CASE s \notin sessions
    <2>1. wire'[s] = wire[s]
      BY <1>3 DEF WireStep
    <2>2. s \in sessions' => conn[s].step = "admitted"
      BY <1>3 DEF Enters
    <2>3. CASE conn[s].step = "free"
      BY <1>1, <1>3, <2>1, <2>2, <2>3 DEF Promise!Rest, Promise!Claim, Phase, ConnStep, Accepted
    <2>4. CASE conn[s].step \in {"checked", "admitted"}
      <3>1. conn'[s].user = conn[s].user /\ Phase(s) = "new"
        BY <1>3, <2>4 DEF ConnStep, Accepted, Phase
      <3> QED
        BY <1>1, <2>1, <2>4, <3>1 DEF Promise!Rest, Promise!Open, Phase
    <2>5. CASE conn[s].step \notin {"free", "checked", "admitted"}
      <3>1. conn'[s].user = conn[s].user /\ Phase(s) = "over" /\ Phase(s)' = "over"
        BY <1>1, <1>3, <2>2, <2>5 DEF ConnStep, Accepted, Phase
      <3> QED
        BY <2>1, <3>1 DEF Promise!Rest
    <2> QED
      BY <2>3, <2>4, <2>5
  <1> QED
    BY <1>2, <1>3

LEMMA ToldIsSent ==
  ASSUME NEW u, NEW m \in Nat, m >= 1
  PROVE  Promise!Told(u, m) <=> <<u, m>> \in notified \/ Sent(u, m)
  BY DEF Promise!Told, Sent, MessageOf

LEMMA ToldIsSentNext ==
  ASSUME NEW u, NEW m \in Nat, m >= 1
  PROVE  Promise!Told(u, m)' <=> <<u, m>> \in notified' \/ Sent(u, m)'
  BY DEF Promise!Told, Sent, MessageOf

(* The duty of a handler that stays in its loop shrinks to those whom      *)
(* nothing told yet; a handler enters the loop with a duty that nothing    *)
(* discharged, and leaves it without one unless it is lost.                *)
LEMMA HandlerRefines ==
  ASSUME RefInv, WireStep, notified \subseteq notified', NEW r \in Request, DutyStep(r),
         MsgPosted', IInv'
  PROVE  Promise!Discharge(r) \/ Promise!Accept(r) \/ Promise!Lose(r)
  <1>0. /\ request[r] \in Local /\ request[r].msg \in Nat
        /\ request'[r].msg \in Nat /\ request'[r].members \subseteq User
        /\ request[r].members \subseteq User
        /\ request[r].step = "notify" => request[r].msg >= 1
        /\ request'[r].step = "notify" => request'[r].msg >= 1
    BY DEF RefInv, IInv, TypeOK, Local, MsgPosted
  <1>1. CASE request[r].step # "notify" /\ request'[r].step # "notify"
    BY <1>1 DEF Promise!Discharge, Duty
  <1>2. CASE request[r].step = "notify" /\ request'[r] = request[r]
    <2>0. PICK n \in Nat : n = request[r].msg /\ n = request'[r].msg /\ n >= 1
      BY <1>0, <1>2
    <2>1. \A u \in User : Promise!Told(u, n)' <=> <<u, n>> \in notified' \/ Sent(u, n)'
      BY <2>0, ToldIsSentNext
    <2>2. \A u \in User : Sent(u, n) => Sent(u, n)'
      BY SentStays DEF RefInv
    <2> DEFINE Due(u) == /\ u \in request[r].members \ {request[r].user}
                         /\ ~Sent(u, n) /\ <<u, n>> \notin notified
    <2> DEFINE DueNext(u) == /\ u \in request[r].members \ {request[r].user}
                             /\ ~Sent(u, n)' /\ <<u, n>> \notin notified'
    <2>3. \A d : d \in Duty(r) <=> \E u \in User : d = <<u, n>> /\ Due(u)
      BY <1>0, <1>2, <2>0 DEF Duty
    <2>4. \A d : d \in Duty(r)' <=> \E u \in User : d = <<u, n>> /\ DueNext(u)
      BY <1>0, <1>2, <2>0 DEF Duty, Sent
    <2>5. \A u \in User : DueNext(u) <=> Due(u) /\ ~Promise!Told(u, n)'
      BY <2>1, <2>2
    <2> HIDE DEF Due, DueNext
    <2>6. \A d : d \in Duty(r)' <=> d \in Duty(r) /\ ~Promise!Told(d[1], d[2])'
      <3> SUFFICES ASSUME NEW d
                   PROVE  d \in Duty(r)' <=> d \in Duty(r) /\ ~Promise!Told(d[1], d[2])'
        OBVIOUS
      <3>1. ASSUME NEW u \in User, d = <<u, n>>
            PROVE  d \in Duty(r)' <=> d \in Duty(r) /\ ~Promise!Told(d[1], d[2])'
        <4>1. d[1] = u /\ d[2] = n
          BY <3>1
        <4>2. Promise!Told(d[1], d[2])' <=> Promise!Told(u, n)'
          BY <4>1
        <4>3. d \in Duty(r) <=> Due(u)
          BY <2>3, <3>1, <4>1
        <4>4. d \in Duty(r)' <=> DueNext(u)
          BY <2>4, <3>1, <4>1
        <4> QED
          BY <2>5, <4>2, <4>3, <4>4
      <3> QED
        BY <2>3, <2>4, <3>1
    <2> QED
      BY <2>6 DEF Promise!Discharge
  <1>3. CASE request[r].step # "notify" /\ request'[r].step = "notify" /\ Quietly
    <2>1. PICK n \in Nat : n = request'[r].msg /\ n >= 1
      BY <1>0, <1>3
    <2>2. Duty(r) = {}
      BY <1>3 DEF Duty
    <2>3. Duty(r)' = {<<u, n>> : u \in {v \in request'[r].members \ {request'[r].user} :
                                         ~Sent(v, n)' /\ <<v, n>> \notin notified'}}
      BY <1>3, <2>1 DEF Duty, Sent
    <2>4. \A u : Promise!Told(u, n)' <=> <<u, n>> \in notified' \/ Sent(u, n)'
      BY <2>1, ToldIsSentNext
    <2>5. CASE Duty(r)' = {}
      BY <2>2, <2>5 DEF Promise!Discharge
    <2>6. CASE Duty(r)' # {}
      <3>0. \A d \in Duty(r)' : \E u : d = <<u, n>> /\ ~Promise!Told(u, n)'
        BY <2>3, <2>4
      <3>1. n \in {d[2] : d \in Duty(r)'}
        <4>1. PICK d \in Duty(r)' : TRUE
          BY <2>6
        <4>2. PICK u : d = <<u, n>>
          BY <3>0
        <4> QED
          BY <4>1, <4>2
      <3>2. ASSUME NEW d \in Duty(r)' PROVE d[2] = n /\ ~Promise!Told(d[1], n)'
        <4>1. PICK u : d = <<u, n>> /\ ~Promise!Told(u, n)'
          BY <3>0
        <4>2. d[1] = u /\ d[2] = n
          BY <4>1
        <4> QED
          BY <4>1, <4>2
      <3> QED
        BY <2>2, <3>1, <3>2 DEF Promise!Accept
    <2> QED
      BY <2>5, <2>6
  <1>4. CASE request[r].step = "notify" /\ request'[r].step = "idle"
    <2>1. Duty(r)' = {}
      BY <1>4 DEF Duty
    <2>2. CASE "request" \in Fault
      BY <2>1, <2>2 DEF Promise!Lose
    <2>3. CASE Offline(r) = {} /\ Quietly
      <3>1. \A u \in request[r].online : Sent(u, request[r].msg)
        BY <1>4 DEF RefInv, OnlineWereSent
      <3>2. Duty(r) = {}
        BY <1>4, <2>3, <3>1 DEF Duty, Offline
      <3> QED
        BY <2>1, <3>2 DEF Promise!Discharge
    <2> QED
      BY <1>4, <2>2, <2>3 DEF DutyStep
  <1> QED
    BY <1>1, <1>2, <1>3, <1>4 DEF DutyStep

LEMMA PromiseInit == Init => Promise!Init
  BY DEF Init, Promise!Init, Phase, Duty, Idle

LEMMA PromiseStutter == UNCHANGED vars => UNCHANGED Promise!vars
  BY DEF vars, Promise!vars, Phase, Duty, rows, object, Sent

LEMMA PromiseNext == RefInv /\ [Next]_vars => [Promise!Next]_(Promise!vars)
  <1> SUFFICES ASSUME RefInv, Next PROVE Promise!Next
    BY PromiseStutter
  <1>1. RefInv' /\ IInv' /\ MsgPosted'
    BY RefInvStep DEF RefInv
  <1>2. WireStep
    BY NextWires DEF RefInv
  <1>3. \A s \in Socket : ConnStep(s) /\ Enters(s)
    BY ConnMoves DEF RefInv
  <1>4. notified \subseteq notified' /\ \A r \in Request : DutyStep(r)
    BY DutiesMove DEF RefInv
  <1>5. Promise!Sockets
    BY <1>1, <1>2, <1>3, SocketRefines DEF Promise!Sockets
  <1>6. Promise!Handlers
    BY <1>1, <1>2, <1>4, HandlerRefines DEF Promise!Handlers
  <1> QED
    BY <1>4, <1>5, <1>6 DEF Promise!Next

(* The room keeps the promise of Delivery (routes/chat.ts:687-817,         *)
(* ChatRoomDO.ts:103-205): sockets live once and carry nothing after a     *)
(* revocation or their end, and the handler of a message rests only when   *)
(* every member was told, or when it is lost.                              *)
THEOREM KeepsPromiseHolds == Spec => KeepsPromise
  <1>1. Init => RefInv
    BY InitIInv DEF Init, RefInv, ReplaysPlain, NoneYet, OnlineWereSent, FreeUnowned,
                    MsgPosted, Idle
  <1> QED
    BY <1>1, PromiseInit, RefInvStep, PromiseNext, PTL DEF Spec, KeepsPromise, Promise!Spec

-----------------------------------------------------------------------------
(*-------------------------------------------------------------------------*)
(* The clients of the room.                                                *)
(*-------------------------------------------------------------------------*)

(* What one step does to the messages and to the handlers.                 *)
Posting == {"cursor", "post"}
Posted == Posting \cup {"resolve", "notify", "answer"}

SameSenders ==
  /\ Len(messages') = Len(messages)
  /\ \A m \in DOMAIN messages : messages'[m].sender = messages[m].sender

Inserts(r) ==
  /\ request[r].step = "insert" /\ request'[r].step \in Posting
  /\ request'[r].user = request[r].user /\ request'[r].msg = Len(messages) + 1
  /\ Len(messages') = Len(messages) + 1
  /\ messages'[Len(messages) + 1].sender = request[r].user
  /\ \A m \in DOMAIN messages : messages'[m].sender = messages[m].sender

Starts(r) ==
  /\ request[r].step = "idle" /\ request'[r].step \notin Posting \cup {"resolve", "notify"}

Proceeds(r) ==
  /\ request'[r].user = request[r].user /\ request'[r].msg = request[r].msg
  /\ request[r].step \notin {"idle", "insert"} /\ request'[r].step # "insert"
  /\ request[r].step \in Posted => request'[r].step \in Posted
  /\ request'[r].step \in Posting => request[r].step \in Posting

HandlerStep(r) ==
  /\ \A q \in Request \ {r} : request'[q] = request[q]
  /\ \/ Inserts(r)
     \/ SameSenders /\ (Starts(r) \/ Proceeds(r) \/ request'[r].step = "idle")

LEMMA HandlerSteps ==
  ASSUME IInv, NEW r \in Request, Rest(r)
  PROVE  HandlerStep(r)
<1> DEFINE Goal == /\ \A q \in Request \ {r} : request'[q] = request[q]
                   /\ Starts(r) \/ Proceeds(r) \/ request'[r].step = "idle"
<1>0. /\ TypeOK /\ request[r] \in Local /\ Idle.step = "idle" /\ messages \in Seq(Message)
      /\ Len(messages) \in Nat
  BY DEF IInv, TypeOK, Idle
<1>s. ASSUME messages' = messages PROVE SameSenders
  BY <1>s DEF SameSenders
<1>1. ASSUME NEW u, NEW arg, NEW m, NEW step, Start(r, u, arg, m, step),
             step \notin Posting \cup {"resolve", "notify"}
      PROVE  Goal
  BY <1>0, <1>1 DEF Start, TypeOK, Starts
<1>2. ASSUME NEW step \in Step, request[r].step \notin {"idle", "insert"}, step # "insert",
             Continue(r, step), request[r].step \in Posted => step \in Posted,
             step \in Posting => request[r].step \in Posting
      PROVE  Goal
  BY <1>0, <1>2 DEF Continue, TypeOK, Local, Proceeds
<1>3. ASSUME Answer(r) PROVE Goal
  BY <1>0, <1>3 DEF Answer, TypeOK
<1>4. CASE PostInsert(r)
  <2> DEFINE next == AfterInsert(request[r].arg)
             new == [request[r] EXCEPT !.msg = Len(messages) + 1, !.step = next]
             row == [sender |-> request[r].user, deleted |-> FALSE]
  <2>1. request' = [request EXCEPT ![r] = new] /\ messages' = Append(messages, row)
        /\ request[r].step = "insert"
    BY <1>4 DEF PostInsert
  <2>2. next \in Posting
    BY DEF AfterInsert, Posting
  <2> HIDE DEF next
  <2>3. new.step \in Posting /\ new.user = request[r].user /\ new.msg = Len(messages) + 1
    BY <1>0, <2>2 DEF Local
  <2>4. row.sender = request[r].user
    OBVIOUS
  <2> HIDE DEF new, row
  <2>5. \A q \in Request : request'[q] = IF q = r THEN new ELSE request[q]
    BY <1>0, <2>1 DEF TypeOK
  <2>6. /\ Len(messages') = Len(messages) + 1 /\ messages'[Len(messages) + 1] = row
        /\ \A m \in DOMAIN messages : messages'[m] = messages[m]
    BY <1>0, <2>1
  <2> QED BY <2>1, <2>3, <2>4, <2>5, <2>6 DEF HandlerStep, Inserts
<1>5. CASE PostBroadcast(r)
  <2>0. PICK next : next = AfterBroadcast(request[r].arg)
    OBVIOUS
  <2>1. next \in {"resolve", "answer"} /\ request[r].step = "post" /\ messages' = messages
    BY <1>5, <2>0 DEF PostBroadcast, AfterBroadcast, rows
  <2>2. CASE Continue(r, next)
    <3>1. next \in Step
      BY <2>1 DEF Step
    <3>2. Goal
      BY <1>2, <2>1, <2>2, <3>1 DEF Posting, Posted
    <3> QED BY <1>s, <2>1, <3>2 DEF HandlerStep
  <2>3. ASSUME NEW online, request' = [request EXCEPT ![r].online = online, ![r].step = next]
        PROVE  Goal
    <3>1. \A q \in Request \ {r} : request'[q] = request[q]
      BY <1>0, <2>3 DEF TypeOK
    <3>2. request'[r] = [request[r] EXCEPT !.online = online, !.step = next]
      BY <1>0, <2>3 DEF TypeOK
    <3>3. request'[r].step = next /\ request'[r].msg = request[r].msg
          /\ request'[r].user = request[r].user
      BY <1>0, <3>2 DEF Local
    <3> QED BY <2>1, <3>1, <3>3 DEF Proceeds, Posting, Posted
  <2> QED BY <1>5, <1>s, <2>0, <2>1, <2>2, <2>3 DEF PostBroadcast, HandlerStep
<1>6. CASE PostResolve(r)
  <2> DEFINE new == [request[r] EXCEPT !.members = Member, !.step = "notify"]
  <2>1. request' = [request EXCEPT ![r] = new] /\ request[r].step = "resolve" /\ messages' = messages
    BY <1>6 DEF PostResolve, rows
  <2>2. new.msg = request[r].msg /\ new.user = request[r].user /\ new.step = "notify"
    BY <1>0 DEF Local
  <2> HIDE DEF new
  <2>3. \A q \in Request : request'[q] = IF q = r THEN new ELSE request[q]
    BY <1>0, <2>1 DEF TypeOK
  <2> QED BY <1>s, <2>1, <2>2, <2>3 DEF HandlerStep, Proceeds, Posting, Posted
<1>7. ASSUME NEW u \in User, PostNotify(r, u) PROVE HandlerStep(r)
  <2>1. request' = request /\ messages' = messages /\ request[r].step = "notify"
    BY <1>7 DEF PostNotify
  <2> QED BY <1>s, <2>1 DEF HandlerStep, Proceeds, Posting, Posted
<1>8. CASE PostCursor(r) \/ PostAnswer(r) \/ \E u \in User, kind \in Kind : PostCheck(r, u, kind)
  <2>1. CASE PostCursor(r)
    <3>1. Continue(r, "post") /\ request[r].step = "cursor" /\ messages' = messages
      BY <2>1 DEF PostCursor
    <3>2. Goal
      BY <1>2, <3>1 DEF Posting, Posted, Step
    <3> QED BY <1>s, <3>1, <3>2 DEF HandlerStep
  <2>2. CASE PostAnswer(r)
    BY <1>3, <1>s, <2>2 DEF PostAnswer, rows, HandlerStep
  <2>3. CASE \E u \in User, kind \in Kind : PostCheck(r, u, kind)
    BY <1>1, <1>s, <2>3 DEF PostCheck, rows, HandlerStep, Posting
  <2> QED BY <1>8, <2>1, <2>2, <2>3
<1>9. ASSUME Delete(r) PROVE HandlerStep(r)
  <2>1. CASE DeleteUpdate(r)
    <3>1. Continue(r, "delete_cast") /\ request[r].step = "delete"
      BY <2>1 DEF DeleteUpdate
    <3>2. Goal
      BY <1>2, <3>1 DEF Posting, Posted, Step
    <3>3. messages' = [messages EXCEPT ![request[r].msg].deleted = TRUE]
      BY <2>1 DEF DeleteUpdate
    <3>4. \A m \in DOMAIN messages : messages[m] \in Message
      BY <1>0
    <3>5. \A m \in DOMAIN messages : messages'[m].sender = messages[m].sender
      BY <3>3, <3>4 DEF Message
    <3>6. Len(messages') = Len(messages)
      BY <1>0, <3>3
    <3> QED BY <3>2, <3>5, <3>6 DEF HandlerStep, SameSenders
  <2>2. CASE ~DeleteUpdate(r)
    BY <1>1, <1>3, <1>9, <1>s, <2>2
       DEF Delete, DeleteCheck, DeleteBroadcast, rows, HandlerStep, Posting
  <2> QED BY <2>1, <2>2
<1>10. ASSUME ChangeStatus(r) \/ MarkRead(r) PROVE HandlerStep(r)
  <2>1. messages' = messages
    BY <1>10 DEF ChangeStatus, StatusCheck, StatusUpdate, StatusBroadcast,
                 MarkRead, ReadCheck, ReadUpsert, ReadBroadcast, rows
  <2>2. Goal
    BY <1>1, <1>2, <1>3, <1>10
       DEF ChangeStatus, StatusCheck, StatusUpdate, StatusBroadcast,
           MarkRead, ReadCheck, ReadUpsert, ReadBroadcast, Posting, Posted, Step
  <2> QED BY <1>s, <2>1, <2>2 DEF HandlerStep
<1>11. ASSUME ChangeMembers(r) PROVE HandlerStep(r)
  <2>1. messages' = messages
    BY <1>11 DEF ChangeMembers, Unassign, Assign, Evict, Welcome, rows
  <2>2. Goal
    BY <1>1, <1>3, <1>11 DEF ChangeMembers, Unassign, Assign, Evict, Welcome, Posting
  <2> QED BY <1>s, <2>1, <2>2 DEF HandlerStep
<1>12. CASE RequestLost(r)
  BY <1>3, <1>s, <1>12 DEF RequestLost, rows, HandlerStep
<1> QED
  BY <1>4, <1>5, <1>6, <1>7, <1>8, <1>9, <1>10, <1>11, <1>12 DEF Rest, Post

(* The steps in which no handler takes part.                               *)
LEMMA OtherSteps ==
  ASSUME Objects \/ Browser \/ UNCHANGED vars
  PROVE  UNCHANGED <<messages, request>>
BY DEF Objects, Browser, Admit, Register, Quiet, CloseEvent, ReplaySelect,
       ReplaySend, Alarm, Restart, Connect, Sync, Frame, FrameRefused, Ping, Leave, rows, vars

-----------------------------------------------------------------------------
(* What one step sends on a socket: nothing that announces a message, the  *)
(* broadcast of a handler, or the rows of a replay.                        *)
Silence(x) == \A i \in DOMAIN x : x[i].type # "new_message"

Brings(s, x) ==
  /\ x \in Seq(Payload)
  /\ \/ Silence(x)
     \/ \E r \in Request : request[r].step = "post" /\ x = <<NewMessage(request[r].msg, TRUE, TRUE)>>
     \/ s \in sessions /\ \E p \in replays : p.socket = s /\ p.step = "send" /\ x = p.rows

Grows(s) == \E x : Brings(s, x) /\ wire'[s] = wire[s] \o x

Growth == \A s \in Socket : Grows(s)

LEMMA SilentGrowth ==
  ASSUME TypeOK, NEW s \in Socket, NEW x \in Seq(Payload), Silence(x), wire'[s] = wire[s] \o x
  PROVE  Grows(s)
BY DEF Grows, Brings

LEMMA NoGrowth ==
  ASSUME TypeOK, NEW s \in Socket, wire'[s] = wire[s]
  PROVE  Grows(s)
<1>1. wire[s] \in Seq(Payload) /\ wire[s] = wire[s] \o <<>>
  BY DEF TypeOK
<1>2. <<>> \in Seq(Payload) /\ Silence(<<>>)
  BY DEF Silence
<1> QED BY <1>1, <1>2, SilentGrowth

LEMMA CastGrowth ==
  ASSUME TypeOK, NEW x \in Seq(Payload),
         Silence(x) \/ \E r \in Request : /\ request[r].step = "post"
                                          /\ x = <<NewMessage(request[r].msg, TRUE, TRUE)>>,
         Broadcast(sessions, x) \/ CallBroadcast(x) \/ UNCHANGED object
  PROVE  Growth
<1> SUFFICES ASSUME NEW s \in Socket PROVE Grows(s)
  BY DEF Growth
<1>1. CASE wire'[s] = wire[s]
  BY <1>1, NoGrowth
<1>2. CASE wire'[s] = wire[s] \o x
  BY <1>2 DEF Grows, Brings
<1> QED BY <1>1, <1>2 DEF CallBroadcast, Broadcast, object

LEMMA RestGrowth ==
  ASSUME IInv, NEW r \in Request, Rest(r)
  PROVE  Growth
<1>0. TypeOK /\ request[r].msg \in Nat
  BY DEF IInv, TypeOK, Local
<1>a. <<>> \in Seq(Payload) /\ Silence(<<>>)
  BY DEF Silence
<1>b. ASSUME CallBroadcast(<<>>) \/ UNCHANGED object PROVE Growth
  BY <1>0, <1>a, <1>b, CastGrowth
<1>1. ASSUME Post(r) PROVE Growth
  <2>1. CASE PostBroadcast(r)
    <3> DEFINE x == <<NewMessage(request[r].msg, TRUE, TRUE)>>
    <3>1. x \in Seq(Payload)
      BY <1>0, OnePayload
    <3>2. Broadcast(sessions, x) \/ UNCHANGED object
      BY <2>1 DEF PostBroadcast
    <3>3. request[r].step = "post"
      BY <2>1 DEF PostBroadcast
    <3>4. \E q \in Request : request[q].step = "post" /\ x = <<NewMessage(request[q].msg, TRUE, TRUE)>>
      BY <3>3
    <3> HIDE DEF x
    <3> QED BY <1>0, <3>1, <3>2, <3>4, CastGrowth
  <2>2. CASE ~PostBroadcast(r)
    BY <1>1, <1>b, <2>2 DEF Post, PostCheck, PostInsert, PostCursor, PostResolve, PostNotify, PostAnswer
  <2> QED BY <2>1, <2>2
<1>2. ASSUME Delete(r) PROVE Growth
  <2>1. CASE DeleteBroadcast(r)
    <3> DEFINE x == <<MessageDeleted(request[r].msg)>>
    <3>1. x \in Seq(Payload)
      BY <1>0, PayloadTypes
    <3>2. Silence(x)
      BY DEF Silence, MessageDeleted
    <3>3. CallBroadcast(x)
      BY <2>1 DEF DeleteBroadcast
    <3> HIDE DEF x
    <3> QED BY <1>0, <3>1, <3>2, <3>3, CastGrowth
  <2>2. CASE ~DeleteBroadcast(r)
    BY <1>2, <1>b, <2>2 DEF Delete, DeleteCheck, DeleteUpdate
  <2> QED BY <2>1, <2>2
<1>3. ASSUME ChangeStatus(r) \/ MarkRead(r) PROVE Growth
  BY <1>3, <1>b DEF ChangeStatus, StatusCheck, StatusUpdate, StatusBroadcast,
                    MarkRead, ReadCheck, ReadUpsert, ReadBroadcast
<1>4. ASSUME ChangeMembers(r) PROVE Growth
  <2>1. CASE Evict(r)
    <3> SUFFICES ASSUME NEW s \in Socket PROVE Grows(s)
      BY DEF Growth
    <3>1. wire'[s] = wire[s] \/ wire'[s] = Append(wire[s], AccessRevoked)
      BY <2>1 DEF Evict, object
    <3>2. <<AccessRevoked>> \in Seq(Payload) /\ Silence(<<AccessRevoked>>)
      BY PayloadTypes DEF Silence, AccessRevoked
    <3>3. wire[s] \in Seq(Payload) /\ AccessRevoked \in Payload
      BY <1>0, PayloadTypes DEF TypeOK
    <3>4. Append(wire[s], AccessRevoked) = wire[s] \o <<AccessRevoked>>
      BY <3>3
    <3> QED BY <1>0, <3>1, <3>2, <3>4, NoGrowth, SilentGrowth
  <2>2. CASE ~Evict(r)
    BY <1>4, <1>b, <2>2 DEF ChangeMembers, Unassign, Assign, Welcome
  <2> QED BY <2>1, <2>2
<1> QED BY <1>1, <1>2, <1>3, <1>4, <1>b DEF Rest, RequestLost

LEMMA OtherGrowth ==
  ASSUME IInv, Objects \/ Browser \/ UNCHANGED vars
  PROVE  Growth
<1> SUFFICES ASSUME NEW s \in Socket PROVE Grows(s)
  BY DEF Growth
<1>0. TypeOK /\ wire[s] \in Seq(Payload)
  BY DEF IInv, TypeOK
<1>1. CASE wire' = wire
  BY <1>0, <1>1, NoGrowth
<1>2. ASSUME NEW p \in replays, ReplaySend(p) PROVE Grows(s)
  <2>1. p.socket \in Socket /\ p.rows \in Seq(Payload)
    BY <1>0 DEF TypeOK, Replay
  <2>2. CASE wire'[s] = wire[s]
    BY <1>0, <2>2, NoGrowth
  <2>3. CASE wire'[s] # wire[s]
    <3>1. p.socket = s /\ s \in sessions /\ wire'[s] = wire[s] \o p.rows /\ p.step = "send"
      BY <1>0, <1>2, <2>1, <2>3 DEF ReplaySend, TypeOK
    <3> QED BY <2>1, <3>1 DEF Grows, Brings
  <2> QED BY <2>2, <2>3
<1>3. ASSUME NEW q \in Socket, FrameRefused(q) PROVE Grows(s)
  <2>1. wire'[s] = wire[s] \/ wire'[s] = wire[s] \o <<AccessRevoked>>
    BY <1>0, <1>3, PayloadTypes DEF FrameRefused, TypeOK
  <2>2. <<AccessRevoked>> \in Seq(Payload) /\ Silence(<<AccessRevoked>>)
    BY PayloadTypes DEF Silence, AccessRevoked
  <2> QED BY <1>0, <2>1, <2>2, NoGrowth, SilentGrowth
<1>4. CASE Objects
  BY <1>1, <1>2, <1>4 DEF Objects, Admit, Register, Quiet, CloseEvent, ReplaySelect, Alarm, Restart
<1>5. CASE Browser
  BY <1>1, <1>3, <1>5 DEF Browser, Connect, Sync, Frame, Ping, Leave
<1>6. CASE UNCHANGED vars
  BY <1>1, <1>6 DEF vars, object
<1> QED BY <1>4, <1>5, <1>6

LEMMA NextGrowth ==
  ASSUME IInv, [Next]_vars
  PROVE  Growth
BY RestGrowth, OtherGrowth DEF Next

-----------------------------------------------------------------------------
(* Whatever announces a message announces one that is there: on a wire, in *)
(* the rows of a replay, or in a handler that has still to broadcast it.   *)
Announces(x) ==
  \A i \in DOMAIN x : x[i].type = "new_message" => x[i].msg \in DOMAIN messages

Messaged ==
  /\ \A s \in Socket : Announces(wire[s])
  /\ \A p \in replays : /\ Announces(p.rows)
                        /\ \A i \in DOMAIN p.rows : p.rows[i].type = "new_message"
  /\ \A r \in Request : request[r].step \in Posting => request[r].msg \in DOMAIN messages

(* A replay belongs to a socket that was opened with a last message.       *)
ReplayOf ==
  \A p \in replays : /\ conn[p.socket].step \in Accepted /\ conn[p.socket].after # 0
                     /\ p.after = conn[p.socket].after

LEMMA Kept ==
  ASSUME IInv, [Next]_vars
  PROVE  /\ Len(messages') \in Nat /\ Len(messages) <= Len(messages')
         /\ DOMAIN messages' = 1 .. Len(messages') /\ DOMAIN messages = 1 .. Len(messages)
         /\ \A m \in DOMAIN messages :
              m \in DOMAIN messages' /\ messages'[m].sender = messages[m].sender
<1>1. Len(messages') \in Nat /\ DOMAIN messages' = 1 .. Len(messages')
  BY IInvStep DEF IInv, TypeOK
<1>2. Len(messages) \in Nat /\ DOMAIN messages = 1 .. Len(messages)
  BY DEF IInv, TypeOK
<1>3. ASSUME NEW r \in Request, Rest(r)
      PROVE  Len(messages) <= Len(messages')
             /\ \A m \in DOMAIN messages : messages'[m].sender = messages[m].sender
  BY <1>2, <1>3, HandlerSteps DEF HandlerStep, Inserts, SameSenders
<1>4. CASE messages' = messages
  BY <1>1, <1>2, <1>4
<1> QED BY <1>1, <1>2, <1>3, <1>4, OtherSteps DEF Next

LEMMA SilentRows ==
  ASSUME IInv, NEW p \in replays, p.step = "select"
  PROVE  /\ DOMAIN Missed(p) \subseteq Nat
         /\ \A i \in DOMAIN Missed(p) : /\ Missed(p)[i].type = "new_message"
                                        /\ Missed(p)[i].msg \in DOMAIN messages
                                        /\ Missed(p)[i].msg = p.after + i
         /\ \A m \in DOMAIN messages :
              p.after < m /\ m <= p.after + ReplayLimit =>
                m - p.after \in DOMAIN Missed(p) /\ Missed(p)[m - p.after].msg = m
<1>1. p.after \in Nat /\ Len(messages) \in Nat /\ DOMAIN messages = 1 .. Len(messages)
  BY DEF IInv, TypeOK, Replay
<1> QED BY <1>1, BoundsAssumption DEF Missed, NewMessage

LEMMA MessagedStep ==
  ASSUME IInv, Messaged, [Next]_vars
  PROVE  Messaged'
<1>0. TypeOK
  BY DEF IInv
<1>1. DOMAIN messages \subseteq DOMAIN messages'
  BY Kept
<1>2. ASSUME NEW s \in Socket PROVE Announces(wire[s])'
  <2>1. PICK x : Brings(s, x) /\ wire'[s] = wire[s] \o x
    BY NextGrowth DEF Growth, Grows
  <2>2. x \in Seq(Payload) /\ wire[s] \in Seq(Payload)
    BY <1>0, <2>1 DEF Brings, TypeOK
  <2>3. Announces(x)
    <3>1. CASE Silence(x)
      BY <3>1 DEF Silence, Announces
    <3>2. ASSUME NEW r \in Request, request[r].step = "post", x = <<NewMessage(request[r].msg, TRUE, TRUE)>>
          PROVE  Announces(x)
      BY <3>2 DEF Announces, NewMessage, Messaged, Posting
    <3>3. ASSUME NEW p \in replays, x = p.rows PROVE Announces(x)
      BY <3>3 DEF Messaged
    <3> QED BY <2>1, <3>1, <3>2, <3>3 DEF Brings
  <2>4. SUFFICES ASSUME NEW i \in DOMAIN wire'[s], wire'[s][i].type = "new_message"
                 PROVE  wire'[s][i].msg \in DOMAIN messages
    BY <1>1 DEF Announces
  <2>5. CASE i \in DOMAIN wire[s]
    BY <2>1, <2>2, <2>4, <2>5 DEF Messaged, Announces
  <2>6. CASE i \notin DOMAIN wire[s]
    <3>1. i - Len(wire[s]) \in DOMAIN x /\ wire'[s][i] = x[i - Len(wire[s])]
      BY <2>1, <2>2, <2>6
    <3> QED BY <2>3, <2>4, <3>1 DEF Announces
  <2> QED BY <2>5, <2>6
<1>3. ASSUME NEW r \in Request, request'[r].step \in Posting
      PROVE  request'[r].msg \in DOMAIN messages'
  <2>1. CASE request'[r] = request[r]
    BY <1>1, <1>3, <2>1 DEF Messaged
  <2>2. ASSUME NEW q \in Request, Rest(q) PROVE request'[r].msg \in DOMAIN messages'
    <3>1. HandlerStep(q)
      BY <2>2, HandlerSteps
    <3>2. CASE r # q
      BY <2>1, <3>1, <3>2 DEF HandlerStep
    <3>3. CASE r = q /\ Inserts(r)
      BY <3>3, Kept DEF Inserts
    <3>4. CASE r = q /\ Proceeds(r)
      BY <1>1, <1>3, <3>4 DEF Proceeds, Messaged
    <3> QED BY <1>3, <3>1, <3>2, <3>3, <3>4 DEF HandlerStep, Starts, Posting
  <2> QED BY <2>1, <2>2, OtherSteps DEF Next
<1>4. ASSUME NEW p \in replays'
      PROVE  Announces(p.rows)' /\ \A i \in DOMAIN p.rows : p.rows[i].type = "new_message"
  <2>1. CASE p \in replays \/ p.rows = <<>>
    BY <1>1, <2>1 DEF Messaged, Announces
  <2>2. CASE p \notin replays /\ p.rows # <<>>
    <3>1. PICK q \in replays : q.step = "select" /\ p = [q EXCEPT !.step = "send", !.rows = Missed(q)]
      <4>1. CASE \E r \in Request : Rest(r)
        BY <2>2, <4>1, RestWires
      <4>2. CASE Objects
        <5>1. ASSUME NEW s \in Socket, Register(s) PROVE FALSE
          BY <2>2, <5>1 DEF Register
        <5>2. CASE \E q \in replays : ReplaySelect(q)
          BY <2>2, <5>2 DEF ReplaySelect
        <5> QED BY <2>2, <4>2, <5>1, <5>2 DEF Objects, Admit, Quiet, CloseEvent, ReplaySend, Alarm, Restart
      <4>3. CASE Browser
        <5>1. ASSUME NEW s \in Socket, Sync(s) PROVE FALSE
          BY <2>2, <5>1 DEF Sync
        <5> QED BY <2>2, <4>3, <5>1 DEF Browser, Connect, Frame, FrameRefused, Ping, Leave
      <4>4. CASE UNCHANGED vars
        BY <2>2, <4>4 DEF vars, object
      <4> QED BY <4>1, <4>2, <4>3, <4>4 DEF Next
    <3>2. p.rows = Missed(q)
      BY <1>0, <3>1 DEF TypeOK, Replay
    <3> QED BY <1>1, <3>1, <3>2, SilentRows DEF Announces
  <2> QED BY <2>1, <2>2
<1> QED BY <1>2, <1>3, <1>4 DEF Messaged

-----------------------------------------------------------------------------
(* What one step does to a connection: whose it is and what it asks for    *)
(* never change once it is known.                                          *)
SameConn(s) ==
  /\ conn'[s].step # "free"
  /\ conn'[s].user = conn[s].user /\ conn'[s].after = conn[s].after
  /\ conn[s].step \in Accepted => conn'[s].step \in Accepted
  /\ conn'[s].step = "synced" => \/ conn[s].step = "synced"
                                 \/ Sync(s)
  /\ s \in sessions' /\ s \notin sessions => conn'[s].step = "open"

LEMMA ConnKept ==
  ASSUME IInv, [Next]_vars, NEW s \in Socket, conn[s].step # "free"
  PROVE  SameConn(s)
<1>0. TypeOK /\ sessions \subseteq Socket /\ conn[s] \in Upgrade
      /\ (s \in sessions => conn[s].step \in Accepted)
  BY DEF IInv, TypeOK, Sockets
<1>1. CASE conn'[s] = conn[s] /\ (s \in sessions' => s \in sessions)
  BY <1>0, <1>1 DEF SameConn
<1>2. ASSUME NEW step \in {"admitted", "refused", "open", "synced"},
             conn' = [conn EXCEPT ![s].step = step],
             conn[s].step \in Accepted => step \in Accepted,
             step = "synced" => Sync(s),
             s \in sessions' /\ s \notin sessions => step = "open"
      PROVE  SameConn(s)
  <2>1. conn'[s] = [conn[s] EXCEPT !.step = step]
    BY <1>0, <1>2 DEF TypeOK
  <2>2. conn'[s].step = step /\ conn'[s].user = conn[s].user /\ conn'[s].after = conn[s].after
    BY <1>0, <2>1 DEF Upgrade
  <2> QED BY <1>2, <2>2 DEF SameConn
<1>3. ASSUME NEW q \in Socket, Admit(q) PROVE SameConn(s)
  <2>1. CASE q # s
    <3>1. conn'[s] = conn[s] /\ sessions' = sessions
      BY <1>0, <1>3, <2>1 DEF Admit, TypeOK
    <3> QED BY <1>1, <3>1
  <2>2. CASE q = s
    <3>1. sessions' = sessions /\ conn[s].step = "checked"
          /\ \E step \in {"admitted", "refused"} : conn' = [conn EXCEPT ![s].step = step]
      BY <1>3, <2>2 DEF Admit
    <3> QED BY <1>0, <1>2, <3>1 DEF Accepted
  <2> QED BY <2>1, <2>2
<1>4. ASSUME NEW q \in Socket, Register(q) PROVE SameConn(s)
  <2>0. sessions' \subseteq sessions \cup {q}
    BY <1>4 DEF Register, Reach
  <2>1. CASE q # s
    <3>1. conn'[s] = conn[s]
      BY <1>0, <1>4, <2>1 DEF Register, TypeOK
    <3> QED BY <1>1, <2>0, <2>1, <3>1
  <2>2. CASE q = s
    <3>1. conn[s].step = "admitted" /\ conn' = [conn EXCEPT ![s].step = "open"]
      BY <1>4, <2>2 DEF Register
    <3> QED BY <1>0, <1>2, <3>1 DEF Accepted
  <2> QED BY <2>1, <2>2
<1>5. ASSUME NEW q \in Socket, Sync(q) PROVE SameConn(s)
  <2>0. sessions' = sessions /\ q \in sessions
    BY <1>5 DEF Sync, FrameAccepted
  <2>1. CASE q # s
    <3>1. conn'[s] = conn[s]
      BY <1>0, <1>5, <2>1 DEF Sync, TypeOK
    <3> QED BY <1>1, <2>0, <3>1
  <2>2. CASE q = s
    <3>1. conn[s].step = "open" /\ conn' = [conn EXCEPT ![s].step = "synced"]
      BY <1>5, <2>2 DEF Sync
    <3> QED BY <1>0, <1>2, <1>5, <2>0, <2>2, <3>1 DEF Accepted
  <2> QED BY <2>1, <2>2
<1>6. CASE Restart
  <2>1. sessions' = {}
        /\ conn'[s] = IF conn[s].step \in {"checked", "admitted"}
                      THEN [conn[s] EXCEPT !.step = "refused"] ELSE conn[s]
    BY <1>6 DEF Restart
  <2> QED BY <1>0, <2>1 DEF SameConn, Accepted, Upgrade
<1>7. ASSUME NEW q \in Socket, NEW u \in User, NEW after \in 0 .. Len(messages), Connect(q, u, after)
      PROVE  SameConn(s)
  BY <1>0, <1>1, <1>7 DEF Connect, TypeOK
<1>8. ASSUME NEW r \in Request, Rest(r) PROVE SameConn(s)
  BY <1>1, <1>8, RestConn
<1>9. CASE Objects
  <2>1. ASSUME UNCHANGED conn, sessions' \subseteq sessions PROVE SameConn(s)
    BY <1>1, <2>1
  <2>2. CASE \E q \in Socket : Quiet(q) \/ CloseEvent(q)
    BY <2>1, <2>2 DEF Quiet, CloseEvent, Reach
  <2>3. CASE \E p \in replays : ReplaySelect(p) \/ ReplaySend(p)
    BY <2>1, <2>3 DEF ReplaySelect, ReplaySend
  <2>4. CASE Alarm
    BY <2>1, <2>4 DEF Alarm, Reach
  <2> QED BY <1>3, <1>4, <1>6, <1>9, <2>2, <2>3, <2>4 DEF Objects
<1>10. CASE Browser
  <2>1. ASSUME UNCHANGED conn, sessions' \subseteq sessions PROVE SameConn(s)
    BY <1>1, <2>1
  <2>2. CASE \E q \in Socket : Frame(q) \/ FrameRefused(q) \/ Ping(q) \/ Leave(q)
    BY <2>1, <2>2 DEF Frame, FrameRefused, Ping, Leave, Reach
  <2> QED BY <1>5, <1>7, <1>10, <2>2 DEF Browser
<1>11. CASE UNCHANGED vars
  BY <1>1, <1>11 DEF vars, object
<1> QED BY <1>8, <1>9, <1>10, <1>11 DEF Next

LEMMA ReplayOfStep ==
  ASSUME IInv, ReplayOf, [Next]_vars
  PROVE  ReplayOf'
<1>0. TypeOK
  BY DEF IInv
<1> SUFFICES ASSUME NEW p \in replays'
             PROVE  /\ conn'[p.socket].step \in Accepted /\ conn'[p.socket].after # 0
                    /\ p.after = conn'[p.socket].after
  BY DEF ReplayOf
<1>1. ASSUME NEW q \in replays, p.socket = q.socket, p.after = q.after
      PROVE  /\ conn'[p.socket].step \in Accepted /\ conn'[p.socket].after # 0
             /\ p.after = conn'[p.socket].after
  <2>1. p.socket \in Socket /\ conn[p.socket].step \in Accepted /\ conn[p.socket].after # 0
        /\ p.after = conn[p.socket].after
    BY <1>0, <1>1 DEF ReplayOf, TypeOK, Replay
  <2> QED BY <2>1, ConnKept DEF SameConn, Accepted
<1>2. CASE p \in replays
  BY <1>1, <1>2
<1>3. ASSUME NEW s \in Socket, NEW step \in Accepted,
             conn' = [conn EXCEPT ![s].step = step], conn[s].after # 0,
             p.socket = s, p.after = conn[s].after
      PROVE  /\ conn'[p.socket].step \in Accepted /\ conn'[p.socket].after # 0
             /\ p.after = conn'[p.socket].after
  <2>1. conn'[s] = [conn[s] EXCEPT !.step = step] /\ conn[s] \in Upgrade
    BY <1>0, <1>3 DEF TypeOK
  <2>2. conn'[s].step = step /\ conn'[s].after = conn[s].after
    BY <2>1 DEF Upgrade
  <2> QED BY <1>3, <2>2
<1>4. CASE p \notin replays
  <2>1. ASSUME NEW s \in Socket, Register(s)
        PROVE  /\ conn'[p.socket].step \in Accepted /\ conn'[p.socket].after # 0
               /\ p.after = conn'[p.socket].after
    <3>1. conn' = [conn EXCEPT ![s].step = "open"] /\ conn[s].after # 0
          /\ p.socket = s /\ p.after = conn[s].after
      BY <1>4, <2>1 DEF Register
    <3> QED BY <1>3, <3>1 DEF Accepted
  <2>2. ASSUME NEW s \in Socket, Sync(s)
        PROVE  /\ conn'[p.socket].step \in Accepted /\ conn'[p.socket].after # 0
               /\ p.after = conn'[p.socket].after
    <3>1. conn' = [conn EXCEPT ![s].step = "synced"] /\ conn[s].after # 0
          /\ p.socket = s /\ p.after = conn[s].after
      BY <1>4, <2>2 DEF Sync
    <3> QED BY <1>3, <3>1 DEF Accepted
  <2>3. ASSUME NEW q \in replays, ReplaySelect(q)
        PROVE  \E o \in replays : p.socket = o.socket /\ p.after = o.after
    <3>1. p = [q EXCEPT !.step = "send", !.rows = Missed(q)]
      BY <1>4, <2>3 DEF ReplaySelect
    <3>2. p.socket = q.socket /\ p.after = q.after
      BY <1>0, <3>1 DEF TypeOK, Replay
    <3> QED BY <3>2
  <2>4. CASE \E r \in Request : Rest(r)
    BY <1>4, <2>4, RestWires
  <2>5. CASE Objects
    BY <1>1, <1>4, <2>1, <2>3, <2>5
       DEF Objects, Admit, Quiet, CloseEvent, ReplaySend, Alarm, Restart
  <2>6. CASE Browser
    BY <1>4, <2>2, <2>6 DEF Browser, Connect, Frame, FrameRefused, Ping, Leave
  <2>7. CASE UNCHANGED vars
    BY <1>4, <2>7 DEF vars, object
  <2> QED BY <2>4, <2>5, <2>6, <2>7 DEF Next
<1> QED BY <1>2, <1>4

-----------------------------------------------------------------------------
(* The rows of the pane.                                                   *)

(* Nth numbers the positions that are kept: each has one number.           *)
LEMMA Numbering ==
  ASSUME NEW len \in Nat, NEW keep \in SUBSET (1 .. len)
  PROVE  /\ Cardinality(keep) \in Nat /\ Cardinality(keep) <= len
         /\ \A n \in 1 .. Cardinality(keep) :
              Nth(keep, n) \in keep /\ Cardinality({j \in keep : j <= Nth(keep, n)}) = n
         /\ \A n, m \in 1 .. Cardinality(keep) : Nth(keep, n) = Nth(keep, m) => n = m
         /\ \A i \in keep : \E n \in 1 .. Cardinality(keep) : Nth(keep, n) = i
<1> DEFINE Upto(i) == {j \in keep : j <= i}
           rank == [i \in keep |-> Cardinality(Upto(i))]
<1>0. keep \subseteq Nat
  OBVIOUS
<1>1. IsFiniteSet(1 .. len) /\ Cardinality(1 .. len) = len
  BY FS_Interval
<1>2. IsFiniteSet(keep) /\ Cardinality(keep) \in Nat /\ Cardinality(keep) <= len
  BY <1>1, FS_Subset, FS_CardinalityType
<1>3. \A i \in keep : /\ Upto(i) \in SUBSET keep /\ i \in Upto(i)
                      /\ IsFiniteSet(Upto(i)) /\ Cardinality(Upto(i)) \in 1 .. Cardinality(keep)
  <2> TAKE i \in keep
  <2>1. Upto(i) \in SUBSET keep /\ i \in Upto(i)
    OBVIOUS
  <2>2. IsFiniteSet(Upto(i)) /\ Cardinality(Upto(i)) <= Cardinality(keep)
    BY <1>2, <2>1, FS_Subset
  <2>3. Cardinality(Upto(i)) \in Nat /\ Cardinality(Upto(i)) # 0
    BY <2>1, <2>2, FS_CardinalityType, FS_EmptySet
  <2> QED BY <1>2, <2>1, <2>2, <2>3
<1>4. \A i, k \in keep : i < k => Cardinality(Upto(i)) < Cardinality(Upto(k))
  <2> SUFFICES ASSUME NEW i \in keep, NEW k \in keep, i < k
               PROVE  Cardinality(Upto(i)) < Cardinality(Upto(k))
    OBVIOUS
  <2>1. (\A j \in Upto(i) : j \in Upto(k)) /\ k \in Upto(k) /\ k \notin Upto(i)
    BY <1>0
  <2>2. Cardinality(Upto(i)) <= Cardinality(Upto(k)) /\ Cardinality(Upto(i)) # Cardinality(Upto(k))
    BY <1>3, <2>1, FS_Subset
  <2> QED BY <1>3, <2>2
<1>5. \A i, k \in keep : rank[i] = rank[k] => i = k
  BY <1>3, <1>4
<1>6. rank \in Injection(keep, 1 .. Cardinality(keep))
  BY <1>3, <1>5 DEF Injection, IsInjective
<1>7. rank \in Surjection(keep, 1 .. Cardinality(keep))
  <2>1. IsFiniteSet(1 .. Cardinality(keep)) /\ Cardinality(1 .. Cardinality(keep)) = Cardinality(keep)
    BY <1>2, FS_Interval
  <2> QED BY <1>6, <2>1, FS_Injection
<1>8. \A n \in 1 .. Cardinality(keep) : \E i \in keep : Cardinality(Upto(i)) = n
  BY <1>7 DEF Surjection
<1>9. \A n \in 1 .. Cardinality(keep) :
        Nth(keep, n) \in keep /\ Cardinality(Upto(Nth(keep, n))) = n
  BY <1>8 DEF Nth
<1>10. \A i \in keep : Nth(keep, rank[i]) = i
  <2> TAKE i \in keep
  <2>1. rank[i] \in 1 .. Cardinality(keep)
    BY <1>3
  <2>2. Nth(keep, rank[i]) \in keep /\ rank[Nth(keep, rank[i])] = rank[i]
    BY <1>9, <2>1
  <2> QED BY <1>5, <2>2
<1> QED
  BY <1>2, <1>3, <1>9, <1>10


(* A selection holds the elements that were kept, each once.               *)
LEMMA SelectedElements ==
  ASSUME NEW S, NEW seq \in Seq(S), NEW keep \in SUBSET DOMAIN seq
  PROVE  LET chose == Selected(seq, keep) IN
         /\ chose \in Seq(S) /\ Len(chose) <= Len(seq)
         /\ \A n \in DOMAIN chose : Nth(keep, n) \in keep /\ chose[n] = seq[Nth(keep, n)]
         /\ \A n, m \in DOMAIN chose : Nth(keep, n) = Nth(keep, m) => n = m
         /\ \A i \in keep : \E n \in DOMAIN chose : chose[n] = seq[i]
<1> DEFINE chose == Selected(seq, keep)
<1>1. Len(seq) \in Nat /\ DOMAIN seq = 1 .. Len(seq)
  OBVIOUS
<1>2. /\ Cardinality(keep) \in Nat /\ Cardinality(keep) <= Len(seq)
      /\ \A n \in 1 .. Cardinality(keep) : Nth(keep, n) \in keep
      /\ \A n, m \in 1 .. Cardinality(keep) : Nth(keep, n) = Nth(keep, m) => n = m
      /\ \A i \in keep : \E n \in 1 .. Cardinality(keep) : Nth(keep, n) = i
  BY <1>1, Numbering
<1>3. /\ DOMAIN chose = 1 .. Cardinality(keep)
      /\ \A n \in 1 .. Cardinality(keep) : chose[n] = seq[Nth(keep, n)]
  BY DEF Selected
<1>4. chose \in [1 .. Cardinality(keep) -> S]
  <2>1. \A n \in 1 .. Cardinality(keep) : seq[Nth(keep, n)] \in S
    BY <1>2
  <2> QED BY <2>1 DEF Selected
<1>5. chose \in Seq(S) /\ Len(chose) = Cardinality(keep)
  BY <1>2, <1>4
<1> HIDE DEF chose
<1>6. /\ chose \in Seq(S) /\ Len(chose) <= Len(seq)
      /\ \A n \in DOMAIN chose : Nth(keep, n) \in keep /\ chose[n] = seq[Nth(keep, n)]
      /\ \A n, m \in DOMAIN chose : Nth(keep, n) = Nth(keep, m) => n = m
      /\ \A i \in keep : \E n \in DOMAIN chose : chose[n] = seq[i]
  BY <1>2, <1>3, <1>5
<1> QED
  BY <1>6 DEF chose

-----------------------------------------------------------------------------
LEMMA LeastOne ==
  ASSUME NEW len \in Nat, NEW same \in SUBSET (1 .. len), same # {}
  PROVE  \E i \in same : \A j \in same : i <= j
<1>0. IsFiniteSet(1 .. len) /\ same \subseteq Nat
  BY FS_Interval
<1>1. IsFiniteSet(same)
  BY <1>0, FS_Subset
<1>2. Cardinality(same) \in Nat /\ Cardinality(same) # 0
  BY <1>1, FS_CardinalityType, FS_EmptySet
<1> DEFINE one == Nth(same, 1)
           upto == {j \in same : j <= one}
<1>3. one \in same /\ Cardinality(upto) = 1
  BY <1>2, Numbering
<1>4. upto \in SUBSET same /\ one \in upto
  <2>1. one \in same /\ one \in Nat
    BY <1>0, <1>3
  <2> HIDE DEF one
  <2> QED BY <2>1
<1>a. IsFiniteSet(upto)
  BY <1>1, <1>4, FS_Subset
<1>5. PICK k : upto = {k}
  BY <1>3, <1>a, FS_Singleton
<1>6. \A j \in same : one <= j
  <2> TAKE j \in same
  <2>1. j \in Nat /\ one \in Nat
    BY <1>0, <1>3
  <2>2. CASE j <= one
    BY <1>4, <1>5, <2>2
  <2> QED BY <2>1, <2>2
<1> QED BY <1>3, <1>6

(* What setMessages makes of the pane: the message is added, or takes the  *)
(* place of the first row that matches.                                    *)
Takes(list, new, p, k) ==
  /\ k \in DOMAIN list /\ Matches(list[k], p)
  /\ \A j \in DOMAIN list : Matches(list[j], p) => k <= j
  /\ Len(new) = Len(list)
  /\ \A j \in DOMAIN list : new[j] = IF j = k THEN p ELSE list[j]

LEMMA IncomingRows ==
  ASSUME NEW list \in Seq(Item), NEW p \in Item
  PROVE  /\ Incoming(list, p) \in Seq(Item)
         /\ \/ /\ Incoming(list, p) = Append(list, p)
               /\ \A j \in DOMAIN list : ~Matches(list[j], p)
            \/ \E k \in DOMAIN list : Takes(list, Incoming(list, p), p, k)
<1> DEFINE same == {i \in DOMAIN list : Matches(list[i], p)}
           k == CHOOSE i \in same : \A j \in same : i <= j
<1>1. CASE same = {}
  BY <1>1 DEF Incoming
<1>2. CASE same # {}
  <2>1. k \in same /\ \A j \in same : k <= j
    <3>1. same \in SUBSET (1 .. Len(list)) /\ Len(list) \in Nat
      OBVIOUS
    <3> HIDE DEF same
    <3>2. \E i \in same : \A j \in same : i <= j
      BY <1>2, <3>1, LeastOne
    <3> QED BY <3>2
  <2>2. Incoming(list, p) = [list EXCEPT ![k] = p]
    BY <1>2 DEF Incoming
  <2> HIDE DEF k
  <2>3. k \in DOMAIN list /\ Matches(list[k], p)
        /\ \A j \in DOMAIN list : Matches(list[j], p) => k <= j
    BY <2>1
  <2> QED BY <2>2, <2>3 DEF Takes
<1> QED BY <1>1, <1>2

LEMMA IncomingShows ==
  ASSUME NEW list \in Seq(Item), NEW p \in Item
  PROVE  /\ \E i \in DOMAIN Incoming(list, p) : Incoming(list, p)[i].msg = p.msg
         /\ \A i \in DOMAIN list :
              \/ \E j \in DOMAIN Incoming(list, p) : Incoming(list, p)[j].msg = list[i].msg
              \/ p.cid /\ list[i].cid
<1> DEFINE new == Incoming(list, p)
<1>1. CASE new = Append(list, p)
  <2>1. Len(list) \in Nat /\ DOMAIN new = 1 .. Len(list) + 1 /\ new[Len(list) + 1] = p
        /\ \A i \in DOMAIN list : i \in DOMAIN new /\ new[i] = list[i]
    BY <1>1
  <2> QED BY <2>1
<1>2. ASSUME NEW k \in DOMAIN list, Takes(list, new, p, k)
      PROVE  /\ \E i \in DOMAIN new : new[i].msg = p.msg
             /\ \A i \in DOMAIN list : \/ \E j \in DOMAIN new : new[j].msg = list[i].msg
                                       \/ p.cid /\ list[i].cid
  <2>1. DOMAIN new = DOMAIN list
    BY <1>2, IncomingRows DEF Takes
  <2>2. new[k] = p
    BY <1>2 DEF Takes
  <2>3. ASSUME NEW i \in DOMAIN list
        PROVE  (\E j \in DOMAIN new : new[j].msg = list[i].msg) \/ (p.cid /\ list[i].cid)
    <3>1. CASE i = k
      BY <1>2, <2>1, <2>2, <3>1 DEF Takes, Matches
    <3>2. CASE i # k
      BY <1>2, <2>1, <3>2 DEF Takes
    <3> QED BY <3>1, <3>2
  <2> QED BY <2>1, <2>2, <2>3
<1> QED BY <1>1, <1>2, IncomingRows

LEMMA ItemTyped ==
  ASSUME NEW u, NEW p \in Payload
  PROVE  /\ ItemOf(u, p) \in Item /\ ItemOf(u, p).msg = p.msg
         /\ ItemOf(u, p).cid <=> p.cid /\ messages[p.msg].sender = u
BY DEF ItemOf, Item, Payload

LEMMA BlankedRows ==
  ASSUME NEW u, NEW list \in Seq(Item), NEW m
  PROVE  /\ Blanked(u, list, m) \in Seq(Item) /\ Len(Blanked(u, list, m)) = Len(list)
         /\ \A i \in DOMAIN list : /\ Blanked(u, list, m)[i].msg = list[i].msg
                                   /\ Blanked(u, list, m)[i].cid = list[i].cid
<1> DEFINE new == Blanked(u, list, m)
<1>1. \A i \in DOMAIN list : list[i] \in Item
  OBVIOUS
<1>2. DOMAIN new = 1 .. Len(list) /\ Len(list) \in Nat
  BY DEF Blanked
<1>3. \A i \in DOMAIN list :
        new[i] \in Item /\ new[i].msg = list[i].msg /\ new[i].cid = list[i].cid
  BY <1>1 DEF Blanked, Item
<1>4. new \in [1 .. Len(list) -> Item]
  <2>1. new = [i \in 1 .. Len(list) |-> new[i]]
    BY DEF Blanked
  <2>2. \A i \in 1 .. Len(list) : new[i] \in Item
    BY <1>2, <1>3
  <2> HIDE DEF new
  <2> QED BY <2>1, <2>2
<1> QED BY <1>2, <1>3, <1>4

LEMMA SavedRows ==
  ASSUME NEW list \in Seq(Item), NEW m \in Nat
  PROVE  /\ Saved(list, m) \in Seq(Item) /\ Len(Saved(list, m)) = Len(list)
         /\ \A i \in DOMAIN list :
              IF list[i].cid \/ list[i].msg = m
              THEN Saved(list, m)[i].msg = m /\ Saved(list, m)[i].cid
              ELSE Saved(list, m)[i] = list[i]
<1> DEFINE new == Saved(list, m)
<1>1. \A i \in DOMAIN list : list[i] \in Item
  OBVIOUS
<1>2. DOMAIN new = 1 .. Len(list) /\ Len(list) \in Nat
  BY DEF Saved
<1>3. \A i \in DOMAIN list :
        /\ new[i] \in Item
        /\ IF list[i].cid \/ list[i].msg = m THEN new[i].msg = m /\ new[i].cid ELSE new[i] = list[i]
  BY <1>1 DEF Saved, Item
<1>4. new \in [1 .. Len(list) -> Item]
  <2>1. new = [i \in 1 .. Len(list) |-> new[i]]
    BY DEF Saved
  <2>2. \A i \in 1 .. Len(list) : new[i] \in Item
    BY <1>2, <1>3
  <2> HIDE DEF new
  <2> QED BY <2>1, <2>2
<1> QED BY <1>2, <1>3, <1>4

-----------------------------------------------------------------------------
(* What each action does to the tabs, field by field.                      *)
Tabs == tab \in [Viewer -> Tab]

Only(u) == \A v \in Viewer \ {u} : tab'[v] = tab[v]

SamePane(u) == /\ tab'[u].history = tab[u].history /\ tab'[u].fetched = tab[u].fetched
               /\ tab'[u].open = tab[u].open
SameList(u) == tab'[u].list = tab[u].list /\ tab'[u].echoed = tab[u].echoed
SameLine(u) == tab'[u].sock = tab[u].sock /\ tab'[u].pos = tab[u].pos
SameSeen(u) == tab'[u].last = tab[u].last /\ tab'[u].first = tab[u].first
SameLost(u) == tab'[u].lost = tab[u].lost
SamePost(u) == tab'[u].post = tab[u].post /\ tab'[u].sent = tab[u].sent

Changed(u) == Tabs' /\ Only(u)

LEMMA TabChanged ==
  ASSUME Tabs, NEW u \in Viewer, NEW new \in Tab, tab' = [tab EXCEPT ![u] = new]
  PROVE  Changed(u) /\ tab'[u] = new
BY DEF Tabs, Changed, Only

LEMMA HistoryReadTab ==
  ASSUME Tabs, TypeOK, NEW u \in Viewer, HistoryRead(u)
  PROVE  /\ Changed(u) /\ UNCHANGED vars
         /\ SameList(u) /\ SameLine(u) /\ SameSeen(u) /\ SameLost(u) /\ SamePost(u)
         /\ tab[u].history = "due" /\ tab'[u].history = "read" /\ tab'[u].open = tab[u].open
         /\ Len(tab'[u].fetched) = Len(messages)
         /\ \A i \in DOMAIN tab'[u].fetched : tab'[u].fetched[i].msg = i /\ ~tab'[u].fetched[i].cid
<1> DEFINE rows1 == [m \in DOMAIN messages |->
                       [msg |-> m, text |-> u \in Admin \/ ~messages[m].deleted, cid |-> FALSE]]
           new == [tab[u] EXCEPT !.history = "read", !.fetched = rows1]
<1>1. tab' = [tab EXCEPT ![u] = new] /\ UNCHANGED vars /\ tab[u].history = "due"
  BY DEF HistoryRead
<1>2. Len(messages) \in Nat /\ DOMAIN messages = 1 .. Len(messages) /\ tab[u] \in Tab
  BY DEF TypeOK, Tabs
<1>3. \A m \in DOMAIN messages : [msg |-> m, text |-> u \in Admin \/ ~messages[m].deleted, cid |-> FALSE] \in Item
  BY <1>2 DEF Item
<1>4. rows1 \in Seq(Item) /\ Len(rows1) = Len(messages)
  <2>1. rows1 \in [1 .. Len(messages) -> Item]
    BY <1>2, <1>3
  <2> HIDE DEF rows1
  <2> QED BY <1>2, <2>1
<1>5. \A i \in DOMAIN rows1 : rows1[i].msg = i /\ ~rows1[i].cid
  OBVIOUS
<1> HIDE DEF rows1
<1>6. /\ new \in Tab /\ new.history = "read" /\ new.fetched = rows1
      /\ new.list = tab[u].list /\ new.sock = tab[u].sock /\ new.pos = tab[u].pos
      /\ new.last = tab[u].last /\ new.first = tab[u].first /\ new.lost = tab[u].lost
      /\ new.post = tab[u].post /\ new.sent = tab[u].sent /\ new.open = tab[u].open
      /\ new.echoed = tab[u].echoed
  BY <1>2, <1>4 DEF Tab
<1> HIDE DEF new
<1>7. Changed(u) /\ tab'[u] = new
  BY <1>1, <1>6, TabChanged
<1> QED BY <1>1, <1>4, <1>5, <1>6, <1>7
        DEF SameList, SameLine, SameSeen, SameLost, SamePost

LEMMA HistoryArriveTab ==
  ASSUME Tabs, NEW u \in Viewer, HistoryArrive(u)
  PROVE  /\ Changed(u) /\ UNCHANGED vars
         /\ SameLine(u) /\ SameSeen(u) /\ SameLost(u) /\ SamePost(u)
         /\ tab[u].history = "read" /\ tab'[u].history = "over" /\ tab'[u].open = tab[u].open
         /\ tab'[u].fetched = <<>> /\ tab'[u].list = tab[u].fetched /\ tab'[u].echoed = tab[u].echoed
<1> DEFINE new == [tab[u] EXCEPT !.history = "over", !.fetched = <<>>, !.list = tab[u].fetched]
<1>1. tab' = [tab EXCEPT ![u] = new] /\ UNCHANGED vars /\ tab[u].history = "read"
  BY DEF HistoryArrive
<1>2. tab[u] \in Tab /\ <<>> \in Seq(Item)
  BY DEF Tabs
<1>3. /\ new \in Tab /\ new.history = "over" /\ new.fetched = <<>>
      /\ new.list = tab[u].fetched /\ new.sock = tab[u].sock /\ new.pos = tab[u].pos
      /\ new.last = tab[u].last /\ new.first = tab[u].first /\ new.lost = tab[u].lost
      /\ new.post = tab[u].post /\ new.sent = tab[u].sent /\ new.open = tab[u].open
      /\ new.echoed = tab[u].echoed
  BY <1>2 DEF Tab
<1> HIDE DEF new
<1>4. Changed(u) /\ tab'[u] = new
  BY <1>1, <1>3, TabChanged
<1> QED BY <1>1, <1>3, <1>4 DEF SameLine, SameSeen, SameLost, SamePost

LEMMA DialTab ==
  ASSUME Tabs, NEW u \in Viewer, NEW s \in Socket, Dial(u, s)
  PROVE  /\ Changed(u)
         /\ SamePane(u) /\ SameList(u) /\ SameSeen(u) /\ SamePost(u)
         /\ tab[u].open /\ tab[u].sock = None /\ (HistoryFirst => tab[u].history = "over")
         /\ Connect(s, u, tab[u].last)
         /\ tab'[u].sock = s /\ tab'[u].pos = 0
         /\ tab'[u].lost = tab[u].lost \cup PassedOver(u)
<1> DEFINE new == [tab[u] EXCEPT !.sock = s, !.pos = 0, !.lost = @ \cup PassedOver(u)]
<1>1. tab' = [tab EXCEPT ![u] = new]
  BY DEF Dial
<1>2. tab[u] \in Tab /\ PassedOver(u) \in SUBSET Nat
  BY DEF Tabs, PassedOver, Tab
<1>3. /\ new \in Tab /\ new.history = tab[u].history /\ new.fetched = tab[u].fetched
      /\ new.list = tab[u].list /\ new.sock = s /\ new.pos = 0
      /\ new.last = tab[u].last /\ new.first = tab[u].first
      /\ new.lost = tab[u].lost \cup PassedOver(u)
      /\ new.post = tab[u].post /\ new.sent = tab[u].sent /\ new.open = tab[u].open
      /\ new.echoed = tab[u].echoed
  BY <1>2 DEF Tab
<1> HIDE DEF new
<1>4. Changed(u) /\ tab'[u] = new
  BY <1>1, <1>3, TabChanged
<1> QED BY <1>3, <1>4 DEF Dial, SamePane, SameList, SameSeen, SamePost

(* A message, a deletion, the end of access.                               *)
LEMMA ReceiveTab ==
  ASSUME Tabs, TypeOK, NEW u \in Viewer, Receive(u)
  PROVE  \E s \in Socket :
           LET p == wire[s][tab[u].pos + 1] IN
           /\ Changed(u) /\ UNCHANGED vars
           /\ tab[u].sock = s /\ tab[u].pos + 1 \in DOMAIN wire[s] /\ p \in Payload
           /\ SamePost(u) /\ SameLost(u)
           /\ tab'[u].history = tab[u].history /\ tab'[u].fetched = tab[u].fetched
           /\ \/ /\ p.type = "new_message"
                 /\ tab'[u].open = tab[u].open
                 /\ tab'[u].sock = s /\ tab'[u].pos = tab[u].pos + 1
                 /\ tab'[u].last = p.msg
                 /\ tab'[u].first = IF tab[u].first = 0 THEN p.msg ELSE tab[u].first
                 /\ tab'[u].list = Incoming(tab[u].list, ItemOf(u, p))
                 /\ tab'[u].echoed = (tab[u].echoed
                      \/ (messages[p.msg].sender = u /\ ~p.cid
                          /\ \E i \in DOMAIN tab[u].list : tab[u].list[i].msg = 0))
              \/ /\ p.type = "message_deleted" /\ SameSeen(u)
                 /\ tab'[u].open = tab[u].open /\ tab'[u].echoed = tab[u].echoed
                 /\ tab'[u].sock = s /\ tab'[u].pos = tab[u].pos + 1
                 /\ tab'[u].list = Blanked(u, tab[u].list, p.msg)
              \/ /\ p.type = "access_revoked" /\ SameSeen(u)
                 /\ ~tab'[u].open /\ tab'[u].echoed = tab[u].echoed
                 /\ tab'[u].sock = None /\ tab'[u].pos = 0
                 /\ tab'[u].list = <<>>
<1>1. PICK s \in Socket : /\ tab[u].sock = s /\ tab[u].pos < Len(wire[s])
                          /\ tab' = [tab EXCEPT ![u] = Received(u, wire[s][tab[u].pos + 1])]
  BY DEF Receive
<1> DEFINE p == wire[s][tab[u].pos + 1]
           row == ItemOf(u, p)
           next == tab[u].pos + 1
           echo == tab[u].echoed \/ (messages[p.msg].sender = u /\ ~p.cid
                          /\ \E i \in DOMAIN tab[u].list : tab[u].list[i].msg = 0)
           seen == IF tab[u].first = 0 THEN p.msg ELSE tab[u].first
           list1 == Incoming(tab[u].list, row)
           list2 == Blanked(u, tab[u].list, p.msg)
           new1 == [tab[u] EXCEPT !.pos = next, !.last = p.msg, !.list = list1,
                                  !.first = seen, !.echoed = echo]
           new2 == [tab[u] EXCEPT !.pos = next, !.list = list2]
           new3 == [tab[u] EXCEPT !.open = FALSE, !.list = <<>>, !.sock = None, !.pos = 0]
<1>2. tab[u] \in Tab /\ tab[u].pos \in Nat /\ tab[u].list \in Seq(Item) /\ <<>> \in Seq(Item)
      /\ tab[u].first \in Nat /\ tab[u].echoed \in BOOLEAN /\ UNCHANGED vars
  BY DEF Tabs, Tab, Receive
<1>3. wire[s] \in Seq(Payload) /\ tab[u].pos + 1 \in DOMAIN wire[s]
  BY <1>1, <1>2 DEF TypeOK
<1>4. p \in Payload /\ p.msg \in Nat
  <2>1. p \in Payload
    BY <1>3
  <2> HIDE DEF p
  <2> QED BY <2>1 DEF Payload
<1>5. row \in Item /\ list1 \in Seq(Item) /\ list2 \in Seq(Item)
  <2> HIDE DEF p
  <2>1. row \in Item
    BY <1>4, ItemTyped
  <2> HIDE DEF row
  <2> QED BY <1>2, <2>1, IncomingRows, BlankedRows
<1>6. Received(u, p) = IF p.type = "new_message" THEN new1
                       ELSE IF p.type = "message_deleted" THEN new2 ELSE new3
  <2>1. p.type \in {"new_message", "message_deleted", "access_revoked"}
    BY <1>4 DEF Payload
  <2>2. Received(u, p) =
          CASE p.type = "new_message" -> new1
            [] p.type = "message_deleted" -> new2
            [] p.type = "access_revoked" -> new3
    BY DEF Received
  <2> HIDE DEF p, new1, new2, new3
  <2> QED BY <2>1, <2>2
<1>a. echo \in BOOLEAN /\ seen \in Nat /\ next \in Nat /\ next = tab[u].pos + 1
  BY <1>2, <1>4
<1> HIDE DEF p, row, echo, seen, next, list1, list2
<1>7. /\ new1 \in Tab /\ new1.history = tab[u].history /\ new1.fetched = tab[u].fetched
      /\ new1.list = list1 /\ new1.sock = tab[u].sock /\ new1.pos = next
      /\ new1.last = p.msg /\ new1.first = seen /\ new1.lost = tab[u].lost
      /\ new1.post = tab[u].post /\ new1.sent = tab[u].sent /\ new1.open = tab[u].open
      /\ new1.echoed = echo
  BY <1>2, <1>4, <1>5, <1>a DEF Tab
<1>8. /\ new2 \in Tab /\ new2.history = tab[u].history /\ new2.fetched = tab[u].fetched
      /\ new2.list = list2 /\ new2.sock = tab[u].sock /\ new2.pos = next
      /\ new2.last = tab[u].last /\ new2.first = tab[u].first /\ new2.lost = tab[u].lost
      /\ new2.post = tab[u].post /\ new2.sent = tab[u].sent /\ new2.open = tab[u].open
      /\ new2.echoed = tab[u].echoed
  BY <1>2, <1>5, <1>a DEF Tab
<1>9. /\ new3 \in Tab /\ new3.history = tab[u].history /\ new3.fetched = tab[u].fetched
      /\ new3.list = <<>> /\ new3.sock = None /\ new3.pos = 0
      /\ new3.last = tab[u].last /\ new3.first = tab[u].first /\ new3.lost = tab[u].lost
      /\ new3.post = tab[u].post /\ new3.sent = tab[u].sent /\ ~new3.open
      /\ new3.echoed = tab[u].echoed
  BY <1>2 DEF Tab
<1> HIDE DEF new1, new2, new3
<1>b. tab' = [tab EXCEPT ![u] = Received(u, p)]
  BY <1>1 DEF p
<1>c. p.type \in {"new_message", "message_deleted", "access_revoked"}
  BY <1>4 DEF Payload
<1>10. CASE p.type = "new_message"
  <2>1. Changed(u) /\ tab'[u] = new1
    BY <1>6, <1>7, <1>10, <1>b, TabChanged
  <2>2. /\ SamePost(u) /\ SameLost(u)
        /\ tab'[u].history = tab[u].history /\ tab'[u].fetched = tab[u].fetched
        /\ tab'[u].open = tab[u].open /\ tab'[u].sock = s /\ tab'[u].pos = tab[u].pos + 1
        /\ tab'[u].last = p.msg /\ tab'[u].first = seen /\ tab'[u].list = list1
        /\ tab'[u].echoed = echo
    BY <1>1, <1>7, <1>a, <2>1 DEF SamePost, SameLost
  <2> QED BY <1>1, <1>2, <1>3, <1>4, <1>10, <2>1, <2>2 DEF p, row, echo, seen, list1
<1>11. CASE p.type = "message_deleted"
  <2>1. Changed(u) /\ tab'[u] = new2
    BY <1>6, <1>8, <1>11, <1>b, TabChanged
  <2>2. /\ SamePost(u) /\ SameLost(u) /\ SameSeen(u)
        /\ tab'[u].history = tab[u].history /\ tab'[u].fetched = tab[u].fetched
        /\ tab'[u].open = tab[u].open /\ tab'[u].sock = s /\ tab'[u].pos = tab[u].pos + 1
        /\ tab'[u].list = list2 /\ tab'[u].echoed = tab[u].echoed
    BY <1>1, <1>8, <1>a, <2>1 DEF SamePost, SameLost, SameSeen
  <2> QED BY <1>1, <1>2, <1>3, <1>4, <1>11, <2>1, <2>2 DEF p, list2
<1>12. CASE p.type = "access_revoked"
  <2>1. Changed(u) /\ tab'[u] = new3
    BY <1>6, <1>9, <1>12, <1>b, TabChanged
  <2>2. /\ SamePost(u) /\ SameLost(u) /\ SameSeen(u)
        /\ tab'[u].history = tab[u].history /\ tab'[u].fetched = tab[u].fetched
        /\ ~tab'[u].open /\ tab'[u].sock = None /\ tab'[u].pos = 0
        /\ tab'[u].list = <<>> /\ tab'[u].echoed = tab[u].echoed
    BY <1>9, <2>1 DEF SamePost, SameLost, SameSeen
  <2> QED BY <1>1, <1>2, <1>3, <1>4, <1>12, <2>1, <2>2 DEF p
<1> QED BY <1>10, <1>11, <1>12, <1>c

(* onclose, for either reason.                                             *)
LEMMA OnCloseTab ==
  ASSUME Tabs, NEW u \in Viewer, Blip(u) \/ Closed(u)
  PROVE  /\ Changed(u)
         /\ SamePane(u) /\ SameList(u) /\ SameSeen(u) /\ SameLost(u) /\ SamePost(u)
         /\ (tab[u].sock \in Socket /\ Leave(tab[u].sock)) \/ UNCHANGED vars
         /\ tab'[u].sock = None /\ tab'[u].pos = 0
<1> DEFINE new == [tab[u] EXCEPT !.sock = None, !.pos = 0]
<1>1. /\ tab' = [tab EXCEPT ![u] = new]
      /\ (tab[u].sock \in Socket /\ Leave(tab[u].sock)) \/ UNCHANGED vars
  BY DEF Blip, Closed
<1>2. tab[u] \in Tab
  BY DEF Tabs
<1>3. /\ new \in Tab /\ new.history = tab[u].history /\ new.fetched = tab[u].fetched
      /\ new.list = tab[u].list /\ new.sock = None /\ new.pos = 0
      /\ new.last = tab[u].last /\ new.first = tab[u].first /\ new.lost = tab[u].lost
      /\ new.post = tab[u].post /\ new.sent = tab[u].sent /\ new.open = tab[u].open
      /\ new.echoed = tab[u].echoed
  BY <1>2 DEF Tab
<1> HIDE DEF new
<1>4. Changed(u) /\ tab'[u] = new
  BY <1>1, <1>3, TabChanged
<1> QED BY <1>1, <1>3, <1>4 DEF SamePane, SameList, SameSeen, SameLost, SamePost

LEMMA SendTab ==
  ASSUME Tabs, NEW u \in Viewer, NEW r \in Request, Send(u, r)
  PROVE  /\ Changed(u)
         /\ SamePane(u) /\ SameLine(u) /\ SameSeen(u) /\ SameLost(u)
         /\ ~tab[u].sent /\ PostCheck(r, u, "text")
         /\ tab'[u].sent /\ tab'[u].post = r /\ tab'[u].echoed = tab[u].echoed
         /\ tab'[u].list = Append(tab[u].list, [msg |-> 0, text |-> TRUE, cid |-> TRUE])
<1> DEFINE list == Append(tab[u].list, [msg |-> 0, text |-> TRUE, cid |-> TRUE])
           new == [tab[u] EXCEPT !.sent = TRUE, !.post = r, !.list = list]
<1>1. tab' = [tab EXCEPT ![u] = new] /\ ~tab[u].sent /\ PostCheck(r, u, "text")
  BY DEF Send
<1>2. tab[u] \in Tab /\ tab[u].list \in Seq(Item) /\ [msg |-> 0, text |-> TRUE, cid |-> TRUE] \in Item
  BY DEF Tabs, Tab, Item
<1>3. list \in Seq(Item)
  BY <1>2
<1> HIDE DEF list
<1>4. /\ new \in Tab /\ new.history = tab[u].history /\ new.fetched = tab[u].fetched
      /\ new.list = list /\ new.sock = tab[u].sock /\ new.pos = tab[u].pos
      /\ new.last = tab[u].last /\ new.first = tab[u].first /\ new.lost = tab[u].lost
      /\ new.post = r /\ new.sent /\ new.open = tab[u].open
      /\ new.echoed = tab[u].echoed
  BY <1>2, <1>3 DEF Tab
<1> HIDE DEF new
<1>5. Changed(u) /\ tab'[u] = new
  BY <1>1, <1>4, TabChanged
<1> QED BY <1>1, <1>4, <1>5 DEF SamePane, SameLine, SameSeen, SameLost, list

LEMMA AnsweredTab ==
  ASSUME Tabs, TypeOK, NEW u \in Viewer, Answered(u)
  PROVE  \E r \in Request :
         /\ Changed(u)
         /\ SamePane(u) /\ SameLine(u) /\ SameSeen(u) /\ SameLost(u)
         /\ tab[u].post = r /\ PostAnswer(r)
         /\ tab'[u].sent = tab[u].sent /\ tab'[u].post = None /\ tab'[u].echoed = tab[u].echoed
         /\ tab'[u].list = Saved(tab[u].list, request[r].msg)
<1>1. PICK r \in Request :
        /\ tab[u].post = r /\ PostAnswer(r)
        /\ tab' = [tab EXCEPT ![u].post = None, ![u].list = Saved(tab[u].list, request[r].msg)]
  BY DEF Answered
<1> DEFINE list == Saved(tab[u].list, request[r].msg)
           new == [tab[u] EXCEPT !.post = None, !.list = list]
<1>2. tab[u] \in Tab /\ tab[u].list \in Seq(Item) /\ request[r].msg \in Nat
  BY DEF Tabs, Tab, TypeOK, Local
<1>3. tab' = [tab EXCEPT ![u] = new]
  BY <1>1
<1>a. list \in Seq(Item)
  BY <1>2, SavedRows
<1> HIDE DEF list
<1>4. /\ new \in Tab /\ new.history = tab[u].history /\ new.fetched = tab[u].fetched
      /\ new.list = list /\ new.sock = tab[u].sock /\ new.pos = tab[u].pos
      /\ new.last = tab[u].last /\ new.first = tab[u].first /\ new.lost = tab[u].lost
      /\ new.post = None /\ new.sent = tab[u].sent /\ new.open = tab[u].open
      /\ new.echoed = tab[u].echoed
  BY <1>2, <1>a DEF Tab
<1> HIDE DEF new
<1>5. Changed(u) /\ tab'[u] = new
  BY <1>3, <1>4, TabChanged
<1> QED BY <1>1, <1>4, <1>5 DEF SamePane, SameLine, SameSeen, SameLost, list

(* All but the marks of what is lost.                                      *)
SameButLost(u) ==
  SamePane(u) /\ SameList(u) /\ SameLine(u) /\ SameSeen(u) /\ SamePost(u)

LEMMA Marked ==
  ASSUME Tabs, NEW u \in Viewer, NEW lost \in SUBSET Nat,
         tab'[u] = [tab[u] EXCEPT !.lost = @ \cup lost]
  PROVE  /\ tab'[u] \in Tab /\ SameButLost(u) /\ tab'[u].lost = tab[u].lost \cup lost
<1> DEFINE all == tab[u].lost \cup lost
           new == [tab[u] EXCEPT !.lost = all]
<1>1. tab[u] \in Tab /\ tab[u].lost \in SUBSET Nat
  BY DEF Tabs, Tab
<1>2. all \in SUBSET Nat /\ tab'[u] = new
  BY <1>1
<1> HIDE DEF all
<1>3. /\ new \in Tab /\ new.history = tab[u].history /\ new.fetched = tab[u].fetched
      /\ new.list = tab[u].list /\ new.sock = tab[u].sock /\ new.pos = tab[u].pos
      /\ new.last = tab[u].last /\ new.first = tab[u].first /\ new.lost = all
      /\ new.post = tab[u].post /\ new.sent = tab[u].sent /\ new.open = tab[u].open
      /\ new.echoed = tab[u].echoed
  BY <1>1, <1>2 DEF Tab
<1> HIDE DEF new
<1> QED BY <1>2, <1>3
        DEF SameButLost, SamePane, SameList, SameLine, SameSeen, SamePost, all

LEMMA UnannouncedType == TypeOK => Unannounced \in SUBSET Nat
BY DEF Unannounced, Stored, TypeOK, Local

LEMMA CutOffType == TypeOK => \A s : CutOff(s) \in SUBSET Nat
<1> SUFFICES ASSUME TypeOK, NEW s, NEW m \in CutOff(s) PROVE m \in Nat
  OBVIOUS
<1>1. PICK p \in replays : m \in p.after + ReplayLimit + 1 .. Len(messages)
  BY DEF CutOff
<1>2. p.after \in Nat /\ Len(messages) \in Nat
  BY DEF TypeOK, Replay
<1> QED BY <1>1, <1>2, BoundsAssumption

LEMMA FailedTab ==
  ASSUME Tabs, TypeOK, NEW u \in Viewer, Failed(u)
  PROVE  \E r \in Request :
         /\ Tabs'
         /\ \A v \in Viewer \ {u} : SameButLost(v) /\ tab'[v].lost = tab[v].lost \cup Unannounced
         /\ SamePane(u) /\ SameLine(u) /\ SameSeen(u)
         /\ tab[u].post = r /\ RequestLost(r)
         /\ tab'[u].lost = tab[u].lost \cup Stored(r)
         /\ tab'[u].sent = tab[u].sent /\ tab'[u].post = None /\ tab'[u].echoed = tab[u].echoed
         /\ tab'[u].list = Selected(tab[u].list, {i \in DOMAIN tab[u].list : ~tab[u].list[i].cid})
<1>1. PICK r \in Request :
        /\ tab[u].post = r /\ RequestLost(r)
        /\ tab' = [v \in Viewer |->
             IF v = u
             THEN [tab[u] EXCEPT !.post = None, !.lost = @ \cup Stored(r),
                     !.list = Selected(@, {i \in DOMAIN tab[u].list : ~tab[u].list[i].cid})]
             ELSE [tab[v] EXCEPT !.lost = @ \cup Unannounced]]
  BY DEF Failed
<1> DEFINE keep == {i \in DOMAIN tab[u].list : ~tab[u].list[i].cid}
           list == Selected(tab[u].list, keep)
           lost == tab[u].lost \cup Stored(r)
           new == [tab[u] EXCEPT !.post = None, !.lost = lost, !.list = list]
<1>2. tab[u] \in Tab /\ tab[u].list \in Seq(Item) /\ lost \in SUBSET Nat
  BY DEF Tabs, Tab, TypeOK, Local, Stored
<1>3. list \in Seq(Item)
  <2>1. keep \in SUBSET DOMAIN tab[u].list
    OBVIOUS
  <2> HIDE DEF keep
  <2> QED BY <1>2, <2>1, SelectedElements
<1>4. tab'[u] = new
  BY <1>1
<1> HIDE DEF list, lost
<1>5. /\ new \in Tab /\ new.history = tab[u].history /\ new.fetched = tab[u].fetched
      /\ new.list = list /\ new.sock = tab[u].sock /\ new.pos = tab[u].pos
      /\ new.last = tab[u].last /\ new.first = tab[u].first /\ new.lost = lost
      /\ new.post = None /\ new.sent = tab[u].sent /\ new.open = tab[u].open
      /\ new.echoed = tab[u].echoed
  BY <1>2, <1>3 DEF Tab
<1> HIDE DEF new
<1>6. ASSUME NEW v \in Viewer \ {u}
      PROVE  tab'[v] \in Tab /\ SameButLost(v) /\ tab'[v].lost = tab[v].lost \cup Unannounced
  BY <1>1, <1>6, Marked, UnannouncedType
<1>7. Tabs'
  <2>1. \A v \in Viewer : tab'[v] \in Tab
    BY <1>4, <1>5, <1>6
  <2>2. tab' = [v \in Viewer |-> tab'[v]]
    BY <1>1
  <2> QED BY <2>1, <2>2 DEF Tabs
<1> QED BY <1>1, <1>4, <1>5, <1>6, <1>7
        DEF SamePane, SameLine, SameSeen, list, lost, keep

LEMMA ServerTab ==
  ASSUME Tabs, TypeOK, Server
  PROVE  /\ Tabs'
         /\ \A u \in Viewer : /\ SameButLost(u)
                              /\ tab'[u].lost = tab[u].lost \cup Unannounced \cup CutOff(tab[u].sock)
<1>1. ASSUME NEW u \in Viewer
      PROVE  /\ tab'[u] \in Tab /\ SameButLost(u)
             /\ tab'[u].lost = tab[u].lost \cup Unannounced \cup CutOff(tab[u].sock)
  <2> DEFINE lost == Unannounced \cup CutOff(tab[u].sock)
  <2>1. lost \in SUBSET Nat
    BY UnannouncedType, CutOffType
  <2>2. tab'[u] = [tab[u] EXCEPT !.lost = @ \cup lost]
    BY DEF Server
  <2> HIDE DEF lost
  <2>3. tab'[u] \in Tab /\ SameButLost(u) /\ tab'[u].lost = tab[u].lost \cup lost
    BY <2>1, <2>2, Marked
  <2> QED BY <2>3 DEF lost
<1>2. tab' = [u \in Viewer |-> tab'[u]]
  BY DEF Server
<1> QED BY <1>1, <1>2 DEF Tabs

-----------------------------------------------------------------------------
(* The clients are browsers of the room.  What they ask for when they      *)
(* connect is a message that is there.                                     *)
Known == \A u \in Viewer : tab[u].last <= Len(messages)

Unread == \A u \in Viewer : tab[u].sock = None => tab[u].pos = 0

RoomInv == IInv /\ Messaged /\ ReplayOf
TabInv == RoomInv /\ Tabs /\ Known /\ Unread

LEMMA TabTyped ==
  ASSUME Tabs, NEW u \in Viewer
  PROVE  /\ tab[u] \in Tab /\ tab[u].last \in Nat /\ tab[u].first \in Nat /\ tab[u].pos \in Nat
         /\ tab[u].list \in Seq(Item) /\ tab[u].fetched \in Seq(Item) /\ tab[u].lost \in SUBSET Nat
         /\ tab[u].sock \in Socket \cup {None} /\ tab[u].post \in Request \cup {None}
         /\ u \in User
BY ViewerAssumption DEF Tabs, Tab

LEMMA ClientsAreBrowsers ==
  ASSUME TabInv, [ClientNext]_allVars
  PROVE  [Next]_vars
<1>0. Tabs /\ TypeOK /\ Viewer \subseteq User /\ Len(messages) \in Nat
  BY ViewerAssumption DEF TabInv, RoomInv, IInv, TypeOK
<1>1. CASE Server
  BY <1>1 DEF Server, Next, Browser
<1>2. ASSUME NEW u \in Viewer, Client(u) PROVE [Next]_vars
  <2>1. CASE HistoryRead(u) \/ HistoryArrive(u) \/ Receive(u) \/ Closed(u)
    BY <2>1 DEF HistoryRead, HistoryArrive, Receive, Closed
  <2>2. ASSUME NEW s \in Socket, Dial(u, s) PROVE [Next]_vars
    <3>1. Connect(s, u, tab[u].last) /\ u \in User /\ tab[u].last \in 0 .. Len(messages)
      BY <1>0, <2>2, TabTyped DEF Dial, TabInv, Known
    <3> QED BY <3>1 DEF Next, Browser
  <2>3. CASE Opened(u)
    BY <2>3 DEF Opened, Next, Browser
  <2>4. CASE Blip(u)
    BY <2>4 DEF Blip, Next, Browser
  <2>5. ASSUME NEW r \in Request, Send(u, r) PROVE [Next]_vars
    <3>1. PostCheck(r, u, "text") /\ u \in User /\ "text" \in Kind
      BY <1>0, <2>5 DEF Send, Kind
    <3> QED BY <3>1 DEF Next, Rest, Post
  <2>6. CASE Answered(u)
    BY <2>6 DEF Answered, Next, Rest, Post
  <2>7. CASE Failed(u)
    BY <2>7 DEF Failed, Next, Rest
  <2> QED BY <1>2, <2>1, <2>2, <2>3, <2>4, <2>5, <2>6, <2>7 DEF Client
<1>3. CASE UNCHANGED allVars
  BY <1>3 DEF allVars
<1> QED BY <1>1, <1>2, <1>3 DEF ClientNext

LEMMA RoomInvStep ==
  ASSUME TabInv, [ClientNext]_allVars
  PROVE  RoomInv'
BY ClientsAreBrowsers, IInvStep, MessagedStep, ReplayOfStep DEF TabInv, RoomInv

(* What the invariant of the tabs asks of one tab.                         *)
TabKept(u) == tab'[u].last <= Len(messages') /\ (tab'[u].sock = None => tab'[u].pos = 0)

LEMMA TabInvStep ==
  ASSUME TabInv, [ClientNext]_allVars
  PROVE  TabInv'
<1>0. Tabs /\ TypeOK /\ IInv
  BY DEF TabInv, RoomInv, IInv
<1>1. Len(messages) \in Nat /\ Len(messages') \in Nat /\ Len(messages) <= Len(messages')
      /\ DOMAIN messages = 1 .. Len(messages)
  BY <1>0, ClientsAreBrowsers, Kept DEF IInv, TypeOK
<1>a. \A u \in Viewer : /\ tab[u].last \in Nat /\ tab[u].last <= Len(messages)
                        /\ (tab[u].sock = None => tab[u].pos = 0)
  BY <1>0, TabTyped DEF TabInv, Known, Unread
<1>2. ASSUME NEW u \in Viewer, tab'[u] = tab[u] \/ (SameLine(u) /\ SameSeen(u))
      PROVE  TabKept(u)
  BY <1>1, <1>2, <1>a DEF TabKept, SameLine, SameSeen
<1>3. ASSUME NEW u \in Viewer, Changed(u), TabKept(u)
      PROVE  Tabs' /\ \A v \in Viewer : TabKept(v)
  BY <1>2, <1>3 DEF Changed, Only
<1>b. ASSUME NEW u \in Viewer, Changed(u), SameLine(u) /\ SameSeen(u)
      PROVE  Tabs' /\ \A v \in Viewer : TabKept(v)
  BY <1>2, <1>3, <1>b
<1>4. ASSUME Server PROVE Tabs' /\ \A v \in Viewer : TabKept(v)
  BY <1>0, <1>2, <1>4, ServerTab DEF SameButLost
<1>5. ASSUME NEW u \in Viewer, Client(u) PROVE Tabs' /\ \A v \in Viewer : TabKept(v)
  <2>1. CASE HistoryRead(u) \/ HistoryArrive(u)
    BY <1>0, <1>b, <2>1, HistoryReadTab, HistoryArriveTab
  <2>2. ASSUME NEW s \in Socket, Dial(u, s) PROVE Tabs' /\ \A v \in Viewer : TabKept(v)
    <3>1. Changed(u) /\ SameSeen(u) /\ tab'[u].sock = s /\ s # None
      BY <1>0, <2>2, DialTab, NoneAssumption
    <3>2. TabKept(u)
      BY <1>1, <1>a, <3>1 DEF TabKept, SameSeen
    <3> QED BY <1>3, <3>1, <3>2
  <2>3. CASE Opened(u)
    BY <1>0, <1>2, <2>3 DEF Opened, Tabs
  <2>4. CASE Receive(u)
    <3>1. PICK s \in Socket, p \in Payload :
             /\ Changed(u) /\ tab[u].pos + 1 \in DOMAIN wire[s] /\ p = wire[s][tab[u].pos + 1]
             /\ \/ p.type = "new_message" /\ tab'[u].sock = s /\ tab'[u].last = p.msg
                \/ SameSeen(u) /\ tab'[u].sock = s
                \/ SameSeen(u) /\ tab'[u].sock = None /\ tab'[u].pos = 0
      BY <1>0, <2>4, ReceiveTab
    <3>2. p.type = "new_message" => p.msg \in DOMAIN messages
      BY <3>1 DEF TabInv, RoomInv, Messaged, Announces
    <3>3. TabKept(u)
      BY <1>1, <1>a, <3>1, <3>2, NoneAssumption DEF TabKept, SameSeen
    <3> QED BY <1>3, <3>1, <3>3
  <2>5. CASE Blip(u) \/ Closed(u)
    <3>1. Changed(u) /\ SameSeen(u) /\ tab'[u].pos = 0
      BY <1>0, <2>5, OnCloseTab
    <3>2. TabKept(u)
      BY <1>1, <1>a, <3>1 DEF TabKept, SameSeen
    <3> QED BY <1>3, <3>1, <3>2
  <2>6. ASSUME NEW r \in Request, Send(u, r) PROVE Tabs' /\ \A v \in Viewer : TabKept(v)
    BY <1>0, <1>b, <2>6, SendTab
  <2>7. CASE Answered(u)
    BY <1>0, <1>b, <2>7, AnsweredTab
  <2>8. CASE Failed(u)
    BY <1>0, <1>2, <2>8, FailedTab DEF SameButLost
  <2> QED BY <1>5, <2>1, <2>2, <2>3, <2>4, <2>5, <2>6, <2>7, <2>8 DEF Client
<1>6. ASSUME UNCHANGED allVars PROVE Tabs' /\ \A v \in Viewer : TabKept(v)
  BY <1>0, <1>2, <1>6 DEF allVars, Tabs
<1>7. Tabs' /\ \A u \in Viewer : TabKept(u)
  BY <1>4, <1>5, <1>6 DEF ClientNext
<1> QED BY <1>7, RoomInvStep DEF TabInv, Known, Unread, TabKept

LEMMA InitRoomInv == Init => RoomInv
<1> SUFFICES ASSUME Init PROVE Messaged /\ ReplayOf
  BY InitIInv DEF RoomInv
<1> QED BY DEF Init, Idle, Messaged, Announces, ReplayOf, Posting

LEMMA InitTabInv == ClientInit => TabInv
<1> SUFFICES ASSUME ClientInit PROVE TabInv
  OBVIOUS
<1> DEFINE new == [history |-> "due", fetched |-> <<>>, list |-> <<>>, sock |-> None,
                   pos |-> 0, last |-> 0, post |-> None, sent |-> FALSE,
                   open |-> TRUE, first |-> 0, lost |-> {}, echoed |-> FALSE]
<1>1. RoomInv /\ Len(messages) \in Nat /\ tab = [u \in Viewer |-> new]
  BY InitRoomInv DEF ClientInit, RoomInv, IInv, TypeOK
<1>2. <<>> \in Seq(Item)
  OBVIOUS
<1>3. new \in Tab /\ new.last = 0 /\ new.pos = 0
  BY <1>2 DEF Tab
<1> HIDE DEF new
<1> QED BY <1>1, <1>3 DEF TabInv, Tabs, Known, Unread

(* A room with the clients in it is one of the room: every guarantee that  *)
(* ChatRoom makes for any browsers holds for these (useChatWebSocket.js    *)
(* connects, syncs and leaves; ChatPage.jsx posts).                        *)
THEOREM ClientImplementsRoom == ClientSpec => Spec
<1>1. ClientInit => TabInv /\ Init
  BY InitTabInv DEF ClientInit
<1>2. TabInv /\ [ClientNext]_allVars => TabInv' /\ [Next]_vars
  BY TabInvStep, ClientsAreBrowsers
<1> QED BY <1>1, <1>2, PTL DEF ClientSpec, Spec

(* The types of the room and of the panes.                                 *)
THEOREM ClientTypeCorrect == ClientSpec => []ClientTypeOK
<1>1. ClientInit => TabInv
  BY InitTabInv
<1>2. TabInv /\ [ClientNext]_allVars => TabInv'
  BY TabInvStep
<1>3. TabInv => ClientTypeOK
  BY DEF TabInv, RoomInv, IInv, Tabs, Unread, ClientTypeOK
<1> QED BY <1>1, <1>2, <1>3, PTL DEF ClientSpec

-----------------------------------------------------------------------------
(* The viewer's own message: a tab posts one, its handler inserts it once. *)
Mine(u, m) == m \in DOMAIN messages /\ messages[m].sender = u

AtMostOne(u) == \A m, n \in DOMAIN messages : Mine(u, m) /\ Mine(u, n) => m = n

NoneOf(u) == \A m \in DOMAIN messages : ~Mine(u, m)

Inserting(u) == tab[u].post # None /\ request[tab[u].post].step = "insert"

Owner(u) ==
  /\ tab[u].post # None =>
       /\ tab[u].sent /\ request[tab[u].post].user = u
       /\ request[tab[u].post].step \in {"insert"} \cup Posted
       /\ request[tab[u].post].step # "insert" => Mine(u, request[tab[u].post].msg)
  /\ \A r \in Request : request[r].step = "insert" /\ request[r].user = u => tab[u].post = r
  /\ AtMostOne(u)
  /\ ~tab[u].sent \/ Inserting(u) => NoneOf(u)

(* A step of handler r that leaves the post of u alone.                    *)
Beside(u, r) ==
  /\ tab[u].post = r => request'[r].step # "idle"
  /\ request[r].step = "idle" /\ request'[r].step = "insert" => request'[r].user # u

LEMMA OwnerKept ==
  ASSUME TabInv, NEW u \in Viewer, Owner(u), SamePost(u),
         UNCHANGED <<messages, request>> \/ \E r \in Request : Rest(r) /\ Beside(u, r)
  PROVE  Owner(u)'
<1>0. IInv /\ TypeOK /\ tab[u].post \in Request \cup {None} /\ None \notin Request
      /\ Len(messages) \in Nat /\ DOMAIN messages = 1 .. Len(messages)
  BY TabTyped, NoneAssumption DEF TabInv, RoomInv, IInv, TypeOK
<1>1. CASE UNCHANGED <<messages, request>>
  BY <1>1 DEF Owner, Mine, AtMostOne, NoneOf, Inserting, SamePost
<1>2. ASSUME NEW r \in Request, Rest(r), Beside(u, r) PROVE Owner(u)'
  <2>1. HandlerStep(r) /\ \A q \in Request \ {r} : request'[q] = request[q]
    BY <1>0, <1>2, HandlerSteps DEF HandlerStep
  <2>2. messages' \in Seq(Message)
    BY <1>0, <1>2, RestStep DEF IInv, TypeOK
  <2>3. Len(messages') \in Nat /\ DOMAIN messages' = 1 .. Len(messages')
    BY <2>2
  <2>4. CASE Inserts(r)
    <3> DEFINE m == Len(messages) + 1
    <3>1. /\ DOMAIN messages' = DOMAIN messages \cup {m} /\ m \notin DOMAIN messages
          /\ messages'[m].sender = request[r].user
          /\ \A n \in DOMAIN messages : messages'[n].sender = messages[n].sender
          /\ request[r].step = "insert" /\ request'[r].step \in Posting
          /\ request'[r].user = request[r].user /\ request'[r].msg = m
      BY <1>0, <2>3, <2>4 DEF Inserts
    <3> HIDE DEF m
    <3>2. CASE request[r].user = u
      <4>1. tab[u].post = r /\ tab[u].sent /\ NoneOf(u)
        BY <1>0, <3>1, <3>2 DEF Owner, Inserting
      <4>2. \A n \in DOMAIN messages' : messages'[n].sender = u <=> n = m
        BY <3>1, <3>2, <4>1 DEF NoneOf, Mine
      <4>3. \A q \in Request : ~(request'[q].step = "insert" /\ request'[q].user = u)
        BY <2>1, <3>1, <4>1 DEF Owner, Posting
      <4> QED BY <3>1, <3>2, <4>1, <4>2, <4>3
              DEF Owner, Mine, AtMostOne, NoneOf, Inserting, SamePost, Posting, Posted
    <3>3. CASE request[r].user # u
      <4>1. tab[u].post # r /\ (tab[u].post # None => request'[tab[u].post] = request[tab[u].post])
        BY <1>0, <2>1, <3>3 DEF Owner
      <4>2. \A n : (n \in DOMAIN messages' /\ messages'[n].sender = u)
                     <=> (n \in DOMAIN messages /\ messages[n].sender = u)
        BY <3>1, <3>3
      <4>3. \A q \in Request : request'[q].step = "insert" => request'[q] = request[q]
        BY <2>1, <3>1 DEF Posting
      <4> QED BY <4>1, <4>2, <4>3 DEF Owner, Mine, AtMostOne, NoneOf, Inserting, SamePost
    <3> QED BY <3>2, <3>3
  <2>5. CASE SameSenders /\ (Starts(r) \/ Proceeds(r) \/ request'[r].step = "idle")
    <3>1. \A n : (n \in DOMAIN messages' /\ messages'[n].sender = u)
                   <=> (n \in DOMAIN messages /\ messages[n].sender = u)
      BY <1>0, <2>3, <2>5 DEF SameSenders
    <3>2. ASSUME NEW q \in Request, request'[q].step = "insert", request'[q].user = u
          PROVE  request[q].step = "insert" /\ request[q].user = u
      BY <1>2, <2>1, <2>5, <3>2 DEF Starts, Proceeds, Beside
    <3>3. ASSUME tab[u].post # None
          PROVE  LET q == tab[u].post IN
                 /\ request'[q].user = u /\ request'[q].step \in {"insert"} \cup Posted
                 /\ request'[q].step # "insert" => /\ request[q].step # "insert"
                                                   /\ request'[q].msg = request[q].msg
                 /\ request'[q].step = "insert" => request[q].step = "insert"
      <4>1. tab[u].post \in Request /\ request[tab[u].post].step # "idle"
            /\ request[tab[u].post].user = u
            /\ request[tab[u].post].step \in {"insert"} \cup Posted
        BY <1>0, <3>3 DEF Owner, Posted, Posting
      <4>2. CASE tab[u].post = r
        BY <1>2, <2>5, <4>1, <4>2 DEF Starts, Proceeds, Beside
      <4>3. CASE tab[u].post # r
        BY <2>1, <4>1, <4>3
      <4> QED BY <4>2, <4>3
    <3> QED BY <3>1, <3>2, <3>3 DEF Owner, Mine, AtMostOne, NoneOf, Inserting, SamePost
  <2> QED BY <2>1, <2>4, <2>5 DEF HandlerStep
<1> QED BY <1>1, <1>2

LEMMA OwnerStep ==
  ASSUME TabInv, \A u \in Viewer : Owner(u), [ClientNext]_allVars
  PROVE  \A u \in Viewer : Owner(u)'
<1>0. Tabs /\ TypeOK /\ None \notin Request /\ Len(messages) \in Nat
  BY NoneAssumption DEF TabInv, RoomInv, IInv, TypeOK
<1>a. ASSUME NEW u \in Viewer, SamePost(u), UNCHANGED <<messages, request>> PROVE Owner(u)'
  BY <1>a, OwnerKept
<1>1. ASSUME NEW u \in Viewer, Server PROVE Owner(u)'
  <2>1. SamePost(u)
    BY <1>0, <1>1, ServerTab DEF SameButLost
  <2>2. CASE \E r \in Request : Rest(r) /\ Beside(u, r)
    BY <2>1, <2>2, OwnerKept
  <2>3. CASE ~\E r \in Request : Rest(r) /\ Beside(u, r)
    <3>1. Objects \/ Browser
      BY <1>1, <2>3 DEF Server, Browser, Beside
    <3> QED BY <1>a, <2>1, <3>1, OtherSteps
  <2> QED BY <2>2, <2>3
<1>2. ASSUME NEW u \in Viewer, NEW v \in Viewer, Client(v) PROVE Owner(u)'
  <2>a. ASSUME Changed(v), SamePost(v) PROVE SamePost(u)
    BY <2>a DEF Changed, Only, SamePost
  <2>b. ASSUME Changed(v), u # v PROVE SamePost(u)
    BY <2>b DEF Changed, Only, SamePost
  <2>c. ASSUME NEW r \in Request, tab[v].post = r
        PROVE  request[r].step # "idle" /\ request[r].user = v
               /\ request[r].step \in {"insert"} \cup Posted
               /\ (request[r].step # "insert" => Mine(v, request[r].msg))
               /\ tab[v].sent /\ (u # v => tab[u].post # r)
    <3>1. Owner(v) /\ Owner(u) /\ r # None
      BY <1>0
    <3> QED BY <2>c, <3>1 DEF Owner, Posted, Posting
  <2>d. ASSUME NEW r \in Request, Answer(r), tab[v].post = r
        PROVE  request'[r].step = "idle" /\ \A q \in Request \ {r} : request'[q] = request[q]
    BY <1>0, <2>d DEF Answer, Idle, TypeOK
  <2>1. CASE HistoryRead(v) \/ HistoryArrive(v) \/ Receive(v)
    <3>1. Changed(v) /\ SamePost(v) /\ UNCHANGED vars
      BY <1>0, <2>1, HistoryReadTab, HistoryArriveTab, ReceiveTab
    <3> QED BY <1>a, <2>a, <3>1 DEF vars, rows
  <2>2. CASE \E s \in Socket : Dial(v, s)
    <3>1. Changed(v) /\ SamePost(v) /\ UNCHANGED <<messages, request>>
      BY <1>0, <2>2, DialTab DEF Connect, rows
    <3> QED BY <1>a, <2>a, <3>1
  <2>3. CASE Opened(v)
    <3>1. UNCHANGED tab /\ UNCHANGED <<messages, request>>
      BY <2>3 DEF Opened, Sync, rows
    <3> QED BY <1>a, <3>1 DEF SamePost
  <2>4. CASE Blip(v) \/ Closed(v)
    <3>1. Changed(v) /\ SamePost(v) /\ UNCHANGED <<messages, request>>
      BY <1>0, <2>4, OnCloseTab DEF Leave, rows, vars
    <3> QED BY <1>a, <2>a, <3>1
  <2>5. ASSUME NEW r \in Request, Send(v, r) PROVE Owner(u)'
    <3>1. Changed(v) /\ ~tab[v].sent /\ PostCheck(r, v, "text") /\ tab'[v].sent /\ tab'[v].post = r
      BY <1>0, <2>5, SendTab
    <3>2. request[r].step = "idle" /\ messages' = messages
          /\ \A q \in Request : request'[q] =
               IF q = r THEN [step |-> "insert", user |-> v, arg |-> "text", msg |-> 0,
                              online |-> {}, members |-> {}]
               ELSE request[q]
      BY <1>0, <3>1 DEF PostCheck, Start, rows, TypeOK
    <3>3. request'[r].step = "insert" /\ request'[r].user = v
          /\ \A q \in Request \ {r} : request'[q] = request[q]
      BY <3>2
    <3>4. CASE u = v
      <4>1. tab[u].post = None /\ NoneOf(u)
            /\ \A q \in Request : ~(request[q].step = "insert" /\ request[q].user = u)
        BY <1>0, <3>1, <3>4 DEF Owner
      <4> QED BY <3>1, <3>2, <3>3, <3>4, <4>1 DEF Owner, Mine, AtMostOne, NoneOf, Inserting
    <3>5. CASE u # v
      <4>1. Rest(r)
        BY <3>1, TabTyped, <1>0 DEF Rest, Post, Kind
      <4>2. Beside(u, r)
        BY <3>3, <3>5 DEF Beside
      <4> QED BY <2>b, <3>1, <3>5, <4>1, <4>2, OwnerKept
    <3> QED BY <3>4, <3>5
  <2>6. ASSUME NEW r \in Request, Answer(r), UNCHANGED rows, tab[v].post = r, tab'[v].post = None,
               tab'[v].sent = tab[v].sent, u # v => SamePost(u), Rest(r)
        PROVE  Owner(u)'
    <3>1. messages' = messages
      BY <2>6 DEF rows
    <3>2. CASE u = v
      <4>1. \A q \in Request : request'[q].step = "insert" => request[q] = request'[q] /\ q # r
        BY <2>6, <2>d
      <4>2. \A q \in Request : request'[q].step = "insert" => request'[q].user # u
        BY <2>6, <3>2, <4>1 DEF Owner
      <4>3. tab'[u].sent
        BY <2>6, <2>c, <3>2
      <4>4. Owner(u)
        OBVIOUS
      <4> QED BY <2>6, <3>1, <3>2, <4>2, <4>3, <4>4 DEF Owner, Mine, AtMostOne, NoneOf, Inserting
    <3>3. CASE u # v
      <4>1. Beside(u, r)
        BY <2>6, <2>c, <2>d, <3>3 DEF Beside
      <4> QED BY <2>6, <3>3, <4>1, OwnerKept
    <3> QED BY <3>2, <3>3
  <2>7. CASE Answered(v)
    <3>1. PICK r \in Request : /\ Changed(v) /\ tab[v].post = r /\ PostAnswer(r)
                               /\ tab'[v].sent = tab[v].sent /\ tab'[v].post = None
      BY <1>0, <2>7, AnsweredTab
    <3>2. Answer(r) /\ UNCHANGED rows /\ Rest(r)
      BY <3>1 DEF PostAnswer, Rest, Post
    <3> QED BY <2>6, <2>b, <3>1, <3>2
  <2>8. CASE Failed(v)
    <3>1. PICK r \in Request : /\ tab[v].post = r /\ RequestLost(r)
                               /\ tab'[v].sent = tab[v].sent /\ tab'[v].post = None
                               /\ \A w \in Viewer \ {v} : SameButLost(w)
      BY <1>0, <2>8, FailedTab
    <3>2. Answer(r) /\ UNCHANGED rows /\ Rest(r)
      BY <3>1 DEF RequestLost, Rest
    <3> QED BY <2>6, <3>1, <3>2 DEF SameButLost
  <2> QED BY <1>2, <2>1, <2>2, <2>3, <2>4, <2>5, <2>7, <2>8 DEF Client
<1>3. ASSUME NEW u \in Viewer, UNCHANGED allVars PROVE Owner(u)'
  BY <1>a, <1>3 DEF allVars, vars, rows, SamePost
<1> QED BY <1>1, <1>2, <1>3 DEF ClientNext

-----------------------------------------------------------------------------
(* The pane: a row stands for a message that is there or for the viewer's  *)
(* own that has no id yet; no message has two rows, but for the viewer's   *)
(* own after an echo, and the optimistic row is the only one of its        *)
(* message, but for the same reason.                                       *)
Standing(u, item) ==
  /\ item.msg = 0 => item.cid
  /\ item.msg # 0 => item.msg \in DOMAIN messages /\ (item.cid => messages[item.msg].sender = u)

Orderly(u, list, echoed) ==
  /\ \A i \in DOMAIN list : Standing(u, list[i])
  /\ \A i, j \in DOMAIN list :
       list[i].msg = list[j].msg => i = j \/ (echoed /\ list[i].msg # 0 /\ Mine(u, list[i].msg))
  /\ \A i, j \in DOMAIN list :
       list[i].msg = 0 /\ list[j].msg # 0 /\ Mine(u, list[j].msg) => echoed

Draft(list) == \E i \in DOMAIN list : list[i].msg = 0

LEMMA OrderlyLater ==
  ASSUME \A m \in DOMAIN messages : m \in DOMAIN messages' /\ messages'[m].sender = messages[m].sender,
         NEW u, NEW list \in Seq(Item), NEW echoed, Orderly(u, list, echoed)
  PROVE  Orderly(u, list, echoed)'
<1>1. \A i \in DOMAIN list : /\ Standing(u, list[i])'
                             /\ list[i].msg # 0 => (Mine(u, list[i].msg)' <=> Mine(u, list[i].msg))
  BY DEF Orderly, Standing, Mine
<1>2. \A i, j \in DOMAIN list :
       list[i].msg = list[j].msg => i = j \/ (echoed /\ list[i].msg # 0 /\ Mine(u, list[i].msg)')
  BY <1>1 DEF Orderly
<1>3. \A i, j \in DOMAIN list :
       list[i].msg = 0 /\ list[j].msg # 0 /\ Mine(u, list[j].msg)' => echoed
  BY <1>1 DEF Orderly
<1> QED BY <1>1, <1>2, <1>3 DEF Orderly

LEMMA OrderlyFetched ==
  ASSUME NEW u, NEW list \in Seq(Item), NEW echoed,
         \A i \in DOMAIN list : list[i].msg = i /\ ~list[i].cid /\ i \in DOMAIN messages
  PROVE  Orderly(u, list, echoed) /\ ~Draft(list)
<1>1. \A i \in DOMAIN list : i # 0
  OBVIOUS
<1> QED BY <1>1 DEF Orderly, Standing, Draft

LEMMA OrderlySame ==
  ASSUME NEW u, NEW list \in Seq(Item), NEW echoed, Orderly(u, list, echoed),
         NEW new \in Seq(Item), Len(new) = Len(list),
         \A i \in DOMAIN list : new[i].msg = list[i].msg /\ new[i].cid = list[i].cid
  PROVE  Orderly(u, new, echoed) /\ (Draft(new) => Draft(list))
<1>1. DOMAIN new = DOMAIN list
  OBVIOUS
<1> QED BY <1>1 DEF Orderly, Standing, Draft

LEMMA OrderlyChosen ==
  ASSUME NEW u, NEW list \in Seq(Item), NEW echoed, Orderly(u, list, echoed),
         NEW keep \in SUBSET DOMAIN list
  PROVE  Orderly(u, Selected(list, keep), echoed) /\ (Draft(Selected(list, keep)) => Draft(list))
<1> DEFINE new == Selected(list, keep)
<1>1. /\ \A n \in DOMAIN new : Nth(keep, n) \in keep /\ new[n] = list[Nth(keep, n)]
      /\ \A n, m \in DOMAIN new : Nth(keep, n) = Nth(keep, m) => n = m
  BY SelectedElements
<1> HIDE DEF new
<1>2. \A n \in DOMAIN new : Nth(keep, n) \in DOMAIN list
  BY <1>1
<1>3. Orderly(u, new, echoed) /\ (Draft(new) => Draft(list))
  BY <1>1, <1>2 DEF Orderly, Draft
<1> QED BY <1>3 DEF new

LEMMA OrderlyDraft ==
  ASSUME NEW u, NEW list \in Seq(Item), NEW echoed, Orderly(u, list, echoed), ~Draft(list), NoneOf(u)
  PROVE  Orderly(u, Append(list, [msg |-> 0, text |-> TRUE, cid |-> TRUE]), echoed)
<1> DEFINE item == [msg |-> 0, text |-> TRUE, cid |-> TRUE]
           new == Append(list, item)
           k == Len(list) + 1
<1>1. item \in Item /\ item.msg = 0 /\ item.cid
  BY DEF Item
<1> HIDE DEF item
<1>2. /\ DOMAIN new = DOMAIN list \cup {k} /\ new[k] = item
      /\ \A i \in DOMAIN list : i # k /\ new[i] = list[i]
  BY <1>1
<1> HIDE DEF k, new
<1>3. \A m : ~Mine(u, m)
  BY DEF NoneOf, Mine
<1>4. \A i \in DOMAIN list : list[i].msg # 0
  BY DEF Draft
<1>5. Standing(u, item)
  BY <1>1 DEF Standing
<1>6. Orderly(u, new, echoed)
  BY <1>1, <1>2, <1>3, <1>4, <1>5 DEF Orderly
<1> QED BY <1>6 DEF new, item

LEMMA OrderlySaved ==
  ASSUME NEW u, NEW list \in Seq(Item), NEW echoed, Orderly(u, list, echoed), AtMostOne(u),
         NEW m \in Nat, m # 0, Mine(u, m)
  PROVE  Orderly(u, Saved(list, m), echoed) /\ (Draft(Saved(list, m)) => Draft(list))
<1> DEFINE new == Saved(list, m)
           Hit(i) == list[i].cid \/ list[i].msg = m
<1>1. /\ DOMAIN new = DOMAIN list
      /\ \A i \in DOMAIN list : IF Hit(i) THEN new[i].msg = m /\ new[i].cid ELSE new[i] = list[i]
  BY SavedRows
<1> HIDE DEF new
<1>2. ASSUME NEW i \in DOMAIN list, Hit(i) PROVE list[i].msg \in {0, m}
  BY <1>2 DEF Orderly, Standing, AtMostOne, Mine
<1>3. ASSUME NEW i \in DOMAIN list, NEW j \in DOMAIN list, Hit(i), Hit(j), i # j
      PROVE  echoed
  <2>1. CASE list[i].msg = list[j].msg
    BY <1>3, <2>1 DEF Orderly
  <2>2. CASE list[i].msg = 0 /\ list[j].msg = m
    BY <2>2 DEF Orderly
  <2>3. CASE list[j].msg = 0 /\ list[i].msg = m
    BY <2>3 DEF Orderly
  <2> QED BY <1>2, <1>3, <2>1, <2>2, <2>3
<1>4. \A i \in DOMAIN list : new[i].msg # 0
  BY <1>1 DEF Orderly, Standing
<1>5. \A i \in DOMAIN new : Standing(u, new[i])
  <2> TAKE i \in DOMAIN new
  <2>1. CASE Hit(i)
    BY <1>1, <2>1 DEF Standing, Mine
  <2>2. CASE ~Hit(i)
    BY <1>1, <2>2 DEF Orderly
  <2> QED BY <2>1, <2>2
<1>6. ASSUME NEW i \in DOMAIN new, NEW j \in DOMAIN new, new[i].msg = new[j].msg
      PROVE  i = j \/ (echoed /\ new[i].msg # 0 /\ Mine(u, new[i].msg))
  <2>1. CASE Hit(i) /\ Hit(j)
    BY <1>1, <1>3, <2>1
  <2>2. CASE ~Hit(i) /\ ~Hit(j)
    BY <1>1, <1>6, <2>2 DEF Orderly
  <2>3. CASE Hit(i) # Hit(j)
    BY <1>1, <1>6, <2>3
  <2> QED BY <2>1, <2>2, <2>3
<1>7. Orderly(u, new, echoed) /\ ~Draft(new)
  BY <1>1, <1>4, <1>5, <1>6 DEF Orderly, Draft
<1> QED BY <1>7 DEF new

LEMMA OrderlyIncoming ==
  ASSUME NEW u, NEW list \in Seq(Item), NEW echoed \in BOOLEAN, Orderly(u, list, echoed), AtMostOne(u),
         NEW p \in Payload, p.msg # 0, p.msg \in DOMAIN messages,
         NEW now, now = (echoed \/ (messages[p.msg].sender = u /\ ~p.cid
                                     /\ \E i \in DOMAIN list : list[i].msg = 0))
  PROVE  /\ Orderly(u, Incoming(list, ItemOf(u, p)), now)
         /\ Draft(Incoming(list, ItemOf(u, p))) => Draft(list)
<1> DEFINE item == ItemOf(u, p)
           new == Incoming(list, item)
<1>1. item \in Item /\ item.msg = p.msg /\ (item.cid <=> p.cid /\ messages[p.msg].sender = u)
  BY ItemTyped
<1> HIDE DEF item
<1>2. new \in Seq(Item)
      /\ \/ new = Append(list, item) /\ \A j \in DOMAIN list : ~Matches(list[j], item)
         \/ \E k \in DOMAIN list : Takes(list, new, item, k)
  BY <1>1, IncomingRows
<1>3. Standing(u, item)
  BY <1>1 DEF Standing
<1>4. \A m : Mine(u, m) /\ Mine(u, item.msg) => m = item.msg
  BY <1>1 DEF AtMostOne, Mine
<1>5. Mine(u, item.msg) <=> messages[p.msg].sender = u
  BY <1>1 DEF Mine
<1>a. echoed => now
  OBVIOUS
<1>b. \A i \in DOMAIN list : list[i].msg = 0 /\ Mine(u, item.msg) /\ ~item.cid => now
  BY <1>1, <1>5
<1>c. item.cid => Mine(u, item.msg)
  BY <1>1, <1>5
<1>d. \A i \in DOMAIN list : list[i].cid => list[i].msg = 0 \/ Mine(u, list[i].msg)
  BY DEF Orderly, Standing, Mine
<1>6. ASSUME new = Append(list, item), \A j \in DOMAIN list : ~Matches(list[j], item)
      PROVE  Orderly(u, new, now) /\ (Draft(new) => Draft(list))
  <2> DEFINE k == Len(list) + 1
  <2>1. /\ DOMAIN new = DOMAIN list \cup {k} /\ new[k] = item
        /\ \A i \in DOMAIN list : i # k /\ new[i] = list[i]
    BY <1>1, <1>6
  <2> HIDE DEF k, new
  <2>2. \A i \in DOMAIN new : Standing(u, new[i])
    BY <1>3, <2>1 DEF Orderly
  <2>3. \A j \in DOMAIN list : list[j].msg # item.msg /\ ~(item.cid /\ list[j].cid)
    BY <1>6 DEF Matches
  <2>4. ASSUME NEW i \in DOMAIN new, NEW j \in DOMAIN new, new[i].msg = new[j].msg
        PROVE  i = j \/ (now /\ new[i].msg # 0 /\ Mine(u, new[i].msg))
    BY <1>a, <2>1, <2>3, <2>4 DEF Orderly
  <2>5. ASSUME NEW i \in DOMAIN new, NEW j \in DOMAIN new,
               new[i].msg = 0, new[j].msg # 0, Mine(u, new[j].msg)
        PROVE  now
    <3>1. i \in DOMAIN list /\ list[i].msg = 0 /\ list[i].cid
      BY <1>1, <2>1, <2>5 DEF Orderly, Standing
    <3>2. CASE j = k
      BY <1>b, <2>1, <2>3, <2>5, <3>1, <3>2
    <3>3. CASE j # k
      BY <1>a, <2>1, <2>5, <3>1, <3>3 DEF Orderly
    <3> QED BY <3>2, <3>3
  <2>6. Draft(new) => Draft(list)
    BY <1>1, <2>1 DEF Draft
  <2> QED BY <2>2, <2>4, <2>5, <2>6 DEF Orderly
<1>7. ASSUME NEW k \in DOMAIN list, Takes(list, new, item, k)
      PROVE  Orderly(u, new, now) /\ (Draft(new) => Draft(list))
  <2>1. /\ DOMAIN new = DOMAIN list /\ new[k] = item
        /\ \A i \in DOMAIN list : i # k => new[i] = list[i]
    BY <1>2, <1>7 DEF Takes
  <2>0. /\ Matches(list[k], item)
        /\ \A j \in DOMAIN list : Matches(list[j], item) => k <= j
    BY <1>7 DEF Takes
  <2> HIDE DEF new
  <2>2. \A i \in DOMAIN new : Standing(u, new[i])
    BY <1>3, <2>1 DEF Orderly
  <2>3. list[k].msg = item.msg \/ (item.cid /\ list[k].cid /\ (list[k].msg = 0 \/ list[k].msg = item.msg))
    BY <1>4, <1>c, <1>d, <2>0 DEF Matches
  <2>4. ASSUME NEW j \in DOMAIN list, j # k, list[j].msg = item.msg
        PROVE  now /\ item.msg # 0 /\ Mine(u, item.msg)
    <3>1. CASE list[k].msg = item.msg
      BY <1>a, <2>4, <3>1 DEF Orderly
    <3>2. CASE list[k].msg = 0 /\ item.cid
      BY <1>1, <1>a, <1>c, <2>4, <3>2 DEF Orderly
    <3> QED BY <2>3, <3>1, <3>2
  <2>5. ASSUME NEW i \in DOMAIN new, NEW j \in DOMAIN new, new[i].msg = new[j].msg
        PROVE  i = j \/ (now /\ new[i].msg # 0 /\ Mine(u, new[i].msg))
    <3>1. CASE i = k \/ j = k
      BY <2>1, <2>4, <2>5, <3>1
    <3>2. CASE i # k /\ j # k
      BY <1>a, <2>1, <2>5, <3>2 DEF Orderly
    <3> QED BY <3>1, <3>2
  <2>6. ASSUME NEW i \in DOMAIN new, NEW j \in DOMAIN new,
               new[i].msg = 0, new[j].msg # 0, Mine(u, new[j].msg)
        PROVE  now
    <3>1. i # k /\ list[i].msg = 0 /\ list[i].cid
      BY <1>1, <2>1, <2>6 DEF Orderly, Standing
    <3>2. CASE j # k
      BY <1>a, <2>1, <2>6, <3>1, <3>2 DEF Orderly
    <3>3. CASE j = k /\ list[k].msg = item.msg
      <4>1. Mine(u, list[k].msg) /\ list[k].msg # 0
        BY <1>1, <2>1, <2>6, <3>3
      <4>2. i \in DOMAIN list
        BY <2>1
      <4> QED BY <1>a, <3>1, <4>1, <4>2 DEF Orderly
    <3>4. CASE j = k /\ list[k].msg = 0
      BY <1>1, <2>1, <3>1, <3>4 DEF Orderly
    <3> QED BY <2>3, <3>2, <3>3, <3>4
  <2>7. Draft(new) => Draft(list)
    BY <1>1, <2>1 DEF Draft
  <2> QED BY <2>2, <2>5, <2>6, <2>7 DEF Orderly
<1>8. Orderly(u, new, now) /\ (Draft(new) => Draft(list))
  BY <1>2, <1>6, <1>7
<1> QED BY <1>8 DEF new, item

-----------------------------------------------------------------------------
(* The pane of a viewer, and what it fetched of the history.               *)
Fetched(list) ==
  \A i \in DOMAIN list : list[i].msg = i /\ ~list[i].cid /\ i \in DOMAIN messages

Neat(u) ==
  /\ Orderly(u, tab[u].list, tab[u].echoed)
  /\ Draft(tab[u].list) => tab[u].sent
  /\ Fetched(tab[u].fetched)

PaneInv == TabInv /\ \A u \in Viewer : Owner(u) /\ Neat(u)

LEMMA NeatLater ==
  ASSUME \A m \in DOMAIN messages : m \in DOMAIN messages' /\ messages'[m].sender = messages[m].sender,
         NEW u \in Viewer, Tabs', Orderly(u, tab'[u].list, tab'[u].echoed),
         Draft(tab'[u].list) => tab'[u].sent, Fetched(tab'[u].fetched)
  PROVE  Neat(u)'
<1>1. tab'[u].list \in Seq(Item)
  BY DEF Tabs, Tab
<1>2. Orderly(u, tab[u].list, tab[u].echoed)'
  <2>1. \A list \in Seq(Item) : \A echoed : Orderly(u, list, echoed) => Orderly(u, list, echoed)'
    BY OrderlyLater
  <2> QED BY <1>1, <2>1 DEF Orderly, Standing, Mine
<1> QED BY <1>2 DEF Neat, Draft, Fetched

LEMMA OthersAlike ==
  ASSUME Tabs, TypeOK, NEW u \in Viewer, NEW v \in Viewer, Client(v), v # u
  PROVE  \/ tab'[u] = tab[u]
         \/ SameButLost(u) /\ tab'[u].lost = tab[u].lost \cup Unannounced
<1>1. CASE Changed(v)
  BY <1>1 DEF Changed, Only
<1>2. CASE HistoryRead(v) \/ HistoryArrive(v) \/ (\E s \in Socket : Dial(v, s)) \/ Receive(v)
  BY <1>1, <1>2, HistoryReadTab, HistoryArriveTab, DialTab, ReceiveTab
<1>3. CASE Blip(v) \/ Closed(v) \/ (\E r \in Request : Send(v, r)) \/ Answered(v)
  BY <1>1, <1>3, OnCloseTab, SendTab, AnsweredTab
<1>4. CASE Opened(v)
  BY <1>4 DEF Opened
<1>5. CASE Failed(v)
  BY <1>5, FailedTab
<1> QED BY <1>2, <1>3, <1>4, <1>5 DEF Client

LEMMA NeatStep ==
  ASSUME PaneInv, [ClientNext]_allVars, NEW u \in Viewer
  PROVE  Neat(u)'
<1>0. TabInv /\ Tabs /\ Tabs' /\ TypeOK /\ IInv /\ Owner(u) /\ Neat(u)
      /\ DOMAIN messages = 1 .. Len(messages)
  BY TabInvStep DEF PaneInv, TabInv, RoomInv, IInv, TypeOK
<1>1. \A m \in DOMAIN messages : m \in DOMAIN messages' /\ messages'[m].sender = messages[m].sender
  BY <1>0, ClientsAreBrowsers, Kept
<1>a. ASSUME tab'[u].list = tab[u].list, tab'[u].echoed = tab[u].echoed,
             tab'[u].sent = tab[u].sent, tab'[u].fetched = tab[u].fetched
      PROVE  Neat(u)'
  BY <1>0, <1>1, <1>a, NeatLater DEF Neat
<1>2. CASE Server
  BY <1>0, <1>a, <1>2, ServerTab DEF SameButLost, SamePane, SameList, SamePost
<1>3. ASSUME NEW v \in Viewer, Client(v), v # u PROVE Neat(u)'
  <2>1. tab'[u] = tab[u] \/ SameButLost(u)
    BY <1>0, <1>3, OthersAlike
  <2> QED BY <1>a, <2>1 DEF SameButLost, SamePane, SameList, SamePost
<1>4. CASE Client(u)
  <2>0. tab[u].list \in Seq(Item) /\ tab[u].fetched \in Seq(Item) /\ tab[u].echoed \in BOOLEAN
        /\ AtMostOne(u) /\ Orderly(u, tab[u].list, tab[u].echoed)
        /\ (Draft(tab[u].list) => tab[u].sent) /\ Fetched(tab[u].fetched)
    BY <1>0 DEF Tabs, Tab, Owner, Neat
  <2>1. CASE HistoryRead(u)
    <3>1. /\ SameList(u) /\ SamePost(u) /\ tab'[u].fetched \in Seq(Item)
          /\ Len(tab'[u].fetched) = Len(messages)
          /\ \A i \in DOMAIN tab'[u].fetched : tab'[u].fetched[i].msg = i /\ ~tab'[u].fetched[i].cid
      BY <1>0, <2>1, HistoryReadTab DEF Tabs, Tab
    <3>2. Fetched(tab'[u].fetched)
      BY <1>0, <3>1 DEF Fetched
    <3> QED BY <1>0, <1>1, <2>0, <3>1, <3>2, NeatLater DEF SameList, SamePost
  <2>2. CASE HistoryArrive(u)
    <3>1. SamePost(u) /\ tab'[u].fetched = <<>> /\ tab'[u].list = tab[u].fetched
      BY <1>0, <2>2, HistoryArriveTab
    <3>2. Orderly(u, tab'[u].list, tab'[u].echoed) /\ ~Draft(tab'[u].list)
      <4>1. \A echoed : Orderly(u, tab[u].fetched, echoed) /\ ~Draft(tab[u].fetched)
        BY <2>0, OrderlyFetched DEF Fetched
      <4> QED BY <3>1, <4>1
    <3>3. Fetched(tab'[u].fetched)
      BY <3>1 DEF Fetched
    <3> QED BY <1>0, <1>1, <3>1, <3>2, <3>3, NeatLater
  <2>3. CASE \E s \in Socket : Dial(u, s)
    BY <1>0, <1>a, <2>3, DialTab DEF SamePane, SameList, SamePost
  <2>4. CASE Opened(u)
    BY <1>a, <2>4 DEF Opened
  <2>5. CASE Receive(u)
    <3>1. PICK s \in Socket, p \in Payload :
           /\ tab[u].pos + 1 \in DOMAIN wire[s] /\ p = wire[s][tab[u].pos + 1]
           /\ SamePost(u) /\ tab'[u].fetched = tab[u].fetched
           /\ \/ /\ p.type = "new_message"
                 /\ tab'[u].list = Incoming(tab[u].list, ItemOf(u, p))
                 /\ tab'[u].echoed = (tab[u].echoed
                      \/ (messages[p.msg].sender = u /\ ~p.cid
                          /\ \E i \in DOMAIN tab[u].list : tab[u].list[i].msg = 0))
              \/ /\ tab'[u].echoed = tab[u].echoed
                 /\ tab'[u].list = Blanked(u, tab[u].list, p.msg) \/ tab'[u].list = <<>>
      BY <1>0, <2>5, ReceiveTab
    <3>2. Fetched(tab'[u].fetched) /\ tab'[u].sent = tab[u].sent
      BY <2>0, <3>1 DEF SamePost
    <3>3. CASE p.type = "new_message" /\ tab'[u].list = Incoming(tab[u].list, ItemOf(u, p))
               /\ tab'[u].echoed = (tab[u].echoed
                      \/ (messages[p.msg].sender = u /\ ~p.cid
                          /\ \E i \in DOMAIN tab[u].list : tab[u].list[i].msg = 0))
      <4>1. p.msg \in DOMAIN messages /\ p.msg # 0
        BY <1>0, <3>1, <3>3 DEF TabInv, RoomInv, Messaged, Announces
      <4>2. Orderly(u, tab'[u].list, tab'[u].echoed) /\ (Draft(tab'[u].list) => Draft(tab[u].list))
        BY <2>0, <3>3, <4>1, OrderlyIncoming
      <4> QED BY <1>0, <1>1, <2>0, <3>2, <4>2, NeatLater
    <3>4. CASE tab'[u].echoed = tab[u].echoed /\ tab'[u].list = Blanked(u, tab[u].list, p.msg)
      <4>1. Orderly(u, tab'[u].list, tab'[u].echoed) /\ (Draft(tab'[u].list) => Draft(tab[u].list))
        BY <2>0, <3>4, BlankedRows, OrderlySame
      <4> QED BY <1>0, <1>1, <2>0, <3>2, <4>1, NeatLater
    <3>5. CASE tab'[u].echoed = tab[u].echoed /\ tab'[u].list = <<>>
      <4>1. Orderly(u, tab'[u].list, tab'[u].echoed) /\ ~Draft(tab'[u].list)
        BY <3>5 DEF Orderly, Draft
      <4> QED BY <1>0, <1>1, <3>2, <4>1, NeatLater
    <3> QED BY <3>1, <3>3, <3>4, <3>5
  <2>6. CASE Blip(u) \/ Closed(u)
    BY <1>0, <1>a, <2>6, OnCloseTab DEF SamePane, SameList, SamePost
  <2>7. ASSUME NEW r \in Request, Send(u, r) PROVE Neat(u)'
    <3>1. /\ SamePane(u) /\ ~tab[u].sent /\ tab'[u].sent /\ tab'[u].echoed = tab[u].echoed
          /\ tab'[u].list = Append(tab[u].list, [msg |-> 0, text |-> TRUE, cid |-> TRUE])
      BY <1>0, <2>7, SendTab
    <3>2. ~Draft(tab[u].list) /\ NoneOf(u)
      BY <1>0, <2>0, <3>1 DEF Owner
    <3>3. Orderly(u, tab'[u].list, tab'[u].echoed)
      BY <2>0, <3>1, <3>2, OrderlyDraft
    <3> QED BY <1>0, <1>1, <2>0, <3>1, <3>3, NeatLater DEF SamePane
  <2>8. CASE Answered(u)
    <3>1. PICK r \in Request : /\ SamePane(u) /\ tab[u].post = r /\ PostAnswer(r)
             /\ tab'[u].sent = tab[u].sent /\ tab'[u].echoed = tab[u].echoed
             /\ tab'[u].list = Saved(tab[u].list, request[r].msg)
      BY <1>0, <2>8, AnsweredTab
    <3>2. Mine(u, request[r].msg) /\ request[r].msg \in Nat
      <4>1. request[r].step # "insert" /\ tab[u].post # None /\ request[r] \in Local
        BY <1>0, <3>1, NoneAssumption DEF PostAnswer, TypeOK
      <4> QED BY <1>0, <3>1, <4>1 DEF Owner, Local
    <3>3. request[r].msg # 0
      BY <1>0, <3>2 DEF Mine
    <3>4. Orderly(u, tab'[u].list, tab'[u].echoed) /\ (Draft(tab'[u].list) => Draft(tab[u].list))
      BY <2>0, <3>1, <3>2, <3>3, OrderlySaved
    <3> QED BY <1>0, <1>1, <2>0, <3>1, <3>4, NeatLater DEF SamePane
  <2>9. CASE Failed(u)
    <3> DEFINE keep == {i \in DOMAIN tab[u].list : ~tab[u].list[i].cid}
    <3>1. /\ SamePane(u) /\ tab'[u].sent = tab[u].sent /\ tab'[u].echoed = tab[u].echoed
          /\ tab'[u].list = Selected(tab[u].list, keep)
      BY <1>0, <2>9, FailedTab
    <3>2. keep \in SUBSET DOMAIN tab[u].list
      OBVIOUS
    <3> HIDE DEF keep
    <3>3. Orderly(u, tab'[u].list, tab'[u].echoed) /\ (Draft(tab'[u].list) => Draft(tab[u].list))
      BY <2>0, <3>1, <3>2, OrderlyChosen
    <3> QED BY <1>0, <1>1, <2>0, <3>1, <3>3, NeatLater DEF SamePane
  <2> QED BY <1>4, <2>1, <2>2, <2>3, <2>4, <2>5, <2>6, <2>7, <2>8, <2>9 DEF Client
<1>5. CASE UNCHANGED allVars
  BY <1>a, <1>5 DEF allVars
<1> QED BY <1>2, <1>3, <1>4, <1>5 DEF ClientNext

LEMMA PaneInvStep ==
  ASSUME PaneInv, [ClientNext]_allVars
  PROVE  PaneInv'
BY TabInvStep, OwnerStep, NeatStep DEF PaneInv

LEMMA InitPaneInv == ClientInit => PaneInv
<1> SUFFICES ASSUME ClientInit, NEW u \in Viewer PROVE Owner(u) /\ Neat(u)
  BY InitTabInv DEF PaneInv
<1>1. /\ tab[u].list = <<>> /\ tab[u].fetched = <<>> /\ tab[u].post = None /\ ~tab[u].sent
      /\ messages = <<>> /\ \A r \in Request : request[r].step = "idle"
  BY DEF ClientInit, Init, Idle
<1> QED BY <1>1 DEF Owner, AtMostOne, NoneOf, Inserting, Neat, Orderly, Draft, Fetched

(* No message is shown twice, whatever the order of the optimistic row,    *)
(* the broadcast and the answer, but for the viewer's own after a replay   *)
(* brought it first (ChatPage.jsx:173-195, 430-470).                       *)
THEOREM ShownOnceHolds == ClientSpec => []ShownOnceUnlessEchoed
<1>1. ClientInit => PaneInv
  BY InitPaneInv
<1>2. PaneInv /\ [ClientNext]_allVars => PaneInv'
  BY PaneInvStep
<1>3. PaneInv => ShownOnceUnlessEchoed
  <2> SUFFICES ASSUME PaneInv, NEW u \in Viewer, NEW i \in DOMAIN tab[u].list,
                      NEW j \in DOMAIN tab[u].list, tab[u].list[i].msg = tab[u].list[j].msg, i # j
               PROVE  tab[u].echoed /\ tab[u].list[i].msg > 0
                      /\ messages[tab[u].list[i].msg].sender = u
    BY DEF ShownOnceUnlessEchoed
  <2>1. Orderly(u, tab[u].list, tab[u].echoed) /\ tab[u].list \in Seq(Item)
    BY DEF PaneInv, Neat, TabInv, Tabs, Tab
  <2>2. tab[u].list[i] \in Item
    BY <2>1
  <2>3. tab[u].list[i].msg \in Nat
    BY <2>2 DEF Item
  <2> QED BY <2>1, <2>3 DEF Orderly, Mine
<1> QED BY <1>1, <1>2, <1>3, PTL DEF ClientSpec

-----------------------------------------------------------------------------
(* A message that is on its way to a socket, of which k payloads are       *)
(* processed: on the wire, in a replay, or in a handler that has still to  *)
(* broadcast it.                                                           *)
Ahead(s, k, m) ==
  \E i \in DOMAIN wire[s] : i > k /\ wire[s][i].type = "new_message" /\ wire[s][i].msg = m

Fetching(s, m) ==
  \E p \in replays :
    /\ p.socket = s
    /\ \/ p.step = "select" /\ p.after < m
       \/ p.step = "send" /\ \E i \in DOMAIN p.rows : p.rows[i].msg = m

Held(m) == \E r \in Request : request[r].step \in Posting /\ request[r].msg = m

Coming(s, k, m) == Ahead(s, k, m) \/ Fetching(s, m) \/ Held(m)

LEMMA Longer ==
  ASSUME IInv, [Next]_vars, NEW s \in Socket
  PROVE  /\ Len(wire[s]) \in Nat /\ Len(wire'[s]) \in Nat /\ Len(wire[s]) <= Len(wire'[s])
         /\ DOMAIN wire[s] = 1 .. Len(wire[s]) /\ DOMAIN wire'[s] = 1 .. Len(wire'[s])
         /\ \A i \in DOMAIN wire[s] : i \in DOMAIN wire'[s] /\ wire'[s][i] = wire[s][i]
<1>1. PICK x : Brings(s, x) /\ wire'[s] = wire[s] \o x
  BY NextGrowth DEF Growth, Grows
<1>2. x \in Seq(Payload) /\ wire[s] \in Seq(Payload)
  BY <1>1 DEF Brings, IInv, TypeOK
<1> QED BY <1>1, <1>2

LEMMA Behind ==
  ASSUME NEW w \in Seq(Payload), NEW x \in Seq(Payload), NEW i \in DOMAIN x
  PROVE  /\ Len(w) + i \in DOMAIN (w \o x) /\ (w \o x)[Len(w) + i] = x[i]
         /\ \A k \in Nat : k <= Len(w) => Len(w) + i > k
<1>1. i \in 1 .. Len(x) /\ Len(x) \in Nat /\ Len(w) \in Nat
  OBVIOUS
<1>2. Len(w) + i \in 1 .. Len(w) + Len(x) /\ Len(w) + i > Len(w)
  BY <1>1
<1> QED BY <1>1, <1>2

LEMMA AheadKept ==
  ASSUME IInv, [Next]_vars, NEW s \in Socket, NEW k, NEW m, Ahead(s, k, m)
  PROVE  Ahead(s, k, m)'
BY Longer DEF Ahead

LEMMA FetchingKept ==
  ASSUME RoomInv, [Next]_vars, "database" \notin Fault,
         NEW s \in sessions, s \in sessions', NEW k \in Nat, k <= Len(wire[s]),
         NEW m \in DOMAIN messages, Fetching(s, m)
  PROVE  Fetching(s, m)' \/ Ahead(s, k, m)' \/ m \in CutOff(s)
<1>0. TypeOK /\ IInv /\ s \in Socket /\ wire[s] \in Seq(Payload)
      /\ m \in Nat /\ Len(messages) \in Nat /\ m <= Len(messages)
  BY DEF RoomInv, IInv, TypeOK
<1>1. PICK p \in replays :
        /\ p.socket = s
        /\ \/ p.step = "select" /\ p.after < m
           \/ p.step = "send" /\ \E i \in DOMAIN p.rows : p.rows[i].msg = m
  BY DEF Fetching
<1>2. p.after \in Nat /\ p.rows \in Seq(Payload) /\ p \in Replay
  BY <1>0, <1>1 DEF TypeOK, Replay
<1>3. CASE p \in replays'
  BY <1>1, <1>3 DEF Fetching
<1>4. CASE p \notin replays'
  <2>1. \/ ReplaySelect(p) \/ ReplaySend(p)
    <3>1. ASSUME NEW r \in Request, Rest(r) PROVE FALSE
      BY <1>0, <1>4, <3>1, RestWires
    <3>2. ASSUME NEW q \in replays, ReplaySelect(q) \/ ReplaySend(q), q # p PROVE FALSE
      BY <1>4, <3>2 DEF ReplaySelect, ReplaySend
    <3>3. CASE Objects
      BY <1>0, <1>4, <3>2, <3>3 DEF Objects, Admit, Register, Quiet, CloseEvent, Alarm, Restart
    <3>4. CASE Browser
      BY <1>4, <3>4 DEF Browser, Connect, Sync, Frame, FrameRefused, Ping, Leave
    <3>5. CASE UNCHANGED vars
      BY <1>4, <3>5 DEF vars, object
    <3> QED BY <3>1, <3>3, <3>4, <3>5 DEF Next
  <2>2. CASE ReplaySelect(p)
    <3> DEFINE q == [p EXCEPT !.step = "send", !.rows = Missed(p)]
    <3>1. p.step = "select" /\ q \in replays' /\ p.after < m
      BY <1>1, <2>2 DEF ReplaySelect
    <3>2. q.socket = s /\ q.step = "send" /\ q.rows = Missed(p)
      BY <1>1, <1>2 DEF Replay
    <3> HIDE DEF q
    <3>3. CASE m <= p.after + ReplayLimit
      <4>1. m - p.after \in DOMAIN q.rows /\ q.rows[m - p.after].msg = m
        BY <1>0, <3>1, <3>2, <3>3, SilentRows
      <4> QED BY <3>1, <3>2, <4>1 DEF Fetching
    <3>4. CASE ~(m <= p.after + ReplayLimit)
      <4>1. m \in p.after + ReplayLimit + 1 .. Len(messages)
        BY <1>0, <1>2, <3>4, BoundsAssumption
      <4> QED BY <1>1, <1>4, <3>1, <4>1 DEF CutOff
    <3> QED BY <3>3, <3>4
  <2>3. CASE ReplaySend(p)
    <3>1. wire'[s] = wire[s] \o p.rows /\ p.step = "send"
      BY <1>0, <1>1, <2>3 DEF ReplaySend, TypeOK
    <3>2. PICK i \in DOMAIN p.rows : p.rows[i].msg = m
      BY <1>1, <3>1
    <3>3. p.rows[i].type = "new_message"
      BY DEF RoomInv, Messaged
    <3>4. Len(wire[s]) + i \in DOMAIN wire'[s] /\ wire'[s][Len(wire[s]) + i] = p.rows[i]
          /\ Len(wire[s]) + i > k
      <4>1. /\ Len(wire[s]) + i \in DOMAIN (wire[s] \o p.rows)
            /\ (wire[s] \o p.rows)[Len(wire[s]) + i] = p.rows[i]
            /\ Len(wire[s]) + i > k
        BY <1>0, <1>2, <3>2, Behind
      <4> QED BY <3>1, <4>1
    <3> QED BY <3>2, <3>3, <3>4 DEF Ahead
  <2> QED BY <2>1, <2>2, <2>3
<1> QED BY <1>3, <1>4

(* What a handler that holds a message may do with it.                     *)
LEMMA HolderSteps ==
  ASSUME NEW r \in Request, request[r].step \in Posting, Rest(r)
  PROVE  PostCursor(r) \/ PostBroadcast(r) \/ RequestLost(r)
<1>1. request[r].step \in {"cursor", "post"}
  BY DEF Posting
<1>2. ~Delete(r) /\ ~ChangeStatus(r) /\ ~MarkRead(r) /\ ~ChangeMembers(r)
  BY <1>1 DEF Delete, DeleteCheck, DeleteUpdate, DeleteBroadcast, ChangeStatus, StatusCheck,
              StatusUpdate, StatusBroadcast, MarkRead, ReadCheck, ReadUpsert, ReadBroadcast,
              ChangeMembers, Unassign, Assign, Evict, Welcome, Start
<1>3. Post(r) => PostCursor(r) \/ PostBroadcast(r)
  BY <1>1 DEF Post, PostCheck, PostInsert, PostResolve, PostNotify, PostAnswer, Start
<1> QED BY <1>2, <1>3 DEF Rest

LEMMA HeldKept ==
  ASSUME RoomInv, [Next]_vars, "object" \notin Fault,
         NEW s \in sessions, s \in sessions', NEW k \in Nat, k <= Len(wire[s]),
         NEW m, Held(m)
  PROVE  Held(m)' \/ Ahead(s, k, m)' \/ m \in Unannounced
<1>0. TypeOK /\ IInv /\ s \in Socket /\ wire[s] \in Seq(Payload)
  BY DEF RoomInv, IInv, TypeOK
<1>1. PICK r \in Request : request[r].step \in Posting /\ request[r].msg = m
  BY DEF Held
<1>2. request[r] \in Local /\ m \in Nat /\ m # 0
  BY <1>0, <1>1 DEF TypeOK, Local, RoomInv, Messaged
<1>3. CASE request'[r] = request[r]
  BY <1>1, <1>3 DEF Held
<1>4. CASE request'[r] # request[r]
  <2>1. Rest(r)
    <3>1. ASSUME NEW q \in Request, Rest(q), q # r PROVE FALSE
      BY <1>0, <1>4, <3>1, HandlerSteps DEF HandlerStep
    <3> QED BY <1>4, <3>1, OtherSteps DEF Next
  <2>2. CASE PostCursor(r)
    <3>1. request'[r] = [request[r] EXCEPT !.step = "post"]
      BY <1>0, <2>2 DEF PostCursor, Continue, TypeOK
    <3>2. request'[r].step = "post" /\ request'[r].msg = m
      BY <1>1, <1>2, <3>1 DEF Local
    <3> QED BY <3>2 DEF Held, Posting
  <2>3. CASE PostBroadcast(r)
    <3> DEFINE x == <<NewMessage(request[r].msg, TRUE, TRUE)>>
    <3>1. Broadcast(sessions, x)
      BY <2>3 DEF PostBroadcast
    <3>2. x \in Seq(Payload) /\ Len(x) = 1 /\ x[1].type = "new_message" /\ x[1].msg = m
      BY <1>1, <1>2, OnePayload DEF NewMessage
    <3> HIDE DEF x
    <3>3. wire'[s] = wire[s] \o x
      BY <1>0, <3>1 DEF Broadcast
    <3>4. Len(wire[s]) + 1 \in DOMAIN wire'[s] /\ wire'[s][Len(wire[s]) + 1] = x[1]
          /\ Len(wire[s]) + 1 > k
      <4>1. 1 \in DOMAIN x
        BY <3>2
      <4>2. /\ Len(wire[s]) + 1 \in DOMAIN (wire[s] \o x)
            /\ (wire[s] \o x)[Len(wire[s]) + 1] = x[1]
            /\ Len(wire[s]) + 1 > k
        BY <1>0, <3>2, <4>1, Behind
      <4> QED BY <3>3, <4>2
    <3> QED BY <3>2, <3>4 DEF Ahead
  <2>4. CASE RequestLost(r)
    <3>1. request'[r].step = "idle"
      BY <1>0, <2>4 DEF RequestLost, Answer, Idle, TypeOK
    <3> QED BY <1>1, <1>2, <3>1 DEF Unannounced, Stored, Posting
  <2> QED BY <1>1, <2>1, <2>2, <2>3, <2>4, HolderSteps
<1> QED BY <1>3, <1>4

LEMMA ComingKept ==
  ASSUME RoomInv, [Next]_vars, "object" \notin Fault, "database" \notin Fault,
         NEW s \in sessions, s \in sessions', NEW k \in Nat, k <= Len(wire[s]),
         NEW m \in DOMAIN messages, Coming(s, k, m)
  PROVE  Coming(s, k, m)' \/ m \in Unannounced \/ m \in CutOff(s)
<1>1. s \in Socket
  BY DEF RoomInv, IInv, TypeOK
<1>2. CASE Ahead(s, k, m)
  BY <1>1, <1>2, AheadKept DEF RoomInv, Coming
<1>3. CASE Fetching(s, m)
  BY <1>3, FetchingKept DEF Coming
<1>4. CASE Held(m)
  BY <1>4, HeldKept DEF Coming
<1> QED BY <1>2, <1>3, <1>4 DEF Coming

(* A step adds one message at most, and its handler holds it.              *)
LEMMA NewHeld ==
  ASSUME IInv, [Next]_vars
  PROVE  \/ Len(messages') = Len(messages)
         \/ /\ Len(messages') = Len(messages) + 1
            /\ \E q \in Request : request'[q].step \in Posting /\ request'[q].msg = Len(messages')
<1>1. ASSUME NEW r \in Request, Rest(r)
      PROVE  \/ Len(messages') = Len(messages)
             \/ /\ Len(messages') = Len(messages) + 1
                /\ \E q \in Request : request'[q].step \in Posting /\ request'[q].msg = Len(messages')
  <2>1. CASE Inserts(r)
    <3>1. request'[r].step \in Posting /\ request'[r].msg = Len(messages')
          /\ Len(messages') = Len(messages) + 1
      BY <2>1 DEF Inserts
    <3> QED BY <3>1
  <2>2. CASE SameSenders
    BY <2>2 DEF SameSenders
  <2> QED BY <1>1, <2>1, <2>2, HandlerSteps DEF HandlerStep
<1> QED BY <1>1, OtherSteps DEF Next

(* With one handler at a time, the message that it holds is the newest.    *)
Newest == \A r \in Request : request[r].step \in Posting => request[r].msg = Len(messages)

LEMMA NewestStep ==
  ASSUME OneHandler, IInv, Newest, [Next]_vars
  PROVE  Newest'
<1> SUFFICES ASSUME NEW r \in Request, request'[r].step \in Posting
             PROVE  request'[r].msg = Len(messages')
  BY DEF Newest
<1>1. CASE Rest(r)
  <2>1. CASE Inserts(r)
    BY <2>1 DEF Inserts
  <2>2. CASE SameSenders /\ Proceeds(r)
    BY <2>2 DEF SameSenders, Proceeds, Newest
  <2> QED BY <1>1, <2>1, <2>2, HandlerSteps DEF HandlerStep, Starts, Posting
<1>2. CASE ~Rest(r)
  <2>1. \A q \in Request : ~Rest(q)
    BY <1>2 DEF OneHandler
  <2>2. UNCHANGED <<messages, request>>
    BY <2>1, OtherSteps DEF Next
  <2> QED BY <2>2 DEF Newest
<1> QED BY <1>1, <1>2

-----------------------------------------------------------------------------
(* What a viewer has of the messages, and of those that are on their way.  *)
(* A socket that was opened with a last message (after) is owed everything *)
(* beyond it once the client has asked for it; one that was opened without *)
(* carries every message from the first that it carries on.                *)
Covered(u) == Shown(u) \cup tab[u].lost

LineInv(u) ==
  /\ tab[u].first = 0 <=> tab[u].last = 0
  /\ tab[u].history # "over" => tab[u].sock = None /\ tab[u].first = 0
  /\ \A s \in Socket : tab[u].sock = s =>
       /\ conn[s].step # "free" /\ tab[u].pos <= Len(wire[s])
       /\ tab[u].first = 0 => conn[s].after = 0
       /\ tab[u].first # 0 /\ conn[s].after = 0 => tab[u].pos # 0

Passed(u) ==
  tab[u].open /\ tab[u].first # 0 => \A s \in Socket : tab[u].sock = s =>
    \A m \in tab[u].first .. conn[s].after : m \in Covered(u)

Ordered(u) ==
  tab[u].open => \A s \in sessions : tab[u].sock = s /\ conn[s].after = 0 =>
    \A i \in DOMAIN wire[s] : wire[s][i].type = "new_message" =>
      \A m \in wire[s][i].msg .. Len(messages) : m \in tab[u].lost \/ Coming(s, i - 1, m)

Asked(s) == conn[s].step = "synced" \/ conn[s].after = 0

Served(u) ==
  tab[u].open /\ tab[u].first # 0 => \A s \in sessions : tab[u].sock = s /\ Asked(s) =>
    \A m \in tab[u].first .. Len(messages) :
      m > conn[s].after => m \in Covered(u) \/ Coming(s, tab[u].pos, m)

Track(u) == LineInv(u) /\ Passed(u) /\ Ordered(u) /\ Served(u)

(* The connection of the tab goes on, and what the step loses is marked.   *)
GoesOn(u) ==
  /\ SameLine(u) /\ SameSeen(u) /\ tab'[u].open = tab[u].open
  /\ tab[u].history = "over" => tab'[u].history = "over"
  /\ tab[u].lost \cup Unannounced \cup CutOff(tab[u].sock) \subseteq tab'[u].lost
  /\ tab[u].first # 0 => \A m \in Shown(u) : m = 0 \/ m \in Covered(u)'

LEMMA Between ==
  ASSUME NEW m \in Nat, NEW old \in Nat, NEW new \in Nat, m >= old, m <= new, m # old,
         new = old \/ new = old + 1
  PROVE  m = new /\ new # old
OBVIOUS

LEMMA GoingOn ==
  ASSUME "object" \notin Fault, "database" \notin Fault,
         RoomInv, Newest, Tabs, [Next]_vars,
         NEW u \in Viewer, Track(u), GoesOn(u)
  PROVE  Track(u)'
<1>0. /\ TypeOK /\ IInv /\ sessions \subseteq Socket
      /\ Len(messages) \in Nat /\ DOMAIN messages = 1 .. Len(messages)
      /\ Len(messages') \in Nat /\ Len(messages) <= Len(messages')
      /\ tab[u].pos \in Nat /\ tab[u].first \in Nat /\ tab[u].lost \subseteq tab'[u].lost
      /\ LineInv(u) /\ Passed(u) /\ Ordered(u) /\ Served(u)
  BY Kept, TabTyped DEF RoomInv, IInv, TypeOK, GoesOn, Track
<1>1. ASSUME NEW s \in Socket, tab[u].sock = s
      PROVE  /\ SameConn(s) /\ conn[s].after \in Nat
             /\ Len(wire[s]) \in Nat /\ Len(wire'[s]) \in Nat /\ Len(wire[s]) <= Len(wire'[s])
             /\ tab[u].pos <= Len(wire[s])
  BY <1>0, <1>1, ConnKept, Longer DEF LineInv, TypeOK, Upgrade
<1>2. sessions' \subseteq Socket
  BY <1>0, IInvStep DEF IInv, TypeOK
<1>3. ASSUME NEW s \in sessions, tab[u].sock = s, s \in sessions', NEW k \in Nat, k <= Len(wire[s]),
             NEW m \in Nat, m # 0, m <= Len(messages'),
             m <= Len(messages) => Coming(s, k, m)
      PROVE  m \in tab'[u].lost \/ Coming(s, k, m)'
  <2>1. CASE m <= Len(messages)
    <3>1. m \in DOMAIN messages
      BY <1>0, <1>3, <2>1
    <3>2. Coming(s, k, m)' \/ m \in Unannounced \/ m \in CutOff(s)
      BY <1>3, <2>1, <3>1, ComingKept
    <3> QED BY <1>3, <3>2 DEF GoesOn
  <2>2. CASE ~(m <= Len(messages))
    <3>1. m = Len(messages') /\ \E q \in Request : request'[q].step \in Posting /\ request'[q].msg = m
      BY <1>0, <1>3, <2>2, NewHeld
    <3> QED BY <3>1 DEF Coming, Held
  <2> QED BY <2>1, <2>2
<1>a. ASSUME NEW s \in sessions', tab[u].sock = s, s \notin sessions
      PROVE  wire'[s] = <<>> /\ wire[s] = <<>> /\ conn'[s].step = "open"
             /\ (tab[u].first # 0 => conn[s].after # 0)
  <2>1. wire[s] = <<>> /\ wire'[s] = wire[s]
    <3>1. ReplaysPlain
      BY DEF RoomInv, Messaged, ReplaysPlain, Plain
    <3> QED BY <1>0, <1>2, <1>a, <3>1, NextWires DEF WireStep
  <2>2. conn'[s].step = "open"
    BY <1>1, <1>2, <1>a DEF SameConn
  <2>3. tab[u].first # 0 => conn[s].after # 0
    BY <1>0, <1>2, <1>a, <2>1 DEF LineInv
  <2> QED BY <2>1, <2>2, <2>3
<1>4. LineInv(u)'
  <2>1. /\ tab'[u].first = 0 <=> tab'[u].last = 0
        /\ tab'[u].history # "over" => tab'[u].sock = None /\ tab'[u].first = 0
    BY <1>0 DEF LineInv, GoesOn, SameLine, SameSeen
  <2>2. ASSUME NEW s \in Socket, tab'[u].sock = s
        PROVE  /\ conn'[s].step # "free" /\ tab'[u].pos <= Len(wire'[s])
               /\ tab'[u].first = 0 => conn'[s].after = 0
               /\ tab'[u].first # 0 /\ conn'[s].after = 0 => tab'[u].pos # 0
    BY <1>0, <1>1, <2>2 DEF LineInv, GoesOn, SameLine, SameSeen, SameConn
  <2> QED BY <2>1, <2>2 DEF LineInv
<1>b. ASSUME NEW m \in Covered(u), m # 0, tab[u].first # 0 PROVE m \in Covered(u)'
  BY <1>0, <1>b DEF Covered, GoesOn
<1>5. Passed(u)'
  <2> SUFFICES ASSUME tab'[u].open, tab'[u].first # 0, NEW s \in Socket, tab'[u].sock = s,
                      NEW m \in tab'[u].first .. conn'[s].after
               PROVE  m \in Covered(u)'
    BY DEF Passed
  <2>1. tab[u].open /\ tab[u].first # 0 /\ tab[u].sock = s /\ m \in tab[u].first .. conn[s].after
    BY <1>1 DEF GoesOn, SameLine, SameSeen, SameConn
  <2>2. m \in Covered(u) /\ m # 0
    BY <1>0, <1>1, <2>1 DEF Passed
  <2> QED BY <1>b, <2>1, <2>2
<1>6. Ordered(u)'
  <2> SUFFICES ASSUME tab'[u].open, NEW s \in sessions', tab'[u].sock = s, conn'[s].after = 0,
                      NEW i \in DOMAIN wire'[s], wire'[s][i].type = "new_message",
                      NEW m \in wire'[s][i].msg .. Len(messages')
               PROVE  m \in tab'[u].lost \/ Coming(s, i - 1, m)'
    BY DEF Ordered
  <2>1. s \in Socket /\ tab[u].open /\ tab[u].sock = s /\ conn[s].after = 0
    BY <1>1, <1>2 DEF GoesOn, SameLine, SameConn
  <2>2. s \in sessions
    BY <1>a, <2>1
  <2>3. DOMAIN wire'[s] = 1 .. Len(wire'[s]) /\ DOMAIN wire[s] = 1 .. Len(wire[s])
        /\ \A j \in DOMAIN wire[s] : wire'[s][j] = wire[s][j]
    BY <1>0, <2>1, Longer
  <2>4. wire'[s][i].msg \in DOMAIN messages' /\ DOMAIN messages' = 1 .. Len(messages')
    <3>1. Messaged'
      BY MessagedStep DEF RoomInv
    <3> QED BY <1>0, <2>1, <3>1, Kept DEF Messaged, Announces
  <2>5. m \in Nat /\ m # 0 /\ m <= Len(messages') /\ i - 1 \in Nat
    BY <1>0, <2>3, <2>4
  <2>6. CASE i \in DOMAIN wire[s]
    <3>1. wire[s][i].type = "new_message" /\ m >= wire[s][i].msg /\ wire[s][i].msg \in Nat
      BY <2>3, <2>4, <2>6
    <3>2. m <= Len(messages) => m \in tab[u].lost \/ Coming(s, i - 1, m)
      BY <1>0, <2>1, <2>2, <2>5, <2>6, <3>1 DEF Ordered
    <3>3. i - 1 <= Len(wire[s])
      BY <1>1, <2>1, <2>3, <2>6
    <3> QED BY <1>0, <1>3, <2>1, <2>2, <2>5, <3>2, <3>3
  <2>7. CASE i \notin DOMAIN wire[s]
    <3>1. PICK x : Brings(s, x) /\ wire'[s] = wire[s] \o x
      BY <1>0, <2>1, NextGrowth DEF Growth, Grows
    <3>2. x \in Seq(Payload) /\ wire[s] \in Seq(Payload)
      BY <1>0, <2>1, <3>1 DEF Brings, TypeOK
    <3>3. i - Len(wire[s]) \in DOMAIN x /\ wire'[s][i] = x[i - Len(wire[s])]
      BY <2>3, <2>7, <3>1, <3>2
    <3>4. \A p \in replays : p.socket # s
      BY <2>1 DEF RoomInv, ReplayOf
    <3>5. PICK r \in Request : request[r].step = "post" /\ x = <<NewMessage(request[r].msg, TRUE, TRUE)>>
      BY <3>1, <3>3, <3>4 DEF Brings, Silence
    <3>6. wire'[s][i].msg = Len(messages)
      <4>1. request[r].msg = Len(messages)
        BY <3>5 DEF Newest, Posting
      <4>2. i - Len(wire[s]) = 1
        BY <3>3, <3>5
      <4> QED BY <3>3, <3>5, <4>1, <4>2 DEF NewMessage
    <3>7. CASE m = Len(messages)
      <4>1. i > i - 1
        BY <2>3
      <4> QED BY <3>6, <3>7, <4>1 DEF Coming, Ahead
    <3>8. CASE m # Len(messages)
      <4>1. m = Len(messages') /\ \E q \in Request : request'[q].step \in Posting /\ request'[q].msg = m
        <5>1. m >= Len(messages)
          BY <1>0, <2>5, <3>6
        <5>2. Len(messages') = Len(messages) \/ Len(messages') = Len(messages) + 1
          BY <1>0, NewHeld
        <5>3. m = Len(messages') /\ Len(messages') # Len(messages)
          <6>1. Len(messages) \in Nat /\ Len(messages') \in Nat
            BY <1>0
          <6>2. m \in Nat /\ m <= Len(messages')
            BY <2>5
          <6> QED BY <3>8, <5>1, <5>2, <6>1, <6>2, Between
        <5> QED BY <1>0, <5>3, NewHeld
      <4> QED BY <4>1 DEF Coming, Held
    <3> QED BY <3>7, <3>8
  <2> QED BY <2>6, <2>7
<1>7. Served(u)'
  <2> SUFFICES ASSUME tab'[u].open, tab'[u].first # 0, NEW s \in sessions', tab'[u].sock = s, Asked(s)',
                      NEW m \in tab'[u].first .. Len(messages'), m > conn'[s].after
               PROVE  m \in Covered(u)' \/ Coming(s, tab[u].pos, m)'
    BY DEF Served
  <2>1. /\ s \in Socket /\ tab[u].open /\ tab[u].sock = s /\ conn[s].after = conn'[s].after
        /\ tab[u].first # 0 /\ tab'[u].first = tab[u].first /\ tab'[u].pos = tab[u].pos
    BY <1>1, <1>2 DEF GoesOn, SameLine, SameSeen, SameConn
  <2>2. m \in Nat /\ m # 0 /\ m <= Len(messages') /\ m > conn[s].after /\ m >= tab[u].first
    BY <1>0, <2>1
  <2>3. s \in sessions
    BY <1>a, <2>1 DEF Asked
  <2>4. CASE Asked(s)
    <3>1. m <= Len(messages) => m \in Covered(u) \/ Coming(s, tab[u].pos, m)
      BY <1>0, <2>1, <2>2, <2>3, <2>4 DEF Served
    <3>2. CASE m \in Covered(u)
      BY <1>b, <2>1, <2>2, <3>2
    <3>3. CASE m \notin Covered(u)
      <4>1. m \in tab'[u].lost \/ Coming(s, tab[u].pos, m)'
        <5>1. tab[u].pos \in Nat /\ tab[u].pos <= Len(wire[s])
          BY <1>0, <1>1, <2>1
        <5>2. PICK k \in Nat : k = tab[u].pos /\ k = tab'[u].pos
          BY <2>1, <5>1
        <5>3. m \in tab'[u].lost \/ Coming(s, k, m)'
          BY <1>3, <2>1, <2>2, <2>3, <3>1, <3>3, <5>1, <5>2
        <5> QED BY <5>2, <5>3 DEF Coming, Ahead
      <4> QED BY <4>1 DEF Covered
    <3> QED BY <3>2, <3>3
  <2>5. CASE ~Asked(s)
    <3>1. Sync(s) /\ conn[s].after # 0
      BY <1>1, <2>1, <2>5 DEF Asked, SameConn
    <3>2. \E p \in replays' : p.socket = s /\ p.step = "select" /\ p.after = conn[s].after
      <4> DEFINE p == [socket |-> s, step |-> "select", after |-> conn[s].after,
                       admin |-> FALSE, rows |-> <<>>]
      <4>1. p \in replays'
        BY <3>1 DEF Sync
      <4>2. p.socket = s /\ p.step = "select" /\ p.after = conn[s].after
        OBVIOUS
      <4> HIDE DEF p
      <4> QED BY <4>1, <4>2
    <3> QED BY <2>2, <3>2 DEF Coming, Fetching
  <2> QED BY <2>4, <2>5
<1> QED BY <1>4, <1>5, <1>6, <1>7 DEF Track

LEMMA SelectedKeeps ==
  ASSUME NEW list \in Seq(Item), NEW keep \in SUBSET DOMAIN list, NEW i \in keep
  PROVE  \E k \in DOMAIN Selected(list, keep) : Selected(list, keep)[k] = list[i]
BY SelectedElements

(* What a step of a client loses: no replay, and a message only with the   *)
(* handler that the client waits for.                                      *)
LEMMA ClientKeepsReplays ==
  ASSUME NEW v \in Viewer, Client(v)
  PROVE  \A s : CutOff(s) = {}
<1>1. replays \subseteq replays'
  <2>1. CASE HistoryRead(v) \/ HistoryArrive(v) \/ Receive(v) \/ Closed(v)
    BY <2>1 DEF HistoryRead, HistoryArrive, Receive, Closed, vars, object
  <2>2. ASSUME NEW s \in Socket, Dial(v, s) PROVE replays \subseteq replays'
    BY <2>2 DEF Dial, Connect
  <2>3. CASE Opened(v)
    BY <2>3 DEF Opened, Sync
  <2>4. CASE Blip(v)
    BY <2>4 DEF Blip, Leave
  <2>5. ASSUME NEW r \in Request, Send(v, r) PROVE replays \subseteq replays'
    BY <2>5 DEF Send, PostCheck, object
  <2>6. CASE Answered(v)
    BY <2>6 DEF Answered, PostAnswer, object
  <2>7. CASE Failed(v)
    BY <2>7 DEF Failed, RequestLost, object
  <2> QED BY <2>1, <2>2, <2>3, <2>4, <2>5, <2>6, <2>7 DEF Client
<1> QED BY <1>1 DEF CutOff

LEMMA ClientLosesOwn ==
  ASSUME TypeOK, NEW v \in Viewer, Client(v)
  PROVE  /\ ~Failed(v) => Unannounced = {}
         /\ \A r \in Request : tab[v].post = r /\ RequestLost(r) => Unannounced \subseteq Stored(r)
<1>1. ASSUME NEW r \in Request, tab[v].post = r, RequestLost(r)
      PROVE  Unannounced \subseteq Stored(r)
  <2>1. \A q \in Request \ {r} : request'[q] = request[q]
    BY <1>1 DEF RequestLost, Answer, TypeOK
  <2> QED BY <2>1 DEF Unannounced
<1>2. ASSUME ~Failed(v), NEW q \in Request, request[q].step \in {"cursor", "post"}
      PROVE  request'[q].step # "idle"
  <2>1. CASE HistoryRead(v) \/ HistoryArrive(v) \/ Receive(v) \/ Closed(v)
    BY <1>2, <2>1 DEF HistoryRead, HistoryArrive, Receive, Closed, vars
  <2>2. ASSUME NEW s \in Socket, Dial(v, s) PROVE request' = request
    BY <2>2 DEF Dial, Connect
  <2>3. CASE Opened(v)
    BY <1>2, <2>3 DEF Opened, Sync
  <2>4. CASE Blip(v)
    BY <1>2, <2>4 DEF Blip, Leave
  <2>5. ASSUME NEW r \in Request, Send(v, r) PROVE request'[q].step # "idle"
    BY <1>2, <2>5 DEF Send, PostCheck, Start, TypeOK
  <2>6. CASE Answered(v)
    BY <1>2, <2>6 DEF Answered, PostAnswer, Answer, TypeOK
  <2> QED BY <1>2, <2>1, <2>2, <2>3, <2>4, <2>5, <2>6 DEF Client
<1> QED BY <1>1, <1>2 DEF Unannounced

(* A step that changes nothing but what is marked as lost.                 *)
LEMMA MarkedGoesOn ==
  ASSUME Tabs, NEW u \in Viewer, SameButLost(u),
         tab[u].lost \cup Unannounced \cup CutOff(tab[u].sock) \subseteq tab'[u].lost
  PROVE  GoesOn(u)
<1>1. tab'[u].list = tab[u].list /\ SamePane(u) /\ SameLine(u) /\ SameSeen(u)
  BY DEF SameButLost, SameList
<1>2. Shown(u)' = Shown(u)
  BY <1>1 DEF Shown
<1> QED BY <1>1, <1>2 DEF GoesOn, SamePane, Covered

(* The steps of a client that leave its connection alone.                  *)
LEMMA PaneGoesOn ==
  ASSUME PaneInv, NEW u \in Viewer, LineInv(u),
         \/ HistoryRead(u) \/ HistoryArrive(u) \/ Opened(u)
         \/ \E r \in Request : Send(u, r)
         \/ Answered(u) \/ Failed(u)
  PROVE  GoesOn(u)
<1>0. TypeOK /\ Tabs /\ Owner(u) /\ Neat(u) /\ Client(u)
  BY DEF PaneInv, TabInv, RoomInv, IInv, Client
<1>1. CutOff(tab[u].sock) = {} /\ (~Failed(u) => Unannounced = {})
  BY <1>0, ClientKeepsReplays, ClientLosesOwn
<1>2. CASE HistoryRead(u)
  <2>1. ~Failed(u) \/ Unannounced = {}
    BY <1>2 DEF HistoryRead, Unannounced, vars
  <2>2. /\ SameList(u) /\ SameLine(u) /\ SameSeen(u) /\ SameLost(u)
        /\ tab[u].history = "due" /\ tab'[u].open = tab[u].open
    BY <1>0, <1>2, HistoryReadTab
  <2>3. Shown(u)' = Shown(u)
    BY <2>2 DEF Shown, SameList
  <2> QED BY <1>1, <2>1, <2>2, <2>3 DEF GoesOn, SameLost, Covered
<1>3. CASE HistoryArrive(u)
  <2>1. ~Failed(u) \/ Unannounced = {}
    BY <1>3 DEF HistoryArrive, Unannounced, vars
  <2>2. /\ SameLine(u) /\ SameSeen(u) /\ SameLost(u)
        /\ tab[u].history = "read" /\ tab'[u].history = "over" /\ tab'[u].open = tab[u].open
    BY <1>0, <1>3, HistoryArriveTab
  <2>3. tab[u].first = 0
    BY <2>2 DEF LineInv
  <2> QED BY <1>1, <2>1, <2>2, <2>3 DEF GoesOn, SameLost
<1>4. CASE Opened(u)
  <2>1. tab' = tab /\ (~Failed(u) \/ Unannounced = {})
    BY <1>4 DEF Opened, Sync, Unannounced
  <2>2. Shown(u)' = Shown(u)
    BY <2>1 DEF Shown
  <2> QED BY <1>1, <2>1, <2>2 DEF GoesOn, SameLine, SameSeen, Covered
<1>5. ASSUME NEW r \in Request, Send(u, r) PROVE GoesOn(u)
  <2>1. ~Failed(u) \/ Unannounced = {}
    <3>1. \A q \in Request : request[q].step \in {"cursor", "post"} => request'[q].step # "idle"
      BY <1>0, <1>5 DEF Send, PostCheck, Start, TypeOK
    <3> QED BY <3>1 DEF Unannounced
  <2>2. /\ SamePane(u) /\ SameLine(u) /\ SameSeen(u) /\ SameLost(u)
        /\ tab'[u].list = Append(tab[u].list, [msg |-> 0, text |-> TRUE, cid |-> TRUE])
    BY <1>0, <1>5, SendTab
  <2>3. \A i \in DOMAIN tab[u].list : i \in DOMAIN tab'[u].list /\ tab'[u].list[i] = tab[u].list[i]
    BY <1>0, <2>2, TabTyped
  <2>4. Shown(u) \subseteq Shown(u)'
    BY <2>3 DEF Shown
  <2> QED BY <1>1, <2>1, <2>2, <2>4 DEF GoesOn, SamePane, SameLost, Covered
<1>6. CASE Answered(u)
  <2>0. ~Failed(u) \/ Unannounced = {}
    <3>1. \A q \in Request : request[q].step \in {"cursor", "post"} => request'[q].step # "idle"
      BY <1>0, <1>6 DEF Answered, PostAnswer, Answer, TypeOK
    <3> QED BY <3>1 DEF Unannounced
  <2>1. PICK r \in Request :
          /\ SamePane(u) /\ SameLine(u) /\ SameSeen(u) /\ SameLost(u)
          /\ tab[u].post = r /\ PostAnswer(r)
          /\ tab'[u].list = Saved(tab[u].list, request[r].msg)
    BY <1>0, <1>6, AnsweredTab
  <2> DEFINE m == request[r].msg
  <2>2. Mine(u, m) /\ m \in Nat /\ AtMostOne(u)
    <3>1. tab[u].post # None
      BY <2>1, NoneAssumption
    <3>2. request[r].step \notin {"idle", "insert"}
      BY <2>1 DEF PostAnswer
    <3>3. m \in Nat
      BY <1>0 DEF TypeOK, Local
    <3> QED BY <1>0, <2>1, <3>1, <3>2, <3>3 DEF Owner
  <2> HIDE DEF m
  <2>3. \A i \in DOMAIN tab[u].list :
          /\ i \in DOMAIN tab'[u].list
          /\ IF tab[u].list[i].cid \/ tab[u].list[i].msg = m
             THEN tab'[u].list[i].msg = m ELSE tab'[u].list[i] = tab[u].list[i]
    <3>1. tab[u].list \in Seq(Item) /\ tab'[u].list = Saved(tab[u].list, m)
      BY <1>0, <2>1, TabTyped DEF m
    <3> QED BY <2>2, <3>1, SavedRows
  <2>4. ASSUME NEW n \in Shown(u), n # 0 PROVE n \in Shown(u)'
    <3>1. PICK i \in DOMAIN tab[u].list : tab[u].list[i].msg = n
      BY DEF Shown
    <3>2. tab[u].list[i].cid => n = m
      BY <1>0, <2>2, <2>4, <3>1 DEF Neat, Orderly, Standing, Mine, AtMostOne
    <3>3. i \in DOMAIN tab'[u].list /\ tab'[u].list[i].msg = n
      BY <2>3, <3>1, <3>2
    <3> QED BY <3>3 DEF Shown
  <2> QED BY <1>1, <2>0, <2>1, <2>4 DEF GoesOn, SamePane, SameLost, Covered
<1>7. CASE Failed(u)
  <2>1. PICK r \in Request :
          /\ SamePane(u) /\ SameLine(u) /\ SameSeen(u)
          /\ tab[u].post = r /\ RequestLost(r)
          /\ tab'[u].lost = tab[u].lost \cup Stored(r)
          /\ tab'[u].list = Selected(tab[u].list, {i \in DOMAIN tab[u].list : ~tab[u].list[i].cid})
    BY <1>0, <1>7, FailedTab
  <2>2. Unannounced \subseteq Stored(r)
    BY <1>0, <2>1, ClientLosesOwn
  <2>3. tab[u].post # None
    BY <2>1, NoneAssumption
  <2>4. ASSUME NEW n \in Shown(u), n # 0 PROVE n \in Shown(u)' \/ n \in Stored(r)
    <3>1. PICK i \in DOMAIN tab[u].list : tab[u].list[i].msg = n
      BY DEF Shown
    <3>2. CASE ~tab[u].list[i].cid
      <4> DEFINE keep == {j \in DOMAIN tab[u].list : ~tab[u].list[j].cid}
      <4>1. i \in keep /\ keep \in SUBSET DOMAIN tab[u].list
        BY <3>2
      <4>2. tab'[u].list = Selected(tab[u].list, keep)
        BY <2>1
      <4> HIDE DEF keep
      <4>3. tab[u].list \in Seq(Item)
        BY <1>0, TabTyped
      <4>4. \E k \in DOMAIN Selected(tab[u].list, keep) :
              Selected(tab[u].list, keep)[k] = tab[u].list[i]
        BY <4>1, <4>3, SelectedKeeps
      <4>5. PICK k \in DOMAIN tab'[u].list : tab'[u].list[k] = tab[u].list[i]
        BY <4>2, <4>4
      <4> QED BY <3>1, <4>5 DEF Shown
    <3>3. CASE tab[u].list[i].cid
      <4>1. Mine(u, n)
        BY <1>0, <2>4, <3>1, <3>3 DEF Neat, Orderly, Standing, Mine
      <4>2. request[r].step # "insert"
        BY <1>0, <2>1, <2>3, <4>1 DEF Owner, Inserting, NoneOf, Mine
      <4>3. request[r].msg = n
        BY <1>0, <2>1, <2>3, <4>1, <4>2 DEF Owner, AtMostOne, Mine
      <4> QED BY <2>4, <4>3 DEF Stored
    <3> QED BY <3>2, <3>3
  <2> QED BY <1>1, <2>1, <2>2, <2>4 DEF GoesOn, SamePane, Covered
<1> QED BY <1>2, <1>3, <1>4, <1>5, <1>6, <1>7

(* The client opens a socket: what last_message_id has passed over is      *)
(* marked, and the socket carries nothing yet.                             *)
LEMMA DialTrack ==
  ASSUME HistoryFirst, PaneInv, NEW u \in Viewer, Track(u), NEW s \in Socket, Dial(u, s)
  PROVE  Track(u)'
<1>0. /\ TypeOK /\ IInv /\ Tabs /\ LineInv(u) /\ tab[u].last \in Nat /\ tab[u].first \in Nat
  BY TabTyped DEF PaneInv, TabInv, RoomInv, IInv, Track
<1>1. /\ SamePane(u) /\ SameList(u) /\ SameSeen(u) /\ tab[u].history = "over"
      /\ Connect(s, u, tab[u].last) /\ tab'[u].sock = s /\ tab'[u].pos = 0
      /\ tab'[u].lost = tab[u].lost \cup PassedOver(u)
  BY <1>0, DialTab
<1>2. conn'[s].step = "checked" /\ conn'[s].after = tab[u].last /\ wire' = wire
      /\ sessions' = sessions
  BY <1>0, <1>1 DEF Connect, TypeOK
<1>3. s \notin sessions' /\ Len(wire'[s]) \in Nat
  <2>1. s \notin sessions
    BY <1>0, <1>1 DEF Connect, IInv, Sockets, Accepted
  <2>2. Len(wire[s]) \in Nat
    BY <1>0 DEF TypeOK
  <2> QED BY <1>2, <2>1, <2>2
<1>4. LineInv(u)'
  BY <1>0, <1>1, <1>2, <1>3 DEF LineInv, SameSeen, SamePane
<1>5. Passed(u)'
  <2> SUFFICES ASSUME NEW m \in tab[u].first .. tab[u].last
               PROVE  m \in Covered(u)'
    BY <1>1, <1>2 DEF Passed, SameSeen
  <2>1. Shown(u)' = Shown(u)
    BY <1>1 DEF Shown, SameList
  <2>2. m \in Shown(u) \/ m \in PassedOver(u)
    BY DEF PassedOver
  <2> QED BY <1>1, <2>1, <2>2 DEF Covered
<1>6. Ordered(u)'
  BY <1>1, <1>3 DEF Ordered
<1>7. Served(u)'
  BY <1>1, <1>3 DEF Served
<1> QED BY <1>4, <1>5, <1>6, <1>7 DEF Track

(* The client is without a socket again.                                   *)
LEMMA ShutTrack ==
  ASSUME TypeOK', NEW u \in Viewer, LineInv(u), tab'[u].sock = None, SameSeen(u),
         tab'[u].history = tab[u].history
  PROVE  Track(u)'
<1>1. \A s \in Socket : tab'[u].sock # s
  BY NoneAssumption
<1>2. LineInv(u)'
  BY <1>1 DEF LineInv, SameSeen
<1>3. \A s \in sessions' : tab'[u].sock # s
  BY <1>1 DEF TypeOK
<1> QED BY <1>1, <1>2, <1>3 DEF Track, Passed, Ordered, Served

(* One payload further.                                                    *)
LEMMA Further ==
  ASSUME TypeOK, NEW s \in Socket, NEW k \in Nat, k + 1 \in DOMAIN wire[s], NEW m, Coming(s, k, m)
  PROVE  \/ Coming(s, k + 1, m)
         \/ wire[s][k + 1].type = "new_message" /\ wire[s][k + 1].msg = m
<1>1. CASE Ahead(s, k, m)
  <2>1. PICK i \in DOMAIN wire[s] : i > k /\ wire[s][i].type = "new_message" /\ wire[s][i].msg = m
    BY <1>1 DEF Ahead
  <2>2. i \in Nat
    BY DEF TypeOK
  <2>3. CASE i = k + 1
    BY <2>1, <2>3
  <2>4. CASE i # k + 1
    <3>1. i > k + 1
      BY <2>1, <2>2, <2>4
    <3> QED BY <2>1, <3>1 DEF Coming, Ahead
  <2> QED BY <2>3, <2>4
<1>2. CASE ~Ahead(s, k, m)
  BY <1>2 DEF Coming
<1> QED BY <1>1, <1>2

(* A message that comes is shown, and no other row is lost by it.          *)
LEMMA IncomingKeeps ==
  ASSUME PaneInv, NEW u \in Viewer, NEW p \in Payload, p.msg \in DOMAIN messages,
         NEW m \in Shown(u), m # 0, UNCHANGED messages,
         tab'[u].list = Incoming(tab[u].list, ItemOf(u, p))
  PROVE  m \in Shown(u)'
<1> DEFINE q == ItemOf(u, p)
<1>0. /\ tab[u].list \in Seq(Item) /\ Neat(u) /\ Owner(u)
      /\ q \in Item /\ q.msg = p.msg /\ (q.cid <=> p.cid /\ messages[p.msg].sender = u)
  BY TabTyped, ItemTyped DEF PaneInv, TabInv
<1> HIDE DEF q
<1>1. tab'[u].list = Incoming(tab[u].list, q)
  BY DEF q
<1>2. PICK i \in DOMAIN tab[u].list : tab[u].list[i].msg = m
  BY DEF Shown
<1>3. CASE \E j \in DOMAIN tab'[u].list : tab'[u].list[j].msg = m
  BY <1>3 DEF Shown
<1>4. CASE q.cid /\ tab[u].list[i].cid
  <2>1. Mine(u, m) /\ Mine(u, p.msg)
    BY <1>0, <1>2, <1>4 DEF Neat, Orderly, Standing, Mine
  <2>2. m = p.msg
    BY <1>0, <2>1 DEF Owner, AtMostOne, Mine
  <2>3. \E j \in DOMAIN tab'[u].list : tab'[u].list[j].msg = q.msg
    BY <1>0, <1>1, IncomingShows
  <2> QED BY <1>0, <2>2, <2>3 DEF Shown
<1> QED BY <1>0, <1>1, <1>2, <1>3, <1>4, IncomingShows

LEMMA ReceiveTrack ==
  ASSUME PaneInv, PaneInv', NEW u \in Viewer, Track(u), Receive(u)
  PROVE  Track(u)'
<1>0. /\ TypeOK /\ IInv /\ Tabs /\ LineInv(u) /\ Passed(u) /\ Ordered(u) /\ Served(u)
      /\ tab[u].first \in Nat /\ tab[u].pos \in Nat /\ TypeOK' /\ sessions \subseteq Socket
  BY TabTyped DEF PaneInv, TabInv, RoomInv, IInv, Track, TypeOK
<1>1. PICK s \in Socket :
         LET p == wire[s][tab[u].pos + 1] IN
         /\ UNCHANGED vars
         /\ tab[u].sock = s /\ tab[u].pos + 1 \in DOMAIN wire[s] /\ p \in Payload
         /\ SameLost(u) /\ tab'[u].history = tab[u].history
         /\ \/ /\ p.type = "new_message" /\ tab'[u].open = tab[u].open
               /\ tab'[u].sock = s /\ tab'[u].pos = tab[u].pos + 1
               /\ tab'[u].last = p.msg
               /\ tab'[u].first = IF tab[u].first = 0 THEN p.msg ELSE tab[u].first
               /\ tab'[u].list = Incoming(tab[u].list, ItemOf(u, p))
            \/ /\ p.type = "message_deleted" /\ SameSeen(u) /\ tab'[u].open = tab[u].open
               /\ tab'[u].sock = s /\ tab'[u].pos = tab[u].pos + 1
               /\ tab'[u].list = Blanked(u, tab[u].list, p.msg)
            \/ /\ p.type = "access_revoked" /\ SameSeen(u) /\ tab'[u].sock = None
  BY <1>0, ReceiveTab
<1> DEFINE p == wire[s][tab[u].pos + 1]
           k == tab[u].pos
<1>2. /\ UNCHANGED <<messages, wire, conn, sessions, replays, request>>
      /\ \A t \in Socket : tab[u].sock = t => t = s
      /\ k + 1 \in Nat /\ k + 1 <= Len(wire[s]) /\ k + 1 # 0
      /\ tab[u].history = "over" /\ conn[s].step # "free" /\ p \in Payload
  <2>1. tab[u].sock # None
    BY <1>1, NoneAssumption
  <2>2. Len(wire[s]) \in Nat /\ DOMAIN wire[s] = 1 .. Len(wire[s])
    BY <1>0 DEF TypeOK
  <2> QED BY <1>0, <1>1, <2>1, <2>2 DEF vars, rows, object, LineInv
<1>k. /\ \A m : Held(m)' <=> Held(m)
      /\ \A n, m : Ahead(s, n, m)' <=> Ahead(s, n, m)
      /\ \A m : Fetching(s, m)' <=> Fetching(s, m)
  BY <1>2 DEF Held, Ahead, Fetching
<1>3. CASE p.type = "access_revoked"
  <2>1. tab'[u].sock = None /\ SameSeen(u) /\ tab'[u].history = tab[u].history
    BY <1>1, <1>3
  <2> QED BY <1>0, <2>1, ShutTrack
<1>4. CASE p.type = "message_deleted"
  <2>1. /\ SameSeen(u) /\ tab'[u].open = tab[u].open /\ tab'[u].sock = s /\ tab'[u].pos = k + 1
        /\ tab'[u].list = Blanked(u, tab[u].list, p.msg) /\ SameLost(u)
        /\ tab'[u].history = tab[u].history /\ tab[u].sock = s
    BY <1>1, <1>4
  <2>2. Covered(u)' = Covered(u)
    <3>1. tab[u].list \in Seq(Item)
      BY <1>0, TabTyped
    <3>2. /\ DOMAIN tab'[u].list = DOMAIN tab[u].list
          /\ \A i \in DOMAIN tab[u].list : tab'[u].list[i].msg = tab[u].list[i].msg
      BY <2>1, <3>1, BlankedRows
    <3>3. Shown(u)' = Shown(u)
      BY <3>2 DEF Shown
    <3> QED BY <2>1, <3>3 DEF Covered, SameLost
  <2> HIDE DEF p
  <2>3. LineInv(u)'
    BY <1>0, <1>2, <2>1 DEF LineInv, SameSeen
  <2>4. Passed(u)'
    BY <1>0, <1>2, <2>1, <2>2 DEF Passed, SameSeen
  <2>5. Ordered(u)'
    BY <1>0, <1>2, <1>k, <2>1 DEF Ordered, SameLost, Coming
  <2>6. Served(u)'
    <3> SUFFICES ASSUME tab'[u].open, tab'[u].first # 0, NEW t \in sessions', tab'[u].sock = t, Asked(t)',
                        NEW m \in tab'[u].first .. Len(messages'), m > conn'[t].after
                 PROVE  m \in Covered(u)' \/ Coming(t, tab[u].pos, m)'
      BY DEF Served
    <3>1. t = s /\ s \in sessions /\ Asked(s) /\ m \in tab[u].first .. Len(messages)
          /\ m > conn[s].after /\ tab[u].open /\ tab[u].first # 0
      BY <1>2, <2>1 DEF Asked, SameSeen
    <3>2. m \in Covered(u) \/ Coming(s, k, m)
      BY <1>0, <2>1, <3>1 DEF Served
    <3>3. Coming(s, k, m) => Coming(s, k + 1, m)
      BY <1>0, <1>1, <1>4, Further DEF p
    <3> QED BY <1>k, <2>1, <2>2, <3>1, <3>2, <3>3 DEF Coming
  <2> QED BY <2>3, <2>4, <2>5, <2>6 DEF Track
<1>5. CASE p.type = "new_message"
  <2>1. /\ tab'[u].open = tab[u].open /\ tab'[u].sock = s /\ tab'[u].pos = k + 1
        /\ tab'[u].last = p.msg
        /\ tab'[u].first = IF tab[u].first = 0 THEN p.msg ELSE tab[u].first
        /\ tab'[u].list = Incoming(tab[u].list, ItemOf(u, p)) /\ SameLost(u)
        /\ tab'[u].history = tab[u].history /\ tab[u].sock = s
    BY <1>1, <1>5
  <2>2. p.msg \in DOMAIN messages /\ p.msg \in Nat /\ p.msg # 0
    <3>1. p.msg \in DOMAIN messages
      BY <1>1, <1>5 DEF PaneInv, TabInv, RoomInv, Messaged, Announces
    <3> QED BY <1>0, <3>1 DEF TypeOK
  <2>3. p.msg \in Shown(u)'
    <3> DEFINE q == ItemOf(u, p)
    <3>1. q \in Item /\ q.msg = p.msg /\ tab[u].list \in Seq(Item)
      BY <1>0, <1>2, ItemTyped, TabTyped
    <3>2. tab'[u].list = Incoming(tab[u].list, q)
      BY <2>1
    <3> HIDE DEF q
    <3>3. \E i \in DOMAIN tab'[u].list : tab'[u].list[i].msg = q.msg
      BY <3>1, <3>2, IncomingShows
    <3> QED BY <3>1, <3>3 DEF Shown
  <2>4. \A m \in Covered(u) : m # 0 => m \in Covered(u)'
    <3>1. \A m \in Shown(u) : m # 0 => m \in Shown(u)'
      BY <1>2, <2>1, <2>2, IncomingKeeps
    <3> QED BY <2>1, <3>1 DEF Covered, SameLost
  <2> HIDE DEF p
  <2>5. LineInv(u)'
    BY <1>0, <1>2, <2>1, <2>2 DEF LineInv
  <2>6. Passed(u)'
    <3> SUFFICES ASSUME tab'[u].open, NEW m \in tab'[u].first .. conn[s].after
                 PROVE  m \in Covered(u)'
      BY <1>2, <2>1 DEF Passed
    <3>1. CASE tab[u].first = 0
      <4>1. conn[s].after = 0 /\ tab'[u].first = p.msg
        BY <1>0, <2>1, <3>1 DEF LineInv
      <4> QED BY <2>2, <4>1
    <3>2. CASE tab[u].first # 0
      <4>1. m \in Covered(u) /\ m # 0
        BY <1>0, <2>1, <3>2 DEF Passed
      <4> QED BY <2>4, <4>1
    <3> QED BY <3>1, <3>2
  <2>7. Ordered(u)'
    BY <1>0, <1>2, <1>k, <2>1 DEF Ordered, SameLost, Coming
  <2>8. Served(u)'
    <3> SUFFICES ASSUME tab'[u].open, tab'[u].first # 0, NEW t \in sessions', tab'[u].sock = t, Asked(t)',
                        NEW m \in tab'[u].first .. Len(messages'), m > conn'[t].after
                 PROVE  m \in Covered(u)' \/ Coming(t, tab[u].pos, m)'
      BY DEF Served
    <3>1. /\ t = s /\ s \in sessions /\ Asked(s) /\ m \in tab'[u].first .. Len(messages)
          /\ m > conn[s].after /\ tab[u].open /\ m # 0
      BY <1>0, <1>2, <2>1, <2>2 DEF Asked
    <3>2. m \in Covered(u) \/ Coming(s, k, m)
      <4>1. CASE tab[u].first = 0
        <5>1. conn[s].after = 0 /\ m \in p.msg .. Len(messages)
          BY <1>0, <2>1, <3>1, <4>1 DEF LineInv
        <5>2. PICK i \in DOMAIN wire[s] : i = k + 1 /\ wire[s][i] = p /\ i - 1 = k
          BY <1>0, <1>1 DEF p
        <5>3. wire[s][i].type = "new_message" /\ m \in wire[s][i].msg .. Len(messages)
          BY <1>5, <5>1, <5>2
        <5>4. m \in tab[u].lost \/ Coming(s, i - 1, m)
          BY <1>0, <2>1, <3>1, <5>1, <5>3 DEF Ordered
        <5> QED BY <5>2, <5>4 DEF Covered
      <4>2. CASE tab[u].first # 0
        BY <1>0, <2>1, <3>1, <4>2 DEF Served
      <4> QED BY <4>1, <4>2
    <3>3. Coming(s, k, m) => Coming(s, k + 1, m) \/ p.msg = m
      BY <1>0, <1>1, Further DEF p
    <3>4. m \in Covered(u)' \/ Coming(s, k + 1, m)
      BY <2>3, <2>4, <3>1, <3>2, <3>3 DEF Covered
    <3> QED BY <1>k, <2>1, <3>1, <3>4 DEF Coming
  <2> QED BY <2>5, <2>6, <2>7, <2>8 DEF Track
<1> QED BY <1>1, <1>3, <1>4, <1>5

LEMMA TrackStep ==
  ASSUME HistoryFirst, "object" \notin Fault, "database" \notin Fault,
         PaneInv, Newest, [ClientNext]_allVars, NEW u \in Viewer, Track(u)
  PROVE  Track(u)'
<1>0. /\ RoomInv /\ TabInv /\ TypeOK /\ Tabs /\ [Next]_vars /\ PaneInv' /\ TypeOK' /\ LineInv(u)
  BY PaneInvStep, ClientsAreBrowsers DEF PaneInv, TabInv, RoomInv, IInv, Track
<1>1. GoesOn(u) => Track(u)'
  BY <1>0, GoingOn
<1>2. CASE Server
  <2>1. /\ SameButLost(u)
        /\ tab'[u].lost = tab[u].lost \cup Unannounced \cup CutOff(tab[u].sock)
    BY <1>0, <1>2, ServerTab
  <2> QED BY <1>0, <1>1, <2>1, MarkedGoesOn
<1>3. ASSUME NEW v \in Viewer, Client(v), v # u PROVE Track(u)'
  <2>1. CutOff(tab[u].sock) = {}
    BY <1>3, ClientKeepsReplays
  <2>2. CASE Failed(v)
    <3>1. SameButLost(u) /\ tab'[u].lost = tab[u].lost \cup Unannounced
      BY <1>0, <1>3, <2>2, FailedTab
    <3> QED BY <1>0, <1>1, <2>1, <3>1, MarkedGoesOn
  <2>3. CASE ~Failed(v)
    <3>1. Unannounced = {}
      BY <1>0, <1>3, <2>3, ClientLosesOwn
    <3>2. SameButLost(u) /\ tab[u].lost \subseteq tab'[u].lost
      <4>1. \/ tab'[u] = tab[u]
            \/ SameButLost(u) /\ tab'[u].lost = tab[u].lost \cup Unannounced
        BY <1>0, <1>3, OthersAlike
      <4> QED BY <4>1 DEF SameButLost, SamePane, SameList, SameLine, SameSeen, SamePost
    <3> QED BY <1>0, <1>1, <2>1, <3>1, <3>2, MarkedGoesOn
  <2> QED BY <2>2, <2>3
<1>4. CASE Client(u)
  <2>1. CASE \/ HistoryRead(u) \/ HistoryArrive(u) \/ Opened(u)
             \/ \E r \in Request : Send(u, r)
             \/ Answered(u) \/ Failed(u)
    BY <1>0, <1>1, <2>1, PaneGoesOn
  <2>2. ASSUME NEW s \in Socket, Dial(u, s) PROVE Track(u)'
    BY <2>2, DialTrack
  <2>3. CASE Receive(u)
    BY <1>0, <2>3, ReceiveTrack
  <2>4. CASE Blip(u) \/ Closed(u)
    <3>1. tab'[u].sock = None /\ SameSeen(u) /\ tab'[u].history = tab[u].history
      BY <1>0, <2>4, OnCloseTab DEF SamePane
    <3> QED BY <1>0, <3>1, ShutTrack
  <2> QED BY <1>4, <2>1, <2>2, <2>3, <2>4 DEF Client
<1>5. CASE UNCHANGED allVars
  <2>1. tab' = tab /\ Unannounced = {} /\ CutOff(tab[u].sock) = {}
    BY <1>5 DEF allVars, vars, object, Unannounced, CutOff
  <2>2. SameButLost(u)
    BY <2>1 DEF SameButLost, SamePane, SameList, SameLine, SameSeen, SamePost
  <2> QED BY <1>0, <1>1, <2>1, <2>2, MarkedGoesOn
<1> QED BY <1>2, <1>3, <1>4, <1>5 DEF ClientNext

LEMMA InitTrack == ClientInit => Newest /\ \A u \in Viewer : Track(u)
<1> SUFFICES ASSUME ClientInit PROVE Newest /\ \A u \in Viewer : Track(u)
  OBVIOUS
<1>1. Newest
  BY DEF ClientInit, Init, Idle, Newest, Posting
<1>2. \A u \in Viewer :
         /\ tab[u].first = 0 /\ tab[u].last = 0 /\ tab[u].sock = None /\ sessions = {}
         /\ \A s \in Socket : tab[u].sock # s
  BY NoneAssumption DEF ClientInit, Init
<1> QED BY <1>1, <1>2 DEF Track, LineInv, Passed, Ordered, Served

(* What is on its way to a viewer is on a wire that is not read to the     *)
(* end, in a replay, or in a handler: with none of them left, the viewer   *)
(* has it.                                                                 *)
LEMMA CaughtUpShows ==
  ASSUME PaneInv, NEW u \in Viewer, Track(u), CaughtUp(u), tab[u].first > 0,
         NEW m \in tab[u].first .. Len(messages)
  PROVE  m \in Covered(u)
<1> DEFINE s == tab[u].sock
<1>1. /\ s \in Socket /\ s \in sessions /\ tab[u].open /\ tab[u].first # 0 /\ Asked(s)
      /\ tab[u].pos = Len(wire[s]) /\ tab[u].first \in Nat
      /\ Passed(u) /\ Served(u) /\ conn[s].after \in Nat /\ Len(messages) \in Nat
  BY TabTyped DEF CaughtUp, Asked, PaneInv, TabInv, RoomInv, IInv, TypeOK, Upgrade, Track
<1>2. ~Coming(s, tab[u].pos, m)
  <2>1. ~Ahead(s, tab[u].pos, m)
    BY <1>1 DEF Ahead, PaneInv, TabInv, RoomInv, IInv, TypeOK
  <2>2. ~Fetching(s, m)
    BY DEF CaughtUp, Fetching
  <2>3. ~Held(m)
    BY DEF CaughtUp, Held, Posting
  <2> QED BY <2>1, <2>2, <2>3 DEF Coming
<1> HIDE DEF s
<1>3. CASE m <= conn[s].after
  <2>1. m \in tab[u].first .. conn[s].after
    BY <1>1, <1>3
  <2> QED BY <1>1, <2>1 DEF Passed, s
<1>4. CASE m > conn[s].after
  BY <1>1, <1>2, <1>4 DEF Served, s
<1> QED BY <1>1, <1>3, <1>4

(* From the first message that a socket brought on, a viewer who is caught *)
(* up shows every message but those of the windows that the model names,   *)
(* however often the connection breaks (useChatWebSocket.js keeps          *)
(* last_message_id, ChatRoomDO.ts replays what follows it): for handlers   *)
(* that follow one another, a history that is there before the socket      *)
(* opens, and a Durable Object whose calls and statements do not fail.     *)
THEOREM NothingMissedHolds ==
  ASSUME OneHandler, HistoryFirst, "object" \notin Fault, "database" \notin Fault
  PROVE  ClientSpec => []NothingMissedAfterFirst
<1> DEFINE TrackInv == PaneInv /\ Newest /\ \A u \in Viewer : Track(u)
<1>1. ClientInit => TrackInv
  BY InitPaneInv, InitTrack
<1>2. TrackInv /\ [ClientNext]_allVars => TrackInv'
  <2> SUFFICES ASSUME TrackInv, [ClientNext]_allVars PROVE TrackInv'
    OBVIOUS
  <2>1. PaneInv'
    BY PaneInvStep
  <2>2. Newest'
    BY NewestStep, ClientsAreBrowsers DEF PaneInv, TabInv, RoomInv
  <2>3. \A u \in Viewer : Track(u)'
    BY TrackStep
  <2> QED BY <2>1, <2>2, <2>3
<1>3. TrackInv => NothingMissedAfterFirst
  BY CaughtUpShows DEF NothingMissedAfterFirst, Covered
<1> HIDE DEF TrackInv
<1> QED BY <1>1, <1>2, <1>3, PTL DEF ClientSpec

=============================================================================
