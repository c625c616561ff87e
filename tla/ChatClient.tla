------------------------------ MODULE ChatClient ------------------------------
(***************************************************************************)
(* The browser side of the chat: the pane of a room as ChatPage.jsx keeps  *)
(* it and the socket as useChatWebSocket.js keeps it, together with the    *)
(* server of ChatRoom.  A viewer has the room open in one tab, whose       *)
(* sockets are those of the model; the other members act through the       *)
(* handlers only.                                                          *)
(***************************************************************************)
EXTENDS ChatRoom, Selection

CONSTANTS
  Viewer,         \* the users whose browser is modelled
  Sends,          \* whether the viewers write messages (at most one each)
  HistoryFirst    \* whether the history arrives before the socket opens

ASSUME ViewerAssumption == Viewer \subseteq User /\ {Sends, HistoryFirst} \subseteq BOOLEAN

VARIABLE tab      \* tab[u]: the chat pane of u

allVars == <<vars, tab>>

None == "none"

ASSUME NoneAssumption == None \notin Socket \cup Request

(* A row of the pane: the message (0 for an optimistic row that has no id  *)
(* of the server yet), whether its text is shown, and whether it carries   *)
(* the client_id of the viewer's own message.                              *)
Item == [msg : Nat, text : BOOLEAN, cid : BOOLEAN]

(* history: the GET of the history is due, holds the rows it read, or is   *)
(* over.  sock and pos: wsRef.current and what it processed of its wire.   *)
(* last: lastMessageIdRef (0 is null).  post: the handler of the viewer's  *)
(* own POST.  Three fields are not in the code, but history of the model:  *)
(* first, the first message that came by a socket; lost, the messages that *)
(* no replay brings, see NothingMissedAfterFirst; echoed, a replay brought *)
(* the viewer's own message while it was still optimistic.                 *)
(* The PATCH /read that follows every message is left to the handlers of   *)
(* ChatRoom, where any member may send one at any time: the pane does not  *)
(* depend on it.                                                           *)
Tab == [history : {"due", "read", "over"}, fetched : Seq(Item),
        list : Seq(Item), sock : Socket \cup {None}, pos : Nat, last : Nat,
        post : Request \cup {None}, sent : BOOLEAN,
        open : BOOLEAN, first : Nat, lost : SUBSET Nat,
        echoed : BOOLEAN]

ClientTypeOK ==
  /\ TypeOK
  /\ tab \in [Viewer -> Tab]
  /\ \A u \in Viewer : tab[u].sock = None => tab[u].pos = 0

ClientInit ==
  /\ Init
  /\ tab = [u \in Viewer |->
              [history |-> "due", fetched |-> <<>>, list |-> <<>>, sock |-> None,
               pos |-> 0, last |-> 0, post |-> None, sent |-> FALSE,
               open |-> TRUE, first |-> 0, lost |-> {}, echoed |-> FALSE]]

-----------------------------------------------------------------------------

Shown(u) == {tab[u].list[i].msg : i \in DOMAIN tab[u].list}

(* Mutants of Matches: it compares one of the two only.                    *)
MatchesClientId(item, p) == p.cid /\ item.cid
MatchesId(item, p) == item.msg = p.msg

(* setMessages of an incoming message: it takes the place of the first row *)
(* with its client_id or its id, and is appended when there is none.       *)
Matches(item, p) == (p.cid /\ item.cid) \/ item.msg = p.msg

Incoming(list, p) ==
  LET same == {i \in DOMAIN list : Matches(list[i], p)} IN
    IF same = {} THEN Append(list, p)
    ELSE [list EXCEPT ![CHOOSE i \in same : \A j \in same : i <= j] = p]

ItemOf(u, p) == [msg |-> p.msg, text |-> p.text, cid |-> p.cid /\ messages[p.msg].sender = u]

(* handleWsMessageDeleted: a viewer who is no admin loses the text.        *)
Blanked(u, list, m) ==
  [i \in DOMAIN list |-> IF list[i].msg = m /\ u \notin Admin
                         THEN [list[i] EXCEPT !.text = FALSE] ELSE list[i]]

(* GET /rooms/:room_id/messages?limit=50 reads the rows; non-admins get    *)
(* deleted ones without text.                                              *)
HistoryRead(u) ==
  /\ tab[u].open /\ tab[u].history = "due"
  /\ u \in Member
  /\ tab' = [tab EXCEPT
               ![u].history = "read",
               ![u].fetched = [m \in DOMAIN messages |->
                  [msg |-> m, text |-> u \in Admin \/ ~messages[m].deleted, cid |-> FALSE]]]
  /\ UNCHANGED vars

(* Its response replaces the pane.                                         *)
HistoryArrive(u) ==
  /\ tab[u].open /\ tab[u].history = "read"
  /\ tab' = [tab EXCEPT ![u].history = "over", ![u].fetched = <<>>,
                        ![u].list = tab[u].fetched]
  /\ UNCHANGED vars

(* What last_message_id has passed over.                                   *)
PassedOver(u) == {m \in tab[u].first .. tab[u].last : m \notin Shown(u)}

(* Mutant of Dial: the new socket does not carry last_message_id.          *)
DialAfresh(u, s) ==
  /\ tab[u].open /\ tab[u].sock = None
  /\ HistoryFirst => tab[u].history = "over"
  /\ Connect(s, u, 0)
  /\ tab' = [tab EXCEPT ![u].sock = s, ![u].pos = 0]

(* connect(): the socket carries last_message_id.                          *)
Dial(u, s) ==
  /\ tab[u].open /\ tab[u].sock = None
  /\ HistoryFirst => tab[u].history = "over"
  /\ Connect(s, u, tab[u].last)
  /\ tab' = [tab EXCEPT ![u].sock = s, ![u].pos = 0, ![u].lost = @ \cup PassedOver(u)]

(* onopen: fetchRooms and the sync frame.                                  *)
Opened(u) ==
  /\ \E s \in Socket : tab[u].sock = s /\ Sync(s)
  /\ UNCHANGED tab

(* onmessage.                                                              *)
Received(u, p) ==
  CASE p.type = "new_message" ->
         [tab[u] EXCEPT !.pos = tab[u].pos + 1, !.last = p.msg,
                        !.list = Incoming(tab[u].list, ItemOf(u, p)),
                        !.first = IF tab[u].first = 0 THEN p.msg ELSE tab[u].first,
                        !.echoed = @ \/ (messages[p.msg].sender = u /\ ~p.cid
                                          /\ \E i \in DOMAIN tab[u].list : tab[u].list[i].msg = 0)]
    [] p.type = "message_deleted" ->
         [tab[u] EXCEPT !.pos = tab[u].pos + 1, !.list = Blanked(u, tab[u].list, p.msg)]
    [] p.type = "access_revoked" ->
         [tab[u] EXCEPT !.open = FALSE, !.list = <<>>, !.sock = None, !.pos = 0]

Receive(u) ==
  /\ \E s \in Socket :
       /\ tab[u].sock = s /\ s \notin gone
       /\ tab[u].pos < Len(wire[s])
       /\ tab' = [tab EXCEPT ![u] = Received(u, wire[s][tab[u].pos + 1])]
  /\ UNCHANGED vars

(* Mutant of Blip: what was processed of the old socket is not forgotten.  *)
BlipHalf(u) ==
  /\ \E s \in Socket : tab[u].sock = s /\ Leave(s)
  /\ tab' = [tab EXCEPT ![u].sock = None]

(* The network of the client drops: onclose without a close on the server. *)
Blip(u) ==
  /\ \E s \in Socket : tab[u].sock = s /\ Leave(s)
  /\ tab' = [tab EXCEPT ![u].sock = None, ![u].pos = 0]

(* onclose after the server closed or refused the socket, once everything  *)
(* it sent is processed; the timer of the reconnection is Dial's delay.    *)
Closed(u) ==
  /\ \E s \in Socket :
       /\ tab[u].sock = s
       /\ \/ conn[s].step = "refused"
          \/ conn[s].step \in {"open", "synced"} /\ s \notin sessions
       /\ tab[u].pos = Len(wire[s])
  /\ tab' = [tab EXCEPT ![u].sock = None, ![u].pos = 0]
  /\ UNCHANGED vars

(* handleSendMessage: the optimistic row and the POST; then its answer, or *)
(* its failure.                                                            *)
Send(u, r) ==
  /\ Sends /\ tab[u].open /\ ~tab[u].sent
  /\ PostCheck(r, u, "text")
  /\ tab' = [tab EXCEPT ![u].sent = TRUE, ![u].post = r,
               ![u].list = Append(tab[u].list, [msg |-> 0, text |-> TRUE, cid |-> TRUE])]

Saved(list, m) ==
  [i \in DOMAIN list |-> IF list[i].cid \/ list[i].msg = m
                         THEN [msg |-> m, text |-> TRUE, cid |-> TRUE] ELSE list[i]]

(* The message that handler r has inserted.                                *)
Stored(r) == {request[r].msg} \ {0}

(* The messages whose handler is lost in this step before its broadcast.   *)
Unannounced ==
  UNION {Stored(r) : r \in {q \in Request : /\ request[q].step \in {"cursor", "post"}
                                          /\ request'[q].step = "idle"}}

Answered(u) ==
  \E r \in Request :
    /\ tab[u].post = r
    /\ PostAnswer(r)
    /\ tab' = [tab EXCEPT ![u].post = None, ![u].list = Saved(tab[u].list, request[r].msg)]

Failed(u) ==
  \E r \in Request :
    /\ tab[u].post = r
    /\ RequestLost(r)
    /\ tab' = [v \in Viewer |->
         IF v = u
         THEN [tab[u] EXCEPT !.post = None, !.lost = @ \cup Stored(r),
                 !.list = Selected(@, {i \in DOMAIN tab[u].list : ~tab[u].list[i].cid})]
         ELSE [tab[v] EXCEPT !.lost = @ \cup Unannounced]]

-----------------------------------------------------------------------------

(* The messages beyond the rows that a replay of this step reads.          *)
CutOff(s) ==
  UNION {p.after + ReplayLimit + 1 .. Len(messages) :
           p \in {q \in replays \ replays' : q.socket = s /\ q.step = "select" /\ s \in sessions'}}

(* The handlers go on, but for the answers that a tab waits for.  Messages *)
(* of a viewer come from its tab.                                          *)
Server ==
  /\ \/ Objects
     \/ \E s \in Socket : Ping(s) \/ Frame(s) \/ FrameRefused(s)
     \/ \E r \in Request :
          /\ Rest(r)
          /\ \A u \in Viewer :
               /\ tab[u].post = r => request'[r].step # "idle"
               /\ request[r].step = "idle" /\ request'[r].step = "insert"
                    => request'[r].user # u
  /\ tab' = [u \in Viewer |->
               [tab[u] EXCEPT !.lost = @ \cup Unannounced \cup CutOff(tab[u].sock)]]

Client(u) ==
  \/ HistoryRead(u) \/ HistoryArrive(u)
  \/ \E s \in Socket : Dial(u, s)
  \/ Opened(u) \/ Receive(u) \/ Blip(u) \/ Closed(u)
  \/ \E r \in Request : Send(u, r)
  \/ Answered(u) \/ Failed(u)

ClientNext == Server \/ \E u \in Viewer : Client(u)

ClientSpec == ClientInit /\ [][ClientNext]_allVars

-----------------------------------------------------------------------------

(* Nothing is on its way to the pane of u: the socket is open and read to  *)
(* the end, the history is there, and no message waits for its broadcast.  *)
CaughtUp(u) ==
  /\ tab[u].open /\ tab[u].history = "over"
  /\ tab[u].sock \in sessions \ gone
  /\ conn[tab[u].sock].step = "synced"
  /\ tab[u].pos = Len(wire[tab[u].sock])
  /\ \A p \in replays : p.socket # tab[u].sock
  /\ \A r \in Request : request[r].step \notin {"cursor", "post"}

(* "missing messages replayed without duplication"                         *)
(* (CLOUDFLARE_DEPLOYMENT_GUIDE.md:170), first half: a client that is      *)
(* connected again shows every message of the room.                        *)
NothingMissed ==
  \A u \in Viewer : CaughtUp(u) => DOMAIN messages \subseteq Shown(u)

(* What the replay does guarantee: from the first message that came by a   *)
(* socket on, none is missed, however often the connection breaks.  It     *)
(* takes a history that arrives before the socket opens and messages that  *)
(* are posted one after the other.  The windows: a handler that is lost    *)
(* between the INSERT and the broadcast; a live message that overtakes a   *)
(* replay which the connection then breaks off: last_message_id, the last  *)
(* that arrived, has passed over the others; more than the rows that a     *)
(* replay reads.                                                           *)
NothingMissedAfterFirst ==
  \A u \in Viewer :
    CaughtUp(u) /\ tab[u].first > 0 =>
      tab[u].first..Len(messages) \subseteq Shown(u) \cup tab[u].lost

(* Second half: no message is shown twice.                                 *)
ShownOnce ==
  \A u \in Viewer : \A i, j \in DOMAIN tab[u].list :
    tab[u].list[i].msg = tab[u].list[j].msg => i = j

(* What does hold: none is, whatever the order of the optimistic row, the  *)
(* broadcast and the answer (ChatPage.jsx:173-195), but for the viewer's   *)
(* own message when a replay, whose payload has no client_id, overtakes    *)
(* both: its row is added, and the broadcast then replaces the other one.  *)
ShownOnceUnlessEchoed ==
  \A u \in Viewer : \A i, j \in DOMAIN tab[u].list :
    LET m == tab[u].list[i].msg
    IN  m = tab[u].list[j].msg => i = j \/ (tab[u].echoed /\ m > 0 /\ messages[m].sender = u)

=============================================================================
