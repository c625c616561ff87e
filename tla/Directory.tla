------------------------------- MODULE Directory -------------------------------
(***************************************************************************)
(* The tables that say who works for whom: users, clients, chat_rooms,     *)
(* employee_clients, sub_admin_assignments and targets, and what a handler *)
(* of the Workers has in its local variables between two statements.       *)
(* Recruiters, Targets, Clients and SubAdmins add the handlers of their    *)
(* routes to it, and Organisation composes them.                           *)
(*                                                                         *)
(* There is no transaction (but one, see Clients): each awaited statement  *)
(* is a step.  The SELECTs at the head of a handler (the user of the       *)
(* token, the scope, the row, the counts) are one step.  An UPDATE or      *)
(* INSERT that violates a constraint of the schema throws, and the handler *)
(* answers 500 and stops.                                                  *)
(*                                                                         *)
(* Abstracted: names, contact data and passwords; dates; the log of        *)
(* activities, which nothing reads.                                        *)
(***************************************************************************)
EXTENDS Naturals, FiniteSets

CONSTANTS
  Admin,         \* the administrator
  SubAdmin,      \* ids of sub-admin accounts
  Recruiter,     \* ids of recruiter accounts
  Client,        \* ids of clients
  Nobody,        \* NULL
  Request,       \* handlers that may be in progress at the same time
  MaxRequest,    \* bound: requests ever started
  StatusAsked,   \* bound: statuses that an update may ask for ("same": none)
  ActiveAsked,   \* bound: likewise for is_active ("yes", "no" or "same")
  Fault          \* the faults of the platform that this instance exercises

ASSUME BoundAssumption == MaxRequest \in Nat

ASSUME IdAssumption ==
  /\ Admin \notin SubAdmin \cup Recruiter \cup Client
  /\ Nobody \notin {Admin} \cup SubAdmin \cup Recruiter \cup Client
  /\ SubAdmin \cap Recruiter = {}
  /\ (SubAdmin \cup Recruiter) \cap Client = {}

VARIABLES
  account,   \* users: the sub-admins and recruiters
  client,    \* clients, each with the status of its row in chat_rooms
  employs,   \* employee_clients: a row, and whether it is active
  scope,     \* sub_admin_assignments
  target,    \* targets: the status for a recruiter and a client
  session,   \* chat sockets: recruiters connected to the room of a client
  portal,    \* the clients with a user of role client that may log in
  request,   \* request[r]: where the handler r is, with its local variables
  started,   \* number of requests so far
  slipped,   \* history: windows the code leaves open, see Organisation
  cut        \* history: the ids that a stopped handler was about

tables == <<account, client, employs, scope, target, session, portal>>
control == <<request, started>>
history == <<slipped, cut>>
vars == <<tables, control, history>>

Staff == SubAdmin \cup Recruiter
Caller == SubAdmin \cup {Admin}
Manager == Caller \cup {Nobody}
Pair == Recruiter \X Client

Life == {"active", "inactive", "archived"}

ASSUME AskedAssumption ==
  StatusAsked \subseteq Life \cup {"same"} /\ ActiveAsked \subseteq {"yes", "no", "same"}

(* A row of users; status "none" stands for no row.                        *)
Account == [status : Life \cup {"none"}, active : BOOLEAN, manager : Manager]

(* A row of clients with the status of its row in chat_rooms.              *)
Profile == [status : Life \cup {"none"}, active : BOOLEAN, manager : Manager,
            room : {"none", "active", "read_only", "archived"}]

(* The local variables: the caller, the id in the path and the other id of *)
(* the request; the status and is_active asked for ("same": not in the     *)
(* body); the row that was read; the ids asked for (given), those of them  *)
(* still to be written (want), those assigned before (old), the clients    *)
(* whose rooms an eviction has still to call (todo); whether assignments   *)
(* are replaced; the step that follows an eviction.                        *)
Id == Staff \cup Client

(* The steps of the handlers, by what the id in their path is.             *)
RecruiterStep ==
  {"create", "enroll", "hire", "update", "pause", "resume", "dismiss", "rehire",
   "evict", "evicting", "unlink", "unscope", "remove",
   "target", "target_insert", "target_update", "untarget"}

ClientStep ==
  {"client", "enlist", "profile", "old", "delete_all", "insert", "log", "room",
   "no_room", "no_staff", "no_scope", "no_client", "upsert", "leave", "password"}

SubAdminStep ==
  {"appoint", "entrust", "strip", "sub_profile", "sub_set", "take_over",
   "bequeath", "hand_over", "retire"}

Local == [step : {"idle"} \cup RecruiterStep \cup ClientStep \cup SubAdminStep,
          by : Manager, id : Id \cup {Nobody}, other : Id \cup {Nobody},
          status : Life \cup {"same", "paused", "ended"}, active : {"yes", "no", "same"},
          row : Account,
          given : SUBSET Id, want : SUBSET Id, old : SUBSET Id, todo : SUBSET Id,
          replace : BOOLEAN, then : {"idle", "unlink", "dismiss"}]

NoRow == [status |-> "none", active |-> FALSE, manager |-> Nobody]

Idle == [step |-> "idle", by |-> Nobody, id |-> Nobody, other |-> Nobody,
         status |-> "same", active |-> "same", row |-> NoRow,
         given |-> {}, want |-> {}, old |-> {}, todo |-> {},
         replace |-> FALSE, then |-> "idle"]

(* A recruiter has not been created yet, was just hired, works, or rests;  *)
(* clients have not been created yet, are active, or inactive; recruiters  *)
(* are managed by the sub-admin m, who may be the only one at first.       *)
Hired(m) == [status |-> "active", active |-> TRUE, manager |-> m]
Resting(m) == [status |-> "inactive", active |-> FALSE, manager |-> m]

NoClient == [status |-> "none", active |-> FALSE, manager |-> Nobody, room |-> "none"]

Init ==
  /\ \E m \in SubAdmin, kind \in {"none", "new", "works", "rests"},
        life \in {"none", "active", "inactive"},
        appointed \in SUBSET SubAdmin :
       LET here == kind # "none" /\ life # "none" IN
       /\ m \in appointed
       /\ kind # "none" => appointed = SubAdmin
       /\ account = [u \in Staff |-> IF u \in appointed THEN Hired(Admin)
                                     ELSE IF u \in SubAdmin \/ kind = "none" THEN NoRow
                                     ELSE IF kind = "rests" THEN Resting(m) ELSE Hired(m)]
       /\ client = [c \in Client |->
            IF life = "none" THEN NoClient
            ELSE [status |-> life, active |-> life = "active", manager |-> m,
                  room |-> IF life = "active" THEN "active" ELSE "read_only"]]
       /\ employs = [p \in Pair |-> IF here THEN "active" ELSE "none"]
       /\ target = [p \in Pair |-> IF ~here \/ kind = "new" THEN "none"
                                   ELSE IF kind = "works" THEN "active" ELSE "paused"]
       /\ session = IF here /\ kind # "rests" THEN Pair ELSE {}
       /\ portal = IF life = "active" THEN Client ELSE {}
       /\ scope = {<<m, u>> : u \in {v \in Recruiter : kind # "none"}}
                    \cup {<<m, c>> : c \in {d \in Client : life # "none"}}
  /\ request = [r \in Request |-> Idle]
  /\ started = 0
  /\ slipped = {}
  /\ cut = {}

-----------------------------------------------------------------------------
(* requireAuth and the scope of the caller.                                *)

Exists(u) == u \in Staff /\ account[u].status # "none"
Known(c) == client[c].status # "none"

(* requireAuth: the row of the caller is read again, and is_active counts. *)
Signed(by) == by = Admin \/ (by \in SubAdmin /\ Exists(by) /\ account[by].active)

(* getScopedEmployeeIds and getScopedClientIds of a caller: everything for *)
(* an administrator, assignments and managed_by for a sub-admin.           *)
ScopedStaff(by) ==
  IF by = Admin THEN Staff
  ELSE {u \in Recruiter : <<by, u>> \in scope} \cup {u \in Staff : account[u].manager = by}

ScopedClients(by) ==
  IF by = Admin THEN Client
  ELSE {c \in Client : <<by, c>> \in scope \/ client[c].manager = by}

(* validateRoomAccess: whom the Worker lets into the room of c.            *)
Member(u, c) ==
  /\ client[c].room # "none"
  /\ \/ u = Admin
     \/ /\ Exists(u) /\ account[u].active
        /\ \/ u \in SubAdmin /\ (<<u, c>> \in scope \/ client[c].manager = u)
           \/ u \in Recruiter /\ employs[<<u, c>>] = "active"

(* getAuthorizedClientIds: the clients whose rooms a user may see.         *)
AuthorizedClients(u) ==
  IF u = Admin THEN Client
  ELSE IF ~Exists(u) \/ ~account[u].active THEN {}
  ELSE IF u \in SubAdmin THEN {c \in Client : <<u, c>> \in scope \/ client[c].manager = u}
  ELSE {c \in Client : employs[<<u, c>>] = "active"}

(* GET /chat/rooms: the rooms of a user.                                   *)
ListedRooms(u) == {c \in AuthorizedClients(u) : client[c].room # "none"}

(* getChatUnreadCount: the rooms whose messages it counts.                 *)
CountedRooms(u) ==
  IF u = Admin THEN {c \in Client : client[c].room # "none"}
  ELSE {c \in Client : client[c].room # "none"} \cap AuthorizedClients(u)

(* Mutant of Participants: who manages the client is not asked for.        *)
ParticipantsAssigned(c) ==
  {Admin} \cup {u \in Staff :
     /\ Exists(u) /\ account[u].active
     /\ <<u, c>> \in scope \/ (u \in Recruiter /\ employs[<<u, c>>] = "active")}

(* The participants that GET /chat/rooms shows with the room of a client,  *)
(* from five queries (the page is sent the first ten).                     *)
Participants(c) ==
  {Admin} \cup {u \in Staff :
     /\ Exists(u) /\ account[u].active
     /\ \/ <<u, c>> \in scope
        \/ client[c].manager = u
        \/ u \in Recruiter /\ employs[<<u, c>>] = "active"}

-----------------------------------------------------------------------------
(* The course of a handler.                                                *)

Begin(r, local) ==
  /\ request[r].step = "idle"
  /\ started < MaxRequest
  /\ started' = started + 1
  /\ request' = [request EXCEPT ![r] = local]

Goto(r, step) ==
  /\ request' = [request EXCEPT ![r].step = step]
  /\ UNCHANGED started

Answer(r) ==
  /\ request' = [request EXCEPT ![r] = Idle]
  /\ UNCHANGED started

(* A deletion of the sub-admin s has handed its employees over.            *)
Retiring(s) == \E r \in Request : request[r].id = s /\ request[r].step \in {"hand_over", "retire"}

(* The handler stops in the middle.                                        *)
Abort(r) ==
  /\ Answer(r)
  /\ cut' = cut \cup {request[r].id}
  /\ UNCHANGED <<tables, slipped>>

(* A statement throws, or the isolate of the handler is evicted.           *)
RequestLost(r) ==
  /\ "request" \in Fault
  /\ request[r].step # "idle"
  /\ Abort(r)

(* The loop over the ids still to be written: the statement for x is done. *)
Wrote(r, x) ==
  /\ request' = [request EXCEPT ![r].want = @ \ {x}]
  /\ UNCHANGED started

=============================================================================
