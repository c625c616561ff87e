----------------------------- MODULE Organisation ------------------------------
(***************************************************************************)
(* All the handlers that change who works for whom, together: any of them  *)
(* may run between two statements of any other.                            *)
(*                                                                         *)
(* The code has no transactions, so two handlers about one account or one  *)
(* client can leave what neither of them would.  The variable slipped      *)
(* records each such window at the statement where it bites, and the       *)
(* properties say that there are no others.                                *)
(***************************************************************************)
EXTENDS SubAdmins

Next ==
  \/ \E r \in Request :
       RecruiterHandlers(r) \/ TargetHandlers(r) \/ ClientHandlers(r) \/ SubAdminHandlers(r)
         \/ RequestLost(r)
  \/ \E c \in Client :
       \/ SyncWorkspace(c)
       \/ \E by \in Caller, room \in {"active", "read_only", "archived"} : RoomSwitch(by, c, room)
  \/ \E u \in Recruiter, c \in Client : Enter(u, c) \/ Exit(u, c)

Spec == Init /\ [][Next]_vars

-----------------------------------------------------------------------------

TypeOK ==
  /\ account \in [Staff -> Account]
  /\ client \in [Client -> Profile]
  /\ employs \in [Pair -> {"none", "inactive", "active"}]
  /\ scope \subseteq SubAdmin \X Id
  /\ target \in [Pair -> {"none", "active", "paused", "ended"}]
  /\ session \subseteq Pair
  /\ portal \subseteq Client
  /\ request \in [Request -> Local]
  /\ started \in Nat
  /\ cut \subseteq Id \cup {Nobody}

(* "Pause active targets for deactivated recruiter" (employees.ts:605): a  *)
(* recruiter who rests has no active target, whatever requests overlap.    *)
(* The windows: a target is written, resumed by its id, or resumed with    *)
(* the account, after a check that is no longer true.                      *)
RestingWithoutTargets ==
  \A p \in Pair :
    Rests(p[1]) /\ target[p] = "active" =>
      \/ <<"target", p[1]>> \in slipped
      \/ p[1] \in cut
      \/ \E r \in Request : request[r].id = p[1] /\ request[r].step = "pause"

(* A handler under way that will still close the socket of u in c's room,  *)
(* or give u its assignment back.                                          *)
Pending(u, c) ==
  \E r \in Request :
    LET q == request[r] IN
      \/ q.id = u /\ q.step \in {"pause", "evict"}
      \/ q.id = u /\ q.step = "evicting" /\ c \in q.todo
      \/ q.id = u /\ q.step = "rehire" /\ c \in q.want
      \/ q.id = c /\ q.step = "insert" /\ (u \in q.want \/ u \in q.old \ q.given)
      \/ q.id = c /\ q.step = "leave" /\ q.other = u

(* "Immediately evict a deactivated or deleted user" (employees.ts:24) and *)
(* "to immediately evict or refresh users" (clients.ts:24): who holds a    *)
(* socket of a room is entitled to it.  The windows: assignments replaced  *)
(* on the recruiter's page; an assignment between the SELECT of the old    *)
(* ones and their DELETE; a room looked up while its assignments are being *)
(* replaced; a recruiter who is back before its row goes; a deleted room,  *)
(* and one that sync-workspaces makes again before its client goes.        *)
SocketsOfEntitled ==
  \A p \in session :
    \/ Member(p[1], p[2])
    \/ <<"session", p[1], p[2]>> \in slipped
    \/ {p[1], p[2]} \cap cut # {}
    \/ Pending(p[1], p[2])

(* The same pair of accounts and clients is shown by every page: the two   *)
(* lists of accounts, the staff of a client and the clients of a member of *)
(* the staff, the quotas, the assignments of a sub-admin; and whom the     *)
(* rooms show, count for and let in are the same.  No page reads a row     *)
(* that a deletion left half of.                                           *)
ViewsAgree ==
  /\ \A by \in Caller :
       /\ ListedEmployees(by, "all") = ListedUsers(by, "all") \cap Recruiter
       /\ ListedEmployees(by, "") \cup ListedEmployees(by, "archived")
            = ListedEmployees(by, "all")
       /\ \A p \in ListedTargets(by) :
            p[1] \in ListedUsers(by, "all") \/ p[2] \in ListedClients(by, "all")
  /\ \A s \in SubAdmin :
       /\ Assignments(s) = ListedUsers(s, "all") \cup ListedClients(s, "all")
       /\ CountedAssignments(s) \subseteq Assignments(s)
  /\ \A u \in Recruiter :
       /\ LiveTargets(u) \subseteq ListedTargets(u)
       /\ \A c \in Client :
            u \in AssignedStaff(c) <=> c \in AssignedClients(u) /\ account[u].active
  /\ \A c \in Client, u \in Staff \cup {Admin} :
       /\ Member(u, c) <=> c \in ListedRooms(u)
       /\ c \in CountedRooms(u) <=> c \in ListedRooms(u)
       /\ client[c].room # "none" => (u \in Participants(c) <=> Member(u, c))

(* Who is connected is entitled, and who is entitled is shown: what the    *)
(* pages and the rooms make of the assignments.                            *)
EntitledAlike == SocketsOfEntitled /\ ViewsAgree

(* "Atomically create Client and Workspace Chat Room together"             *)
(* (clients.ts:254): every client has its room, but while it is deleted or *)
(* when a deletion stopped half-way.                                       *)
EveryClientHasRoom ==
  \A c \in Client :
    Known(c) /\ client[c].room = "none" =>
      \/ c \in cut
      \/ \E r \in Request : request[r].id = c /\ request[r].step \in {"no_staff", "no_scope", "no_client"}

(* "A deactivated client is read-only" (applyflowfullidea.md:239).  The    *)
(* windows: an update writes the status it read before; a room is opened   *)
(* for a client that was deactivated meanwhile, or by its own endpoints.   *)
InactiveReadOnly ==
  \A c \in Client :
    client[c].status = "inactive" /\ client[c].room = "active" =>
      \/ <<"room", c>> \in slipped
      \/ c \in cut
      \/ \E r \in Request : request[r].id = c /\ request[r].step = "room" /\ request[r].status = "inactive"

(* A client, its status and its room are three writes in each handler      *)
(* (clients.ts:254-300, :596-640): they stay together but for the windows. *)
RoomsFollowClients == TypeOK /\ EveryClientHasRoom /\ InactiveReadOnly

(* "Reassign employees and clients before deleting" (subAdmins.ts:559): a  *)
(* sub-admin about to be deleted manages nobody, so that nobody is left    *)
(* without a manager.  The windows: a recruiter created, or handed over    *)
(* by another deletion, in between.                                        *)
NobodyOrphaned ==
  \A u \in Staff : Retiring(account[u].manager) => <<"manager", u>> \in slipped

(* "If deactivated, the client cannot log in" (applyflowfullidea.md:421).  *)
LoginBlocked == \A c \in Client : client[c].status = "inactive" => c \notin portal

=============================================================================
