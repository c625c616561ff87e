--------------------------- MODULE OrganisationProofs ---------------------------
(***************************************************************************)
(* Proofs about Organisation, for any accounts, clients, handlers, bounds  *)
(* and faults: whatever handlers overlap, and however many.                *)
(***************************************************************************)
EXTENDS Organisation, Integers, TLAPS

(* What the local variables of a handler are good for, step by step.       *)
Sound(q) ==
  /\ q.step \in RecruiterStep => q.id \in Recruiter
  /\ q.step \in ClientStep => q.id \in Client
  /\ q.step \in SubAdminStep => q.id \in SubAdmin
  /\ q.step = "create" => q.status \in Life
  /\ q.step = "sub_set" => q.status \in Life
  /\ q.step \in {"update", "profile", "sub_profile"} =>
       q.status \in Life \cup {"same"} /\ q.row.status \in Life
  /\ q.step \in {"target", "target_insert", "target_update"} =>
       /\ q.other \in Client /\ q.status \in {"active", "paused", "ended"}
       /\ q.status = "active" => q.row.active /\ q.row.status = "active"
  /\ q.step = "untarget" => q.other \in Client
  /\ q.step = "leave" => q.other \in Recruiter
  /\ q.step \in {"bequeath", "hand_over", "retire"} =>
       q.other \in (SubAdmin \ {q.id}) \cup {Nobody}
  /\ q.step \in {"profile", "old", "delete_all"} => q.want = q.given

Locals == \A r \in Request : Sound(request[r])

(* The tables refer to each other, whether the schema declares it or not:  *)
(* no assignment, target or scope of an account or client that is gone,    *)
(* and nobody manages what does not exist.                                 *)
References ==
  /\ \A u \in Recruiter, c \in Client :
       employs[<<u, c>>] # "none" \/ target[<<u, c>>] # "none" => Exists(u) /\ Known(c)
  /\ \A x \in scope : Exists(x[1]) /\ x[2] \in Recruiter \cup Client /\ Present(x[2])
  /\ \A u \in Staff : ~Exists(u) => account[u].manager = Nobody
  /\ \A c \in Client : ~Known(c) => client[c].manager = Nobody

IInv == TypeOK /\ Locals /\ References

-----------------------------------------------------------------------------
(* How the local variables move.                                           *)

Others(r) == \A q \in Request \ {r} : request'[q] = request[q]

(* The control variables after a step of handler r.                        *)
Moved(r) ==
  /\ request' \in [Request -> Local] /\ Locals' /\ Others(r)
  /\ started' \in Nat

(* From which step a handler may go to which without new local variables.  *)
Leads(from, to) ==
  \/ from \in RecruiterStep /\ to \in {"enroll", "hire", "pause", "resume", "dismiss", "rehire",
                                       "evict", "evicting", "unlink", "unscope", "remove"}
  \/ from \in ClientStep /\ to \in {"enlist", "insert", "no_staff", "no_scope", "no_client"}
  \/ from \in SubAdminStep /\ to \in {"entrust", "strip", "take_over"}
  \/ from = "target" /\ to \in {"target_insert", "target_update"}
  \/ from = "bequeath" /\ to = "hand_over"
  \/ from = "hand_over" /\ to = "retire"
  \/ from = "profile" /\ to = "old"
  \/ from = "old" /\ to = "delete_all"

LEMMA IdleSound == Idle \in Local /\ Sound(Idle) /\ Idle.step = "idle"
  BY DEF Idle, NoRow, Local, Account, Manager, Life, Sound, RecruiterStep, ClientStep, SubAdminStep

LEMMA Ids ==
  /\ Recruiter \subseteq Staff /\ SubAdmin \subseteq Staff
  /\ Recruiter \subseteq Id /\ Client \subseteq Id /\ SubAdmin \subseteq Id
  /\ Recruiter \cap SubAdmin = {} /\ Recruiter \cap Client = {} /\ SubAdmin \cap Client = {}
  /\ Admin \notin Id /\ Nobody \notin Id /\ Admin # Nobody
  BY IdAssumption DEF Id, Staff

LEMMA Becomes ==
  ASSUME TypeOK, Locals, NEW r \in Request, NEW new \in Local, Sound(new),
         request' = [request EXCEPT ![r] = new], started' \in Nat
  PROVE  Moved(r) /\ request'[r] = new
  <1>1. \A q \in Request : request'[q] = IF q = r THEN new ELSE request[q]
    BY DEF TypeOK
  <1>2. request' \in [Request -> Local]
    BY DEF TypeOK
  <1> QED
    BY <1>1, <1>2 DEF Moved, Others, Locals

LEMMA Begins ==
  ASSUME TypeOK, Locals, NEW r \in Request, NEW new \in Local, Sound(new), Begin(r, new)
  PROVE  Moved(r) /\ request'[r] = new /\ request[r].step = "idle"
  <1>1. started' \in Nat
    BY DEF Begin, TypeOK
  <1> QED
    BY <1>1, Becomes DEF Begin

LEMMA GoesOn ==
  ASSUME TypeOK, Locals, NEW r \in Request, NEW step, Goto(r, step), Leads(request[r].step, step)
  PROVE  Moved(r) /\ request'[r] = [request[r] EXCEPT !.step = step]
  <1> DEFINE new == [request[r] EXCEPT !.step = step]
  <1>1. PICK q \in Local : q = request[r] /\ Sound(q)
    BY DEF TypeOK, Locals
  <1>2. step \in RecruiterStep \cup ClientStep \cup SubAdminStep
    BY DEF Leads, RecruiterStep, ClientStep, SubAdminStep
  <1>3. [q EXCEPT !.step = step] \in Local
    BY <1>2 DEF Local
  <1>4. Sound([q EXCEPT !.step = step])
    BY <1>1 DEF Leads, Sound, Local, RecruiterStep, ClientStep, SubAdminStep
  <1>5. new \in Local /\ Sound(new)
    BY <1>1, <1>3, <1>4
  <1>6. request' = [request EXCEPT ![r] = new] /\ started' \in Nat
    BY DEF Goto, TypeOK
  <1> HIDE DEF new
  <1>7. Moved(r) /\ request'[r] = new
    BY <1>5, <1>6, Becomes
  <1> QED
    BY <1>7 DEF new

LEMMA Answers ==
  ASSUME TypeOK, Locals, NEW r \in Request, Answer(r)
  PROVE  Moved(r) /\ request'[r] = Idle
  BY IdleSound, Becomes DEF Answer, TypeOK

LEMMA Stops ==
  ASSUME TypeOK, Locals, NEW r \in Request, Abort(r)
  PROVE  /\ Moved(r) /\ request'[r] = Idle
         /\ cut' = cut \cup {request[r].id} /\ cut' \subseteq Id \cup {Nobody}
         /\ UNCHANGED <<tables, slipped>>
  <1>1. Answer(r) /\ cut' = cut \cup {request[r].id} /\ UNCHANGED <<tables, slipped>>
    BY DEF Abort
  <1>2. request[r] \in Local
    BY DEF TypeOK
  <1>3. request[r].id \in Id \cup {Nobody}
    BY <1>2 DEF Local
  <1> QED
    BY <1>1, <1>3, Answers DEF TypeOK

LEMMA Writes ==
  ASSUME TypeOK, Locals, NEW r \in Request, NEW x, Wrote(r, x),
         request[r].step \in {"hire", "rehire", "insert", "upsert", "entrust"}
  PROVE  Moved(r) /\ request'[r] = [request[r] EXCEPT !.want = @ \ {x}]
  <1> DEFINE new == [request[r] EXCEPT !.want = @ \ {x}]
  <1>1. PICK q \in Local : q = request[r] /\ Sound(q)
    BY DEF TypeOK, Locals
  <1>2. [q EXCEPT !.want = @ \ {x}] \in Local
    BY DEF Local
  <1>3. Sound([q EXCEPT !.want = @ \ {x}])
    BY <1>1 DEF Sound, Local, RecruiterStep, ClientStep, SubAdminStep
  <1>4. new \in Local /\ Sound(new)
    BY <1>1, <1>2, <1>3
  <1>5. request' = [request EXCEPT ![r] = new] /\ started' \in Nat
    BY DEF Wrote, TypeOK
  <1> HIDE DEF new
  <1>6. Moved(r) /\ request'[r] = new
    BY <1>4, <1>5, Becomes
  <1> QED
    BY <1>6 DEF new

-----------------------------------------------------------------------------
(* Every handler keeps its local variables sound.                          *)

Kept(r) == Moved(r) /\ cut \subseteq cut' /\ cut' \subseteq Id \cup {Nobody}

LEMMA RowRead ==
  ASSUME TypeOK, NEW u \in Staff
  PROVE  /\ account[u] \in Account
         /\ account[u].status \in Life \cup {"none"} /\ account[u].active \in BOOLEAN
         /\ account[u].manager \in Manager
         /\ Exists(u) => account[u].status \in Life
  BY DEF TypeOK, Account, Exists

LEMMA ProfileRead ==
  ASSUME TypeOK, NEW c \in Client
  PROVE  /\ client[c] \in Profile
         /\ client[c].status \in Life \cup {"none"} /\ client[c].active \in BOOLEAN
         /\ client[c].manager \in Manager
         /\ client[c].room \in {"none", "active", "read_only", "archived"}
         /\ Known(c) => client[c].status \in Life
  BY DEF TypeOK, Profile, Known

LEMMA KeptBegin ==
  ASSUME TypeOK, Locals, NEW r \in Request, NEW new \in Local, Sound(new), Begin(r, new),
         cut' = cut
  PROVE  Kept(r)
  <1>1. cut \subseteq Id \cup {Nobody}
    BY DEF TypeOK
  <1> QED
    BY <1>1, Begins DEF Kept

LEMMA KeptElse ==
  ASSUME TypeOK, Locals, NEW r \in Request
  PROVE  /\ \A step : Goto(r, step) /\ cut' = cut /\ Leads(request[r].step, step) => Kept(r)
         /\ Answer(r) /\ cut' = cut => Kept(r)
         /\ Abort(r) => Kept(r)
         /\ \A x : /\ Wrote(r, x) /\ cut' = cut
                   /\ request[r].step \in {"hire", "rehire", "insert", "upsert", "entrust"}
                   => Kept(r)
  <1>1. cut \subseteq Id \cup {Nobody}
    BY DEF TypeOK
  <1>2. ASSUME NEW step, Goto(r, step), Leads(request[r].step, step), cut' = cut
        PROVE  Kept(r)
    BY <1>1, <1>2, GoesOn DEF Kept
  <1>3. ASSUME NEW x, Wrote(r, x), cut' = cut,
               request[r].step \in {"hire", "rehire", "insert", "upsert", "entrust"}
        PROVE  Kept(r)
    BY <1>1, <1>3, Writes DEF Kept
  <1>4. Answer(r) /\ cut' = cut => Kept(r)
    BY <1>1, Answers DEF Kept
  <1>5. Abort(r) => Kept(r)
    BY <1>1, Stops DEF Kept
  <1> QED
    BY <1>2, <1>3, <1>4, <1>5

LEMMA RecruiterMoves ==
  ASSUME TypeOK, Locals, NEW r \in Request, RecruiterHandlers(r)
  PROVE  Kept(r)
  <1>0. cut \subseteq Id \cup {Nobody} /\ request[r] \in Local
    BY DEF TypeOK
  <1>1. ASSUME NEW by \in Caller, NEW u \in Recruiter, NEW status \in Life,
               NEW clients \in SUBSET Client, CreateCheck(r, by, u, status, clients)
        PROVE  Kept(r)
    <2> DEFINE new == [Idle EXCEPT !.step = "create", !.by = by, !.id = u, !.status = status,
                                   !.want = clients]
    <2>1. new \in Local
      BY Ids, IdleSound DEF Local, Manager, RecruiterStep
    <2>2. Sound(new)
      BY DEF Idle, Life, Sound, RecruiterStep, ClientStep, SubAdminStep
    <2>3. Begin(r, new) /\ cut' = cut
      BY <1>1 DEF CreateCheck, history
    <2> HIDE DEF new
    <2> QED
      BY <2>1, <2>2, <2>3, KeptBegin
  <1>2. ASSUME NEW by \in Caller, NEW u \in Recruiter, NEW status \in StatusAsked,
               NEW active \in ActiveAsked, NEW replace \in BOOLEAN,
               NEW clients \in SUBSET Client, UpdateRead(r, by, u, status, active, replace, clients)
        PROVE  Kept(r)
    <2> DEFINE new == [Idle EXCEPT !.step = "update", !.id = u, !.status = status,
                           !.active = active, !.row = account[u],
                           !.replace = replace, !.want = clients,
                           !.then = IF replace THEN "dismiss" ELSE "idle"]
    <2>0. account[u] \in Account /\ account[u].status \in Life
      BY <1>2, Ids, RowRead DEF UpdateRead
    <2>1. new \in Local
      BY <2>0, Ids, IdleSound, AskedAssumption DEF Local, Manager, RecruiterStep
    <2>2. Sound(new)
      BY <2>0, AskedAssumption DEF Idle, Sound, RecruiterStep, ClientStep, SubAdminStep
    <2>3. Begin(r, new) /\ cut' = cut
      BY <1>2 DEF UpdateRead, history
    <2> HIDE DEF new
    <2> QED
      BY <2>1, <2>2, <2>3, KeptBegin
  <1>3. ASSUME NEW by \in Caller, NEW u \in Recruiter, NEW status \in Life,
               SetStatus(r, by, u, status)
        PROVE  Kept(r)
    <2>0. PICK step \in {"resume", "pause"} :
            step = IF status = "active" THEN "resume" ELSE "pause"
      OBVIOUS
    <2> DEFINE new == [Idle EXCEPT !.step = step, !.id = u, !.status = status]
    <2>1. new \in Local
      BY Ids, IdleSound DEF Local, Manager, RecruiterStep
    <2>2. Sound(new)
      BY DEF Idle, Life, Sound, RecruiterStep, ClientStep, SubAdminStep
    <2>3. Begin(r, new) /\ cut' = cut
      BY <1>3, <2>0 DEF SetStatus, history
    <2> HIDE DEF new
    <2> QED
      BY <2>1, <2>2, <2>3, KeptBegin
  <1>4. ASSUME NEW u \in Recruiter, DismissalCheck(r, u) PROVE Kept(r)
    <2> DEFINE new == [Idle EXCEPT !.step = "evict", !.id = u, !.then = "unlink"]
    <2>1. new \in Local
      BY Ids, IdleSound DEF Local, Manager, RecruiterStep
    <2>2. Sound(new)
      BY DEF Idle, Life, Sound, RecruiterStep, ClientStep, SubAdminStep
    <2>3. Begin(r, new) /\ cut' = cut
      BY <1>4 DEF DismissalCheck, history
    <2> HIDE DEF new
    <2> QED
      BY <2>1, <2>2, <2>3, KeptBegin
  <1>5. CASE EvictSelect(r)
    <2>1. PICK q \in Local : q = request[r] /\ Sound(q) /\ q.step = "evict"
      BY <1>0, <1>5 DEF Locals, EvictSelect
    <2>2. PICK rooms \in SUBSET Id : rooms = Rooms(q.id)
      BY Ids DEF Rooms
    <2> DEFINE new == [q EXCEPT !.step = "evicting", !.todo = rooms]
    <2>3. new \in Local
      BY DEF Local, RecruiterStep
    <2>4. Sound(new)
      BY <2>1 DEF Local, Sound, RecruiterStep, ClientStep, SubAdminStep
    <2>5. request' = [request EXCEPT ![r] = new] /\ started' = started /\ cut' = cut
      BY <1>5, <2>1, <2>2 DEF EvictSelect
    <2>6. started' \in Nat
      BY <2>5 DEF TypeOK
    <2> HIDE DEF new
    <2> QED
      BY <1>0, <2>3, <2>4, <2>5, <2>6, Becomes DEF Kept
  <1>6. ASSUME NEW c \in Client, EvictRoom(r, c) PROVE Kept(r)
    <2>1. PICK q \in Local : q = request[r] /\ Sound(q) /\ q.step = "evicting"
      BY <1>0, <1>6 DEF Locals, EvictRoom
    <2> DEFINE new == [q EXCEPT !.todo = @ \ {c}]
    <2>2. new \in Local /\ Sound(new)
      BY <2>1 DEF Local, Sound, RecruiterStep, ClientStep, SubAdminStep
    <2>3. request' = [request EXCEPT ![r] = new] /\ started' = started /\ cut' = cut
      BY <1>6, <2>1 DEF EvictRoom
    <2>4. started' \in Nat
      BY <2>3 DEF TypeOK
    <2> HIDE DEF new
    <2> QED
      BY <1>0, <2>2, <2>3, <2>4, Becomes DEF Kept
  <1>7. CASE CreateInsert(r)
    BY KeptElse, <1>7 DEF CreateInsert, Leads, RecruiterStep
  <1>8. CASE CreateEnroll(r)
    BY KeptElse, <1>8 DEF CreateEnroll, history, Leads, RecruiterStep
  <1>9. ASSUME NEW c \in Client, CreateHire(r, c) \/ Rehire(r, c) PROVE Kept(r)
    BY KeptElse, <1>9 DEF CreateHire, Rehire, history
  <1>10. CASE CreateAnswer(r) \/ RehireAnswer(r)
    BY KeptElse, <1>10 DEF CreateAnswer, RehireAnswer, history
  <1>11. CASE UpdateWrite(r)
    BY KeptElse, <1>11 DEF UpdateWrite, history, Leads, RecruiterStep
  <1>12. CASE Dismiss(r) \/ Pause(r) \/ Unlink(r) \/ Unscope(r)
    BY KeptElse, <1>12 DEF Dismiss, Pause, Unlink, Unscope, history, Leads, RecruiterStep
  <1>13. CASE Resume(r) \/ Remove(r)
    BY KeptElse, <1>13 DEF Resume, Remove, Leads, RecruiterStep
  <1>14. CASE Evicted(r)
    <2>1. request[r].then \in {"idle", "unlink", "dismiss"}
      BY <1>0 DEF Local
    <2> QED
      BY KeptElse, <1>14, <2>1 DEF Evicted, history, Leads, RecruiterStep
  <1>15. CASE \E by \in Caller, u \in Recruiter :
       \/ \E status \in Life, clients \in SUBSET Client :
            CreateCheck(r, by, u, status, clients)
       \/ \E status \in StatusAsked, active \in ActiveAsked :
            \/ UpdateRead(r, by, u, status, active, FALSE, {})
            \/ \E clients \in SUBSET Client : UpdateRead(r, by, u, status, active, TRUE, clients)
       \/ \E status \in Life : SetStatus(r, by, u, status)
    <2> PICK by \in Caller, u \in Recruiter :
       \/ \E status \in Life, clients \in SUBSET Client :
            CreateCheck(r, by, u, status, clients)
       \/ \E status \in StatusAsked, active \in ActiveAsked, clients \in SUBSET Client :
            UpdateRead(r, by, u, status, active, FALSE, clients)
              \/ UpdateRead(r, by, u, status, active, TRUE, clients)
       \/ \E status \in Life : SetStatus(r, by, u, status)
      BY <1>15, Zenon
    <2> QED
      BY <1>1, <1>2, <1>3
  <1>16. CASE \E c \in Client : CreateHire(r, c) \/ Rehire(r, c) \/ EvictRoom(r, c)
    BY <1>6, <1>9, <1>16
  <1> QED
    BY <1>4, <1>5, <1>7, <1>8, <1>10, <1>11, <1>12, <1>13, <1>14, <1>15, <1>16
       DEF RecruiterHandlers

LEMMA TargetMoves ==
  ASSUME TypeOK, Locals, NEW r \in Request, TargetHandlers(r)
  PROVE  Kept(r)
  <1>1. ASSUME NEW by \in Caller, NEW u \in Recruiter, NEW c \in Client,
               NEW status \in {"active", "paused", "ended"},
               TargetCheck(r, by, u, c, status)
        PROVE  Kept(r)
    <2>0. /\ account[u] \in Account
          /\ status = "active" => account[u].active /\ account[u].status = "active"
      BY <1>1, Ids, RowRead DEF TargetCheck
    <2> DEFINE new == [Idle EXCEPT !.step = "target", !.id = u, !.other = c,
                                   !.status = status, !.row = account[u]]
    <2>1. new \in Local
      BY <2>0, Ids, IdleSound DEF Local, Manager, RecruiterStep, Life
    <2>2. Sound(new)
      BY <2>0, Ids DEF Idle, Sound, RecruiterStep, ClientStep, SubAdminStep
    <2>3. Begin(r, new) /\ cut' = cut
      BY <1>1, <2>0 DEF TargetCheck, history
    <2> HIDE DEF new
    <2> QED
      BY <2>1, <2>2, <2>3, KeptBegin
  <1>2. ASSUME NEW by, NEW p, NEW status, TargetSet(r, by, p, status) PROVE Kept(r)
    BY <1>2 DEF TargetSet, TypeOK, Kept, Moved, Others, Locals
  <1>3. ASSUME NEW by \in Caller, NEW p \in Pair,
               TargetDeleteSelect(r, by, p)
        PROVE  Kept(r)
    <2>0. p[1] \in Recruiter /\ p[2] \in Client
      BY DEF Pair
    <2> DEFINE new == [Idle EXCEPT !.step = "untarget", !.id = p[1], !.other = p[2]]
    <2>1. new \in Local
      BY <2>0, Ids, IdleSound DEF Local, RecruiterStep
    <2>2. Sound(new)
      BY <2>0, Ids DEF Idle, Life, Sound, RecruiterStep, ClientStep, SubAdminStep
    <2>3. Begin(r, new) /\ cut' = cut
      BY <1>3, <2>0 DEF TargetDeleteSelect, history
    <2> HIDE DEF new
    <2> QED
      BY <2>1, <2>2, <2>3, KeptBegin
  <1>4. CASE TargetSelect(r)
    <2>1. PICK step \in {"target_insert", "target_update"} : Goto(r, step)
      BY <1>4 DEF TargetSelect
    <2> QED
      BY KeptElse, <1>4, <2>1 DEF TargetSelect, history, Leads
  <1>5. CASE TargetUpdate(r) \/ TargetInsert(r) \/ TargetDelete(r)
    BY KeptElse, <1>5 DEF TargetUpdate, TargetInsert, TargetDelete, history
  <1>6. CASE \E by \in Caller, p \in Pair :
       \/ \E status \in {"active", "paused", "ended"} :
            TargetCheck(r, by, p[1], p[2], status) \/ TargetSet(r, by, p, status)
       \/ TargetDeleteSelect(r, by, p)
    <2>1. \A p \in Pair : p[1] \in Recruiter /\ p[2] \in Client
      BY DEF Pair
    <2> QED
      BY <1>1, <1>2, <1>3, <1>6, <2>1
  <1> QED
    BY <1>4, <1>5, <1>6 DEF TargetHandlers

LEMMA ClientMoves ==
  ASSUME TypeOK, Locals, NEW r \in Request, ClientHandlers(r)
  PROVE  Kept(r)
  <1>1. ASSUME NEW by \in Caller, NEW c \in Client,
               ClientCreateCheck(r, by, c)
        PROVE  Kept(r)
    <2> DEFINE new == [Idle EXCEPT !.step = "client", !.by = by, !.id = c]
    <2>1. new \in Local
      BY Ids, IdleSound DEF Local, Manager, ClientStep
    <2>2. Sound(new)
      BY Ids DEF Idle, Life, Sound, RecruiterStep, ClientStep, SubAdminStep
    <2>3. Begin(r, new) /\ cut' = cut
      BY <1>1 DEF ClientCreateCheck, history
    <2> HIDE DEF new
    <2> QED
      BY <2>1, <2>2, <2>3, KeptBegin
  <1>2. ASSUME NEW by \in Caller, NEW c \in Client,
               PasswordCheck(r, by, c)
        PROVE  Kept(r)
    <2> DEFINE new == [Idle EXCEPT !.step = "password", !.id = c]
    <2>1. new \in Local
      BY Ids, IdleSound DEF Local, ClientStep
    <2>2. Sound(new)
      BY Ids DEF Idle, Life, Sound, RecruiterStep, ClientStep, SubAdminStep
    <2>3. Begin(r, new) /\ cut' = cut
      BY <1>2 DEF PasswordCheck, history
    <2> HIDE DEF new
    <2> QED
      BY <2>1, <2>2, <2>3, KeptBegin
  <1>3. ASSUME NEW by \in Caller, NEW c \in Client, NEW status \in Life,
               ClientSet(r, by, c, status)
        PROVE  Kept(r)
    <2>0. PICK step \in {"log", "room"} : step = IF status = "archived" THEN "log" ELSE "room"
      OBVIOUS
    <2> DEFINE new == [Idle EXCEPT !.step = step, !.id = c, !.status = status]
    <2>1. new \in Local
      BY Ids, IdleSound DEF Local, ClientStep, Life
    <2>2. Sound(new)
      BY Ids DEF Idle, Life, Sound, RecruiterStep, ClientStep, SubAdminStep
    <2>3. Begin(r, new) /\ cut' = cut
      BY <1>3, <2>0 DEF ClientSet, history
    <2> HIDE DEF new
    <2> QED
      BY <2>1, <2>2, <2>3, KeptBegin
  <1>4. ASSUME NEW by \in Caller, NEW c \in Client, NEW status \in StatusAsked,
               NEW active \in ActiveAsked, NEW replace \in BOOLEAN, NEW staff \in SUBSET Recruiter,
               ClientRead(r, by, c, status, active, replace, staff)
        PROVE  Kept(r)
    <2>0. PICK row \in Account :
            /\ row = [status |-> client[c].status, active |-> client[c].active,
                      manager |-> client[c].manager]
            /\ row.status \in Life
      <3>1. /\ client[c].status \in Life /\ client[c].active \in BOOLEAN
            /\ client[c].manager \in Manager
        BY <1>4, ProfileRead DEF ClientRead
      <3>2. [status |-> client[c].status, active |-> client[c].active,
             manager |-> client[c].manager] \in Account
        BY <3>1 DEF Account
      <3> QED
        BY <3>1, <3>2
    <2> DEFINE new == [Idle EXCEPT !.step = "profile", !.id = c,
                           !.status = status, !.active = active, !.row = row,
                           !.replace = replace, !.given = staff, !.want = staff]
    <2>1. new \in Local
      BY <2>0, AskedAssumption, Ids, IdleSound DEF Local, ClientStep
    <2>2. Sound(new)
      BY <2>0, AskedAssumption, Ids DEF Idle, Sound, RecruiterStep, ClientStep, SubAdminStep
    <2>3. Begin(r, new) /\ cut' = cut
      BY <1>4, <2>0 DEF ClientRead, history
    <2> HIDE DEF new
    <2> QED
      BY <2>1, <2>2, <2>3, KeptBegin
  <1>5. ASSUME NEW by \in Caller, NEW c \in Client, NEW staff \in SUBSET Recruiter,
               AssignCheck(r, by, c, staff)
        PROVE  Kept(r)
    <2> DEFINE new == [Idle EXCEPT !.step = "upsert", !.id = c, !.want = staff]
    <2>1. new \in Local
      BY Ids, IdleSound DEF Local, ClientStep
    <2>2. Sound(new)
      BY Ids DEF Idle, Life, Sound, RecruiterStep, ClientStep, SubAdminStep
    <2>3. Begin(r, new) /\ cut' = cut
      BY <1>5 DEF AssignCheck, history
    <2> HIDE DEF new
    <2> QED
      BY <2>1, <2>2, <2>3, KeptBegin
  <1>6. ASSUME NEW by \in Caller, NEW c \in Client, NEW u \in Recruiter,
               Unassign(r, by, u, c)
        PROVE  Kept(r)
    <2> DEFINE new == [Idle EXCEPT !.step = "leave", !.id = c, !.other = u]
    <2>1. new \in Local
      BY Ids, IdleSound DEF Local, ClientStep
    <2>2. Sound(new)
      BY Ids DEF Idle, Life, Sound, RecruiterStep, ClientStep, SubAdminStep
    <2>3. Begin(r, new) /\ cut' = cut
      BY <1>6 DEF Unassign, history
    <2> HIDE DEF new
    <2> QED
      BY <2>1, <2>2, <2>3, KeptBegin
  <1>7. ASSUME NEW c \in Client,
               ClientDeleteCheck(r, c)
        PROVE  Kept(r)
    <2> DEFINE new == [Idle EXCEPT !.step = "no_room", !.id = c]
    <2>1. new \in Local
      BY Ids, IdleSound DEF Local, ClientStep
    <2>2. Sound(new)
      BY Ids DEF Idle, Life, Sound, RecruiterStep, ClientStep, SubAdminStep
    <2>3. Begin(r, new) /\ cut' = cut
      BY <1>7 DEF ClientDeleteCheck, history
    <2> HIDE DEF new
    <2> QED
      BY <2>1, <2>2, <2>3, KeptBegin
  <1>8. CASE ClientInsert(r)
    BY KeptElse, <1>8 DEF ClientInsert, history, Leads, ClientStep
  <1>9. CASE ClientEnlist(r)
    BY KeptElse, <1>9 DEF ClientEnlist, history
  <1>10. CASE ClientWrite(r)
    BY KeptElse, <1>10 DEF ClientWrite, Leads
  <1>11. CASE OldSelect(r)
    <2>1. PICK q \in Local : q = request[r] /\ Sound(q) /\ q.step = "old"
      BY <1>11 DEF Locals, OldSelect, TypeOK
    <2>2. PICK staff \in SUBSET Id : staff = {u \in Recruiter : employs[<<u, q.id>>] = "active"}
      BY Ids
    <2> DEFINE new == [q EXCEPT !.step = "delete_all", !.old = staff]
    <2>3. new \in Local
      BY DEF Local, ClientStep
    <2>4. Sound(new)
      BY <2>1 DEF Local, Sound, RecruiterStep, ClientStep, SubAdminStep
    <2>5. request' = [request EXCEPT ![r] = new] /\ started' = started /\ cut' = cut
      BY <1>11, <2>1, <2>2 DEF OldSelect, history
    <2>6. started' \in Nat /\ cut \subseteq Id \cup {Nobody}
      BY <2>5 DEF TypeOK
    <2> HIDE DEF new
    <2> QED
      BY <2>3, <2>4, <2>5, <2>6, Becomes DEF Kept
  <1>12. CASE DeleteAll(r) \/ DeleteRoom(r) \/ DeleteStaff(r) \/ DeleteScope(r)
    BY KeptElse, <1>12 DEF DeleteAll, DeleteRoom, DeleteStaff, DeleteScope, history, Leads, ClientStep
  <1>13. ASSUME NEW u \in Recruiter, InsertOne(r, u) \/ AssignUpsert(r, u) PROVE Kept(r)
    BY KeptElse, <1>13 DEF InsertOne, AssignUpsert, history
  <1>14. CASE InsertTell(r) \/ AssignTell(r) \/ UnassignTell(r)
    BY KeptElse, <1>14 DEF InsertTell, AssignTell, UnassignTell, Tell
  <1>15. CASE RoomSet(r) \/ SetAnswer(r) \/ DeleteClient(r) \/ PasswordWrite(r)
    BY KeptElse, <1>15 DEF RoomSet, SetAnswer, DeleteClient, PasswordWrite, history
  <1>16. CASE \E by \in Caller, c \in Client :
       \/ ClientCreateCheck(r, by, c) \/ PasswordCheck(r, by, c)
       \/ \E status \in Life : ClientSet(r, by, c, status)
       \/ \E status \in StatusAsked, active \in ActiveAsked :
            \/ ClientRead(r, by, c, status, active, FALSE, {})
            \/ \E staff \in SUBSET Recruiter : ClientRead(r, by, c, status, active, TRUE, staff)
       \/ \E staff \in SUBSET Recruiter : AssignCheck(r, by, c, staff)
       \/ \E u \in Recruiter : Unassign(r, by, u, c)
    <2> PICK by \in Caller, c \in Client :
       \/ ClientCreateCheck(r, by, c) \/ PasswordCheck(r, by, c)
       \/ \E status \in Life : ClientSet(r, by, c, status)
       \/ \E status \in StatusAsked, active \in ActiveAsked, staff \in SUBSET Recruiter :
            ClientRead(r, by, c, status, active, FALSE, staff)
              \/ ClientRead(r, by, c, status, active, TRUE, staff)
       \/ \E staff \in SUBSET Recruiter : AssignCheck(r, by, c, staff)
       \/ \E u \in Recruiter : Unassign(r, by, u, c)
      BY <1>16, Zenon
    <2> QED
      BY <1>1, <1>2, <1>3, <1>4, <1>5, <1>6
  <1> QED
    BY <1>7, <1>8, <1>9, <1>10, <1>11, <1>12, <1>13, <1>14, <1>15, <1>16 DEF ClientHandlers

LEMMA SubAdminMoves ==
  ASSUME TypeOK, Locals, NEW r \in Request, SubAdminHandlers(r)
  PROVE  Kept(r)
  <1>1. ASSUME NEW s \in SubAdmin, NEW ids \in SUBSET (Recruiter \cup Client),
               AppointCheck(r, s, ids)
        PROVE  Kept(r)
    <2> DEFINE new == [Idle EXCEPT !.step = "appoint", !.id = s, !.want = ids]
    <2>1. new \in Local
      BY Ids, IdleSound DEF Local, SubAdminStep
    <2>2. Sound(new)
      BY Ids DEF Idle, Life, Sound, RecruiterStep, ClientStep, SubAdminStep
    <2>3. Begin(r, new) /\ cut' = cut
      BY <1>1 DEF AppointCheck, history
    <2> HIDE DEF new
    <2> QED
      BY <2>1, <2>2, <2>3, KeptBegin
  <1>2. ASSUME NEW s \in SubAdmin, NEW ids \in SUBSET (Recruiter \cup Client),
               ReplaceCheck(r, s, ids)
        PROVE  Kept(r)
    <2> DEFINE new == [Idle EXCEPT !.step = "strip", !.id = s, !.want = ids]
    <2>1. new \in Local
      BY Ids, IdleSound DEF Local, SubAdminStep
    <2>2. Sound(new)
      BY Ids DEF Idle, Life, Sound, RecruiterStep, ClientStep, SubAdminStep
    <2>3. Begin(r, new) /\ cut' = cut
      BY <1>2 DEF ReplaceCheck, history
    <2> HIDE DEF new
    <2> QED
      BY <2>1, <2>2, <2>3, KeptBegin
  <1>3. ASSUME NEW s \in SubAdmin, NEW ids \in SUBSET (Recruiter \cup Client),
               NEW status \in StatusAsked, NEW replace \in BOOLEAN,
               SubAdminRead(r, s, status, replace, ids)
        PROVE  Kept(r)
    <2>0. account[s] \in Account /\ account[s].status \in Life
      BY <1>3, Ids, RowRead DEF SubAdminRead
    <2> DEFINE new == [Idle EXCEPT !.step = "sub_profile", !.id = s,
                           !.row = account[s], !.status = status,
                           !.replace = replace, !.want = ids]
    <2>1. new \in Local
      BY <2>0, AskedAssumption, Ids, IdleSound DEF Local, SubAdminStep
    <2>2. Sound(new)
      BY <2>0, AskedAssumption, Ids DEF Idle, Sound, RecruiterStep, ClientStep, SubAdminStep
    <2>3. Begin(r, new) /\ cut' = cut
      BY <1>3, <2>0 DEF SubAdminRead, history
    <2> HIDE DEF new
    <2> QED
      BY <2>1, <2>2, <2>3, KeptBegin
  <1>4. ASSUME NEW s \in SubAdmin, NEW status \in {"active", "inactive"},
               SubAdminSet(r, s, status)
        PROVE  Kept(r)
    <2> DEFINE new == [Idle EXCEPT !.step = "sub_set", !.id = s, !.status = status]
    <2>1. new \in Local
      BY Ids, IdleSound DEF Local, SubAdminStep, Life
    <2>2. Sound(new)
      BY Ids DEF Idle, Life, Sound, RecruiterStep, ClientStep, SubAdminStep
    <2>3. Begin(r, new) /\ cut' = cut
      BY <1>4 DEF SubAdminSet, history
    <2> HIDE DEF new
    <2> QED
      BY <2>1, <2>2, <2>3, KeptBegin
  <1>5. ASSUME NEW s \in SubAdmin, NEW heir \in (SubAdmin \ {s}) \cup {Nobody}, NEW forced \in BOOLEAN,
               RetireCheck(r, s, heir, forced)
        PROVE  Kept(r)
    <2> DEFINE new == [Idle EXCEPT !.step = "bequeath", !.id = s, !.other = heir]
    <2>1. new \in Local
      BY Ids, IdleSound DEF Local, SubAdminStep
    <2>2. Sound(new)
      BY Ids DEF Idle, Life, Sound, RecruiterStep, ClientStep, SubAdminStep
    <2>3. Begin(r, new) /\ cut' = cut
      BY <1>5 DEF RetireCheck, history
    <2> HIDE DEF new
    <2> QED
      BY <2>1, <2>2, <2>3, KeptBegin
  <1>6. CASE AppointInsert(r)
    BY KeptElse, <1>6 DEF AppointInsert, history, Leads, SubAdminStep
  <1>7. ASSUME NEW x, Entrust(r, x) PROVE Kept(r)
    BY KeptElse, <1>7 DEF Entrust, history
  <1>8. CASE EntrustAnswer(r) \/ Strip(r) \/ TakeOver(r) \/ Retire(r)
    BY KeptElse, <1>8 DEF EntrustAnswer, Strip, TakeOver, Retire, history, Leads, SubAdminStep
  <1>9. CASE SubAdminWrite(r)
    BY KeptElse, <1>9 DEF SubAdminWrite, history, Leads, SubAdminStep
  <1>10. CASE SubAdminSwitch(r)
    BY KeptElse, <1>10 DEF SubAdminSwitch, history, Leads, SubAdminStep
  <1>11. CASE Bequeath(r)
    BY KeptElse, <1>11 DEF Bequeath, Leads
  <1>12. CASE HandOver(r)
    BY KeptElse, <1>12 DEF HandOver, history, Leads
  <1>13. CASE \E s \in SubAdmin :
       \/ \E ids \in SUBSET (Recruiter \cup Client) :
            \/ AppointCheck(r, s, ids) \/ ReplaceCheck(r, s, ids)
            \/ \E status \in StatusAsked : SubAdminRead(r, s, status, TRUE, ids)
       \/ \E status \in StatusAsked : SubAdminRead(r, s, status, FALSE, {})
       \/ \E status \in {"active", "inactive"} : SubAdminSet(r, s, status)
       \/ \E heir \in (SubAdmin \ {s}) \cup {Nobody}, forced \in BOOLEAN :
            RetireCheck(r, s, heir, forced)
    <2> PICK s \in SubAdmin :
       \/ \E ids \in SUBSET (Recruiter \cup Client) : AppointCheck(r, s, ids)
       \/ \E ids \in SUBSET (Recruiter \cup Client) : ReplaceCheck(r, s, ids)
       \/ \E ids \in SUBSET (Recruiter \cup Client), status \in StatusAsked :
            SubAdminRead(r, s, status, TRUE, ids) \/ SubAdminRead(r, s, status, FALSE, ids)
       \/ \E status \in {"active", "inactive"} : SubAdminSet(r, s, status)
       \/ \E heir \in (SubAdmin \ {s}) \cup {Nobody}, forced \in BOOLEAN :
            RetireCheck(r, s, heir, forced)
      BY <1>13, Zenon
    <2> QED
      BY <1>1, <1>2, <1>3, <1>4, <1>5
  <1> QED
    BY <1>6, <1>7, <1>8, <1>9, <1>10, <1>11, <1>12, <1>13 DEF SubAdminHandlers

(* A step changes the local variables of one handler or of none.           *)
LEMMA ControlStep ==
  ASSUME TypeOK, Locals, [Next]_vars
  PROVE  /\ request' \in [Request -> Local] /\ Locals' /\ started' \in Nat
         /\ cut \subseteq cut' /\ cut' \subseteq Id \cup {Nobody}
  <1>1. ASSUME NEW r \in Request, RequestLost(r) PROVE Kept(r)
    BY <1>1, KeptElse DEF RequestLost
  <1>2. ASSUME NEW c, SyncWorkspace(c) \/ \E by, room : RoomSwitch(by, c, room)
        PROVE  request' = request /\ started' \in Nat /\ cut' = cut
    BY <1>2 DEF SyncWorkspace, RoomSwitch, TypeOK
  <1>3. ASSUME NEW u, NEW c, Enter(u, c) \/ Exit(u, c)
        PROVE  request' = request /\ started' = started /\ cut' = cut
    BY <1>3 DEF Enter, Exit, control, history
  <1>4. CASE UNCHANGED vars
    BY <1>4 DEF vars, control, history, TypeOK, Locals
  <1>5. ASSUME request' = request, started' \in Nat, cut' = cut
        PROVE  /\ request' \in [Request -> Local] /\ Locals'
               /\ cut \subseteq cut' /\ cut' \subseteq Id \cup {Nobody}
    BY <1>5 DEF TypeOK, Locals
  <1>6. started \in Nat
    BY DEF TypeOK
  <1> QED
    BY <1>1, <1>2, <1>3, <1>4, <1>5, <1>6, RecruiterMoves, TargetMoves, ClientMoves, SubAdminMoves
       DEF Next, Kept, Moved

-----------------------------------------------------------------------------
(* The tables stay typed, and refer to what exists.                        *)

RowsTyped ==
  /\ account \in [Staff -> Account]
  /\ client \in [Client -> Profile]
  /\ employs \in [Pair -> {"none", "inactive", "active"}]
  /\ scope \subseteq SubAdmin \X Id
  /\ target \in [Pair -> {"none", "active", "paused", "ended"}]
  /\ session \subseteq Pair
  /\ portal \subseteq Client

Tabled == RowsTyped' /\ References'

LEMMA Pairs ==
  /\ \A u \in Recruiter, c \in Client :
       <<u, c>> \in Pair /\ <<u, c>>[1] = u /\ <<u, c>>[2] = c
  /\ \A p \in Pair : p[1] \in Recruiter /\ p[2] \in Client /\ p = <<p[1], p[2]>>
  BY DEF Pair

LEMMA NothingWritten ==
  ASSUME IInv, UNCHANGED <<account, client, employs, scope, target>>,
         session' \subseteq Pair, portal' \subseteq Client
  PROVE  Tabled
  BY DEF IInv, TypeOK, References, RowsTyped, Tabled, Exists, Known, Present

LEMMA AccountWritten ==
  ASSUME IInv, account' \in [Staff -> Account],
         \A v \in Staff : account'[v].status = "none" => account'[v] = account[v],
         UNCHANGED <<client, employs, scope, target, session, portal>>
  PROVE  Tabled
  <1>1. RowsTyped'
    BY DEF IInv, TypeOK, RowsTyped
  <1>2. \A v : Exists(v) => Exists(v)'
    BY DEF Exists
  <1>3. \A c : Known(c) <=> Known(c)'
    BY DEF Known
  <1>4. \A x : Present(x) => Present(x)'
    BY <1>2, <1>3 DEF Present
  <1>5. \A v \in Staff : ~Exists(v)' => ~Exists(v) /\ account'[v] = account[v]
    BY DEF Exists
  <1> QED
    BY <1>1, <1>2, <1>3, <1>4, <1>5 DEF IInv, References, Tabled

LEMMA ClientWritten ==
  ASSUME IInv, client' \in [Client -> Profile],
         \A c \in Client :
           client'[c].status = "none" => ~Known(c) /\ client'[c].manager = Nobody,
         UNCHANGED <<account, employs, scope, target, session, portal>>
  PROVE  Tabled
  <1>1. RowsTyped'
    BY DEF IInv, TypeOK, RowsTyped
  <1>2. \A c \in Client : Known(c) => Known(c)'
    BY DEF Known
  <1>3. \A v : Exists(v) <=> Exists(v)'
    BY DEF Exists
  <1>4. \A x : Present(x) => Present(x)'
    BY <1>2, <1>3 DEF Present
  <1>5. \A c \in Client : ~Known(c)' => client'[c].manager = Nobody
    BY DEF Known
  <1> QED
    BY <1>1, <1>2, <1>3, <1>4, <1>5 DEF IInv, References, Tabled

LEMMA EmploysWritten ==
  ASSUME IInv, employs' \in [Pair -> {"none", "inactive", "active"}],
         \A u \in Recruiter, c \in Client :
           employs'[<<u, c>>] # "none" => employs[<<u, c>>] # "none" \/ (Exists(u) /\ Known(c)),
         UNCHANGED <<account, client, scope, target, session, portal>>
  PROVE  Tabled
  BY DEF IInv, TypeOK, References, RowsTyped, Tabled, Exists, Known, Present

LEMMA TargetWritten ==
  ASSUME IInv, target' \in [Pair -> {"none", "active", "paused", "ended"}],
         \A u \in Recruiter, c \in Client :
           target'[<<u, c>>] # "none" => target[<<u, c>>] # "none" \/ (Exists(u) /\ Known(c)),
         UNCHANGED <<account, client, employs, scope, session, portal>>
  PROVE  Tabled
  BY DEF IInv, TypeOK, References, RowsTyped, Tabled, Exists, Known, Present

LEMMA ScopeWritten ==
  ASSUME IInv, scope' \subseteq SubAdmin \X Id,
         \A x \in scope' :
           \/ x \in scope
           \/ Exists(x[1]) /\ x[2] \in Recruiter \cup Client /\ Present(x[2]),
         UNCHANGED <<account, client, employs, target, session, portal>>
  PROVE  Tabled
  BY DEF IInv, TypeOK, References, RowsTyped, Tabled, Exists, Known, Present

LEMMA ManagersWritten ==
  ASSUME IInv, NEW from \in SubAdmin, NEW to \in Manager, account' = Managed(from, to),
         UNCHANGED <<client, employs, scope, target, session, portal>>
  PROVE  Tabled
  <1>1. \A v \in Staff :
          /\ account[v] \in Account
          /\ account'[v] = IF account[v].manager = from
                           THEN [account[v] EXCEPT !.manager = to] ELSE account[v]
    BY DEF IInv, TypeOK, Managed
  <1>2. \A v \in Staff : account'[v] \in Account /\ account'[v].status = account[v].status
    BY <1>1 DEF Account
  <1>3. RowsTyped'
    BY <1>2 DEF IInv, TypeOK, RowsTyped, Managed
  <1>4. \A v : Exists(v) <=> Exists(v)'
    BY <1>2 DEF Exists
  <1>5. \A c : Known(c) <=> Known(c)'
    BY DEF Known
  <1>6. \A x : Present(x) <=> Present(x)'
    BY <1>4, <1>5 DEF Present
  <1>7. \A v \in Staff : ~Exists(v)' => account'[v].manager = Nobody
    BY <1>1, <1>4, Ids DEF IInv, References
  <1> QED
    BY <1>3, <1>4, <1>5, <1>6, <1>7 DEF IInv, References, Tabled

LEMMA Here ==
  ASSUME TypeOK, Locals, NEW r \in Request
  PROVE  /\ request[r].id \in Id \cup {Nobody} /\ request[r].by \in Manager
         /\ request[r].row \in Account
         /\ request[r].status \in Life \cup {"same", "paused", "ended"}
         /\ request[r].active \in {"yes", "no", "same"}
         /\ Sound(request[r])
  <1>1. request[r] \in Local
    BY DEF TypeOK
  <1>2. Sound(request[r])
    BY DEF Locals
  <1> QED
    BY <1>1, <1>2 DEF Local

LEMMA AtRecruiter ==
  ASSUME TypeOK, Locals, NEW r \in Request, request[r].step \in RecruiterStep
  PROVE  request[r].id \in Recruiter
  BY Here DEF Sound

LEMMA AtClient ==
  ASSUME TypeOK, Locals, NEW r \in Request, request[r].step \in ClientStep
  PROVE  request[r].id \in Client
  BY Here DEF Sound

LEMMA AtSubAdmin ==
  ASSUME TypeOK, Locals, NEW r \in Request, request[r].step \in SubAdminStep
  PROVE  request[r].id \in SubAdmin
  BY Here DEF Sound

(* What a PUT writes is a row of someone who exists.                       *)
LEMMA MergedTyped ==
  ASSUME TypeOK, Locals, NEW r \in Request, request[r].step \in {"update", "profile"}
  PROVE  Merged(r).status \in Life /\ Merged(r).active \in BOOLEAN
  <1>1. PICK q : q = request[r] /\ q.row \in Account /\ q.row.status \in Life
                 /\ q.status \in Life \cup {"same"} /\ q.active \in {"yes", "no", "same"}
    BY Here DEF Sound
  <1> QED
    BY <1>1 DEF Merged, Account

LEMMA RecruiterTables ==
  ASSUME IInv, NEW r \in Request, RecruiterHandlers(r)
  PROVE  Tabled
  <1>0. /\ TypeOK /\ Locals
        /\ account \in [Staff -> Account] /\ employs \in [Pair -> {"none", "inactive", "active"}]
        /\ target \in [Pair -> {"none", "active", "paused", "ended"}]
        /\ scope \subseteq SubAdmin \X Id /\ session \subseteq Pair /\ portal \subseteq Client
    BY DEF IInv, TypeOK
  <1>1. ASSUME UNCHANGED tables PROVE Tabled
    BY <1>0, <1>1, NothingWritten DEF tables
  <1>2. CASE CreateInsert(r)
    <2>1. CASE Abort(r)
      BY <1>1, <2>1 DEF Abort
    <2>2. CASE ~Abort(r)
      <3>1. /\ request[r].id \in Recruiter /\ request[r].status \in Life
            /\ request[r].by \in Manager
        BY <1>0, <1>2, AtRecruiter, Here DEF CreateInsert, RecruiterStep, Sound
      <3>2. PICK m \in Manager : m = IF request[r].by \in SubAdmin THEN request[r].by ELSE Nobody
        BY <3>1 DEF Manager
      <3>3. PICK row \in Account :
              row = [status |-> request[r].status, active |-> TRUE, manager |-> m]
        BY <3>1 DEF Account
      <3>4. row.status # "none"
        BY <3>1, <3>3 DEF Life
      <3>5. /\ account' = [account EXCEPT ![request[r].id] = row]
            /\ UNCHANGED <<client, employs, scope, target, session, portal>>
        BY <1>2, <2>2, <3>2, <3>3 DEF CreateInsert
      <3> QED
        BY <1>0, <3>1, <3>4, <3>5, AccountWritten, Ids
    <2> QED
      BY <2>1, <2>2
  <1>3. CASE CreateEnroll(r)
    <2>1. CASE Abort(r)
      BY <1>1, <2>1 DEF Abort
    <2>2. CASE ~Abort(r)
      <3>1. /\ request[r].id \in Recruiter
            /\ Exists(request[r].id) /\ Exists(request[r].by)
            /\ scope' = scope \cup {<<request[r].by, request[r].id>>}
            /\ UNCHANGED <<account, client, employs, target, session, portal>>
        BY <1>0, <1>3, <2>2, AtRecruiter DEF CreateEnroll, RecruiterStep
      <3>2. request[r].by \in SubAdmin
        BY <1>0, <3>1, Here, Ids DEF Exists, Manager, Caller, Id
      <3> QED
        BY <1>0, <3>1, <3>2, ScopeWritten, Ids DEF Present
    <2> QED
      BY <2>1, <2>2
  <1>4. ASSUME NEW c \in Client, CreateHire(r, c) \/ Rehire(r, c) PROVE Tabled
    <2>1. CASE Abort(r)
      BY <1>1, <2>1 DEF Abort
    <2>2. CASE ~Abort(r)
      <3>1. PICK u \in Recruiter, row \in {"none", "inactive", "active"} :
              /\ Exists(u) /\ Known(c) /\ employs' = [employs EXCEPT ![<<u, c>>] = row]
              /\ UNCHANGED <<account, client, scope, target, session, portal>>
        <4>1. request[r].id \in Recruiter
          BY <1>0, <1>4, AtRecruiter DEF CreateHire, Rehire, RecruiterStep
        <4>2. employs[<<request[r].id, c>>] \in {"none", "inactive", "active"}
          BY <1>0, <4>1, Pairs
        <4> QED
          BY <1>0, <1>4, <2>2, <4>1, <4>2 DEF CreateHire, Rehire
      <3>2. \A p \in Pair : employs'[p] = IF p = <<u, c>> THEN row ELSE employs[p]
        BY <1>0, <3>1
      <3>3. employs' \in [Pair -> {"none", "inactive", "active"}]
        BY <1>0, <3>1
      <3> QED
        BY <1>0, <3>1, <3>2, <3>3, EmploysWritten, Pairs
    <2> QED
      BY <2>1, <2>2
  <1>5. ASSUME NEW u \in Recruiter, NEW new \in Account, new.status # "none", Exists(u),
               account' = [account EXCEPT ![u].status = new.status, ![u].active = new.active],
               UNCHANGED <<client, employs, scope, target, session, portal>>
        PROVE  Tabled
    <2>1. PICK row \in Account : row = [account[u] EXCEPT !.status = new.status, !.active = new.active]
      BY <1>5, <1>0, Ids DEF Account
    <2>2. account' = [account EXCEPT ![u] = row]
      BY <1>5, <1>0, <2>1, Ids
    <2>3. row.status # "none"
      BY <1>5, <1>0, <2>1, Ids DEF Account
    <2> QED
      BY <1>0, <1>5, <2>2, <2>3, AccountWritten, Ids
  <1>6. CASE UpdateWrite(r)
    <2>1. CASE Abort(r)
      BY <1>1, <2>1 DEF Abort
    <2>2. CASE ~Abort(r)
      <3>1. request[r].id \in Recruiter /\ Merged(r).status \in Life /\ Merged(r).active \in BOOLEAN
        BY <1>0, <1>6, AtRecruiter, MergedTyped DEF UpdateWrite, RecruiterStep
      <3>2. PICK new \in Account : new.status = Merged(r).status /\ new.active = Merged(r).active
        <4>1. [status |-> Merged(r).status, active |-> Merged(r).active, manager |-> Nobody] \in Account
          BY <3>1 DEF Account, Manager
        <4> QED
          BY <4>1
      <3> QED
        BY <1>5, <1>6, <2>2, <3>1, <3>2 DEF UpdateWrite, Life
    <2> QED
      BY <2>1, <2>2
  <1>7. ASSUME NEW by \in Caller, NEW u \in Recruiter, NEW status \in Life, SetStatus(r, by, u, status)
        PROVE  Tabled
    <2>1. [status |-> status, active |-> status = "active", manager |-> Nobody] \in Account
      BY DEF Account, Manager
    <2> QED
      BY <1>5, <1>7, <2>1 DEF SetStatus, Life
  <1>8. CASE Dismiss(r) \/ Unlink(r)
    <2>1. employs' \in [Pair -> {"none", "inactive", "active"}]
      BY <1>0, <1>8 DEF Dismiss, Unlink
    <2>2. \A p \in Pair : employs'[p] # "none" => employs[p] # "none"
      BY <1>8 DEF Dismiss, Unlink
    <2>3. UNCHANGED <<account, client, scope, target, session, portal>>
      BY <1>8 DEF Dismiss, Unlink
    <2> QED
      BY <2>1, <2>2, <2>3, EmploysWritten, Pairs
  <1>9. CASE Pause(r) \/ Resume(r)
    <2>1. PICK u, from, to : /\ target' = Switched(u, from, to) /\ from # "none"
                              /\ to \in {"active", "paused"}
      BY <1>9 DEF Pause, Resume
    <2>2. target' \in [Pair -> {"none", "active", "paused", "ended"}]
      BY <1>0, <2>1 DEF Switched
    <2>3. \A p \in Pair : target'[p] # "none" => target[p] # "none"
      BY <2>1 DEF Switched
    <2>4. UNCHANGED <<account, client, employs, scope, session, portal>>
      BY <1>9 DEF Pause, Resume
    <2> QED
      BY <2>2, <2>3, <2>4, TargetWritten, Pairs
  <1>10. CASE Unscope(r)
    <2>1. scope' \subseteq scope /\ UNCHANGED <<account, client, employs, target, session, portal>>
      BY <1>10 DEF Unscope
    <2> QED
      BY <1>0, <2>1, ScopeWritten
  <1>11. ASSUME NEW c \in Client, EvictRoom(r, c) PROVE Tabled
    BY <1>0, <1>11, NothingWritten DEF EvictRoom
  <1>12. CASE Remove(r)
    <2>1. PICK u \in Recruiter : u = request[r].id
      BY <1>0, <1>12, AtRecruiter DEF Remove, RecruiterStep
    <2>2. /\ \A v \in Staff : account'[v] = IF v = u THEN NoRow ELSE account[v]
          /\ account' \in [Staff -> Account]
      BY <1>0, <1>12, <2>1, Ids DEF Remove, NoRow, Account, Manager
    <2>3. /\ employs' \in [Pair -> {"none", "inactive", "active"}]
          /\ target' \in [Pair -> {"none", "active", "paused", "ended"}]
          /\ scope' = {s \in scope : s[2] # u}
          /\ UNCHANGED <<client, session, portal>>
      BY <1>0, <1>12, <2>1 DEF Remove
    <2>4. \A v \in Recruiter, c \in Client :
            employs'[<<v, c>>] # "none" \/ target'[<<v, c>>] # "none" =>
              v # u /\ (employs[<<v, c>>] # "none" \/ target[<<v, c>>] # "none")
      BY <1>12, <2>1, Pairs DEF Remove
    <2>5. \A v : Exists(v)' <=> v # u /\ Exists(v)
      BY <2>2 DEF Exists, NoRow
    <2>6. \A c : Known(c)' <=> Known(c)
      BY <2>3 DEF Known
    <2>7. \A x : x # u /\ Present(x) => Present(x)'
      BY <2>5, <2>6 DEF Present
    <2>8. \A x \in scope : x[1] \in SubAdmin
      BY <1>0
    <2>9. References'
      <3>1. \A v \in Staff : ~Exists(v)' => account'[v].manager = Nobody
        BY <2>2, <2>5 DEF IInv, References, NoRow
      <3>2. \A x \in scope' : Exists(x[1])' /\ x[2] \in Recruiter \cup Client /\ Present(x[2])'
        BY <2>3, <2>5, <2>7, <2>8, Ids DEF IInv, References
      <3>3. \A c \in Client : ~Known(c)' => client'[c].manager = Nobody
        BY <2>3, <2>6 DEF IInv, References
      <3> QED
        BY <2>4, <2>5, <2>6, <3>1, <3>2, <3>3 DEF IInv, References
    <2> QED
      BY <2>2, <2>3, <2>9 DEF Tabled, RowsTyped, IInv, TypeOK
  <1>13. CASE CreateAnswer(r) \/ RehireAnswer(r) \/ EvictSelect(r) \/ Evicted(r)
    BY <1>1, <1>13 DEF CreateAnswer, RehireAnswer, EvictSelect, Evicted
  <1>14. ASSUME NEW u, DismissalCheck(r, u) PROVE Tabled
    BY <1>1, <1>14 DEF DismissalCheck
  <1>15. CASE \E by \in Caller, u \in Recruiter :
       \/ \E status \in Life, clients \in SUBSET Client :
            CreateCheck(r, by, u, status, clients)
       \/ \E status \in StatusAsked, active \in ActiveAsked :
            \/ UpdateRead(r, by, u, status, active, FALSE, {})
            \/ \E clients \in SUBSET Client : UpdateRead(r, by, u, status, active, TRUE, clients)
       \/ \E status \in Life : SetStatus(r, by, u, status)
    <2>1. ASSUME NEW by, NEW u, NEW status, NEW clients, CreateCheck(r, by, u, status, clients)
          PROVE  Tabled
      BY <1>1, <2>1 DEF CreateCheck
    <2>2. ASSUME NEW by, NEW u, NEW status, NEW active, NEW replace, NEW clients,
                 UpdateRead(r, by, u, status, active, replace, clients)
          PROVE  Tabled
      BY <1>1, <2>2 DEF UpdateRead
    <2> QED
      BY <1>7, <1>15, <2>1, <2>2
  <1>16. CASE \E c \in Client : CreateHire(r, c) \/ Rehire(r, c) \/ EvictRoom(r, c)
    BY <1>4, <1>11, <1>16
  <1> QED
    BY <1>2, <1>3, <1>6, <1>8, <1>9, <1>10, <1>12, <1>13, <1>14, <1>15, <1>16 DEF RecruiterHandlers

LEMMA TargetTables ==
  ASSUME IInv, NEW r \in Request, TargetHandlers(r)
  PROVE  Tabled
  <1>0. /\ TypeOK /\ Locals
        /\ target \in [Pair -> {"none", "active", "paused", "ended"}]
    BY DEF IInv, TypeOK
  <1>1. ASSUME UNCHANGED tables PROVE Tabled
    BY <1>0, <1>1, NothingWritten DEF tables, TypeOK
  <1>2. ASSUME NEW p \in Pair, NEW status \in {"none", "active", "paused", "ended"},
               target' = [target EXCEPT ![p] = status],
               status # "none" => target[p] # "none" \/ (Exists(p[1]) /\ Known(p[2])),
               UNCHANGED <<account, client, employs, scope, session, portal>>
        PROVE  Tabled
    <2>1. \A x \in Pair : target'[x] = IF x = p THEN status ELSE target[x]
      BY <1>0, <1>2
    <2>2. target' \in [Pair -> {"none", "active", "paused", "ended"}]
      BY <1>0, <1>2
    <2>3. \A u \in Recruiter, c \in Client :
            target'[<<u, c>>] # "none" => target[<<u, c>>] # "none" \/ (Exists(u) /\ Known(c))
      BY <1>2, <2>1, Pairs
    <2> QED
      BY <1>2, <2>2, <2>3, TargetWritten
  <1>3. ASSUME request[r].step \in {"target_update", "target_insert", "untarget"}
        PROVE  /\ <<request[r].id, request[r].other>> \in Pair
               /\ request[r].step # "untarget" => request[r].status \in {"active", "paused", "ended"}
    BY <1>0, <1>3, Here, Pairs DEF Sound, RecruiterStep
  <1>4. CASE TargetUpdate(r)
    <2>1. PICK p \in Pair, new \in {"active", "paused", "ended"} :
            p = <<request[r].id, request[r].other>> /\ new = request[r].status
      BY <1>3, <1>4 DEF TargetUpdate
    <2>2. PICK status \in {"none", "active", "paused", "ended"} :
            status = IF target[p] = "none" THEN "none" ELSE new
      OBVIOUS
    <2>3. /\ target' = [target EXCEPT ![p] = status]
          /\ UNCHANGED <<account, client, employs, scope, session, portal>>
      BY <1>4, <2>1, <2>2 DEF TargetUpdate
    <2> QED
      BY <1>2, <2>2, <2>3
  <1>5. CASE TargetInsert(r)
    <2>1. PICK p \in Pair, status \in {"active", "paused", "ended"} :
            p = <<request[r].id, request[r].other>> /\ status = request[r].status
      BY <1>3, <1>5 DEF TargetInsert
    <2>2. CASE Abort(r)
      BY <1>1, <2>2 DEF Abort
    <2>3. CASE ~Abort(r)
      BY <1>2, <1>5, <2>1, <2>3 DEF TargetInsert
    <2> QED
      BY <2>2, <2>3
  <1>6. CASE TargetDelete(r)
    BY <1>2, <1>3, <1>6 DEF TargetDelete
  <1>7. ASSUME NEW by, NEW p \in Pair, NEW status \in {"active", "paused", "ended"},
               TargetSet(r, by, p, status)
        PROVE  Tabled
    BY <1>2, <1>7 DEF TargetSet
  <1>8. CASE TargetSelect(r)
    BY <1>1, <1>8 DEF TargetSelect
  <1>9. ASSUME NEW by, NEW p, TargetDeleteSelect(r, by, p) \/ \E s : TargetCheck(r, by, p[1], p[2], s)
        PROVE  Tabled
    BY <1>1, <1>9 DEF TargetDeleteSelect, TargetCheck
  <1> QED
    BY <1>4, <1>5, <1>6, <1>7, <1>8, <1>9 DEF TargetHandlers

LEMMA ClientTables ==
  ASSUME IInv, NEW r \in Request, ClientHandlers(r)
  PROVE  Tabled
  <1>0. /\ TypeOK /\ Locals
        /\ client \in [Client -> Profile] /\ employs \in [Pair -> {"none", "inactive", "active"}]
        /\ target \in [Pair -> {"none", "active", "paused", "ended"}]
        /\ scope \subseteq SubAdmin \X Id /\ session \subseteq Pair /\ portal \subseteq Client
    BY DEF IInv, TypeOK
  <1>1. ASSUME UNCHANGED tables PROVE Tabled
    BY <1>0, <1>1, NothingWritten DEF tables
  <1>2. ASSUME NEW c \in Client, NEW row \in Profile,
               client' = [client EXCEPT ![c] = row],
               row.status = "none" => ~Known(c) /\ row.manager = Nobody,
               UNCHANGED <<account, employs, scope, target, session, portal>>
        PROVE  Tabled
    <2>1. \A d \in Client : client'[d] = IF d = c THEN row ELSE client[d]
      BY <1>0, <1>2
    <2>2. client' \in [Client -> Profile]
      BY <1>0, <1>2
    <2>3. \A d \in Client : client'[d].status = "none" => ~Known(d) /\ client'[d].manager = Nobody
      BY <1>2, <2>1 DEF IInv, References, Known
    <2> QED
      BY <1>2, <2>2, <2>3, ClientWritten
  <1>3. CASE ClientInsert(r)
    <2>1. CASE Abort(r)
      BY <1>1, <2>1 DEF Abort
    <2>2. CASE ~Abort(r)
      <3>1. request[r].id \in Client /\ request[r].by \in Manager
        BY <1>0, <1>3, AtClient, Here DEF ClientInsert, ClientStep
      <3>2. PICK m \in Manager : m = IF request[r].by \in SubAdmin THEN request[r].by ELSE Nobody
        BY <3>1 DEF Manager
      <3>3. PICK row \in Profile :
              row = [status |-> "active", active |-> TRUE, room |-> "active", manager |-> m]
        BY DEF Profile, Life
      <3>4. /\ client' = [client EXCEPT ![request[r].id] = row]
            /\ UNCHANGED <<account, employs, scope, target, session, portal>>
        BY <1>3, <2>2, <3>2, <3>3 DEF ClientInsert
      <3> QED
        BY <1>2, <3>1, <3>3, <3>4
    <2> QED
      BY <2>1, <2>2
  <1>4. CASE ClientEnlist(r)
    <2>1. CASE Abort(r)
      BY <1>1, <2>1 DEF Abort
    <2>2. CASE ~Abort(r)
      <3>1. /\ request[r].id \in Client
            /\ Known(request[r].id) /\ Exists(request[r].by)
            /\ scope' = scope \cup {<<request[r].by, request[r].id>>}
            /\ UNCHANGED <<account, client, employs, target, session, portal>>
        BY <1>0, <1>4, <2>2, AtClient DEF ClientEnlist, ClientStep
      <3>2. request[r].by \in SubAdmin
        BY <1>0, <3>1, Here, Ids DEF Exists, Manager, Caller, Id
      <3> QED
        BY <1>0, <3>1, <3>2, ScopeWritten, Ids DEF Present
    <2> QED
      BY <2>1, <2>2
  <1>5. CASE ClientWrite(r)
    <2>1. CASE Abort(r)
      BY <1>1, <2>1 DEF Abort
    <2>2. CASE ~Abort(r)
      <3>1. PICK c \in Client, status \in Life, active \in BOOLEAN :
              c = request[r].id /\ status = Merged(r).status /\ active = Merged(r).active
        BY <1>0, <1>5, AtClient, MergedTyped DEF ClientWrite, ClientStep
      <3>2. PICK row \in Profile : row = [client[c] EXCEPT !.status = status, !.active = active]
        BY <1>0, ProfileRead DEF Profile
      <3>3. row.status # "none"
        BY <3>2, ProfileRead, <1>0 DEF Life, Profile
      <3>4. /\ client' = [client EXCEPT ![c].status = status, ![c].active = active]
            /\ UNCHANGED <<account, employs, scope, target, session, portal>>
        BY <1>5, <2>2, <3>1 DEF ClientWrite
      <3>5. client' = [client EXCEPT ![c] = row]
        BY <1>0, <3>2, <3>4
      <3> QED
        BY <1>2, <3>3, <3>4, <3>5
    <2> QED
      BY <2>1, <2>2
  <1>6. ASSUME NEW by, NEW c \in Client, NEW status \in Life, ClientSet(r, by, c, status) PROVE Tabled
    <2>1. PICK active \in BOOLEAN : active = (status = "active")
      OBVIOUS
    <2>2. PICK row \in Profile : row = [client[c] EXCEPT !.status = status, !.active = active]
      BY <1>0, ProfileRead DEF Profile
    <2>3. row.status # "none"
      BY <2>2, ProfileRead, <1>0 DEF Life, Profile
    <2>4. /\ client' = [client EXCEPT ![c].status = status, ![c].active = active]
          /\ UNCHANGED <<account, employs, scope, target, session, portal>>
      BY <1>6, <2>1 DEF ClientSet
    <2>5. client' = [client EXCEPT ![c] = row]
      BY <1>0, <2>2, <2>4
    <2> QED
      BY <1>2, <2>3, <2>4, <2>5
  <1>7. ASSUME NEW c \in Client, NEW room \in {"none", "active", "read_only", "archived"},
               client' = [client EXCEPT ![c].room = room],
               UNCHANGED <<account, employs, scope, target, session, portal>>
        PROVE  Tabled
    <2>1. PICK row \in Profile : row = [client[c] EXCEPT !.room = room]
      BY <1>0, ProfileRead DEF Profile
    <2>2. row.status = client[c].status /\ row.manager = client[c].manager
      BY <2>1, ProfileRead, <1>0 DEF Profile
    <2>3. row.status = "none" => ~Known(c) /\ row.manager = Nobody
      BY <2>2 DEF IInv, References, Known
    <2>4. client' = [client EXCEPT ![c] = row]
      BY <1>0, <1>7, <2>1
    <2> QED
      BY <1>2, <1>7, <2>3, <2>4
  <1>8. CASE RoomSet(r)
    <2>1. request[r].id \in Client
      BY <1>0, <1>8, AtClient DEF RoomSet, ClientStep
    <2>2. PICK room \in {"none", "active", "read_only", "archived"} :
            room = IF client[request[r].id].room = "none" THEN "none"
                   ELSE IF request[r].status = "active" THEN "active" ELSE "read_only"
      OBVIOUS
    <2>3. /\ client' = [client EXCEPT ![request[r].id].room = room]
          /\ UNCHANGED <<account, employs, scope, target, session, portal>>
      BY <1>0, <1>8, <2>1, <2>2 DEF RoomSet
    <2> QED
      BY <1>7, <2>1, <2>3
  <1>9. CASE DeleteRoom(r)
    BY <1>0, <1>7, <1>9, AtClient DEF DeleteRoom, ClientStep
  <1>10. CASE DeleteAll(r) \/ DeleteStaff(r)
    <2>1. employs' \in [Pair -> {"none", "inactive", "active"}]
      BY <1>0, <1>10 DEF DeleteAll, DeleteStaff
    <2>2. \A p \in Pair : employs'[p] # "none" => employs[p] # "none"
      BY <1>10 DEF DeleteAll, DeleteStaff
    <2>3. UNCHANGED <<account, client, scope, target, session, portal>>
      BY <1>10 DEF DeleteAll, DeleteStaff
    <2> QED
      BY <2>1, <2>2, <2>3, EmploysWritten, Pairs
  <1>11. ASSUME NEW u \in Recruiter, InsertOne(r, u) \/ AssignUpsert(r, u) PROVE Tabled
    <2>1. CASE Abort(r)
      BY <1>1, <2>1 DEF Abort
    <2>2. CASE ~Abort(r)
      <3>1. PICK c \in Client :
              /\ Exists(u) /\ Known(c) /\ employs' = [employs EXCEPT ![<<u, c>>] = "active"]
              /\ UNCHANGED <<account, client, scope, target, session, portal>>
        BY <1>0, <1>11, <2>2, AtClient DEF InsertOne, AssignUpsert, ClientStep
      <3>2. \A p \in Pair : employs'[p] = IF p = <<u, c>> THEN "active" ELSE employs[p]
        BY <1>0, <3>1
      <3>3. employs' \in [Pair -> {"none", "inactive", "active"}]
        BY <1>0, <3>1
      <3> QED
        BY <1>0, <3>1, <3>2, <3>3, EmploysWritten, Pairs
    <2> QED
      BY <2>1, <2>2
  <1>12. ASSUME NEW by, NEW u \in Recruiter, NEW c \in Client, Unassign(r, by, u, c) PROVE Tabled
    <2>1. PICK row \in {"none", "inactive", "active"} :
            row = IF employs[<<u, c>>] = "active" THEN "inactive" ELSE employs[<<u, c>>]
      BY <1>0, Pairs
    <2>2. /\ employs' = [employs EXCEPT ![<<u, c>>] = row]
          /\ UNCHANGED <<account, client, scope, target, session, portal>>
      BY <1>0, <1>12, <2>1 DEF Unassign
    <2>3. \A p \in Pair : employs'[p] = IF p = <<u, c>> THEN row ELSE employs[p]
      BY <1>0, <2>2
    <2>4. employs' \in [Pair -> {"none", "inactive", "active"}]
      BY <1>0, <2>2
    <2> QED
      BY <2>1, <2>2, <2>3, <2>4, EmploysWritten, Pairs
  <1>13. CASE InsertTell(r) \/ AssignTell(r) \/ UnassignTell(r)
    BY <1>0, <1>13, NothingWritten DEF InsertTell, AssignTell, UnassignTell, Tell
  <1>14. CASE DeleteScope(r)
    <2>1. scope' \subseteq scope /\ UNCHANGED <<account, client, employs, target, session, portal>>
      BY <1>14 DEF DeleteScope
    <2> QED
      BY <1>0, <2>1, ScopeWritten
  <1>15. CASE DeleteClient(r)
    <2>1. CASE Abort(r)
      BY <1>1, <2>1 DEF Abort
    <2>2. CASE ~Abort(r)
      <3>1. PICK c \in Client : c = request[r].id
        BY <1>0, <1>15, AtClient DEF DeleteClient, ClientStep
      <3>2. /\ \A d \in Client : client'[d] = IF d = c THEN NoClient ELSE client[d]
            /\ client' \in [Client -> Profile]
        <4>1. NoClient \in Profile
          BY DEF NoClient, Profile, Manager
        <4>2. client' = [client EXCEPT ![c] = NoClient]
          BY <1>15, <2>2, <3>1 DEF DeleteClient
        <4> QED
          BY <1>0, <4>1, <4>2
      <3>3. /\ employs' \in [Pair -> {"none", "inactive", "active"}]
            /\ target' \in [Pair -> {"none", "active", "paused", "ended"}]
            /\ scope' = {s \in scope : s[2] # c}
            /\ portal' \subseteq Client
            /\ UNCHANGED <<account, session>>
        BY <1>0, <1>15, <2>2, <3>1 DEF DeleteClient
      <3>4. \A v \in Recruiter, d \in Client :
              employs'[<<v, d>>] # "none" \/ target'[<<v, d>>] # "none" =>
                d # c /\ (employs[<<v, d>>] # "none" \/ target[<<v, d>>] # "none")
        BY <1>15, <2>2, <3>1, Pairs DEF DeleteClient
      <3>5. \A v : Exists(v)' <=> Exists(v)
        BY <3>3 DEF Exists
      <3>6. \A d \in Client : Known(d)' <=> d # c /\ Known(d)
        BY <3>2 DEF Known, NoClient
      <3>7. \A x : x # c /\ Present(x) => Present(x)'
        BY <3>5, <3>6 DEF Present
      <3>8. References'
        <4>1. \A v \in Staff : ~Exists(v)' => account'[v].manager = Nobody
          BY <3>3, <3>5 DEF IInv, References
        <4>2. \A x \in scope' : Exists(x[1])' /\ x[2] \in Recruiter \cup Client /\ Present(x[2])'
          BY <3>3, <3>5, <3>7 DEF IInv, References
        <4>3. \A d \in Client : ~Known(d)' => client'[d].manager = Nobody
          BY <3>2, <3>6 DEF IInv, References, NoClient
        <4> QED
          BY <3>4, <3>5, <3>6, <4>1, <4>2, <4>3 DEF IInv, References
      <3> QED
        BY <3>2, <3>3, <3>8 DEF Tabled, RowsTyped, IInv, TypeOK
    <2> QED
      BY <2>1, <2>2
  <1>16. CASE PasswordWrite(r)
    <2>1. request[r].id \in Client
      BY <1>0, <1>16, AtClient DEF PasswordWrite, ClientStep
    <2> QED
      BY <1>0, <1>16, <2>1, NothingWritten DEF PasswordWrite
  <1>17. CASE OldSelect(r) \/ SetAnswer(r) \/ \E c \in Client : ClientDeleteCheck(r, c)
    BY <1>1, <1>17 DEF OldSelect, SetAnswer, ClientDeleteCheck
  <1>18. CASE \E by \in Caller, c \in Client :
       \/ ClientCreateCheck(r, by, c) \/ PasswordCheck(r, by, c)
       \/ \E status \in Life : ClientSet(r, by, c, status)
       \/ \E status \in StatusAsked, active \in ActiveAsked :
            \/ ClientRead(r, by, c, status, active, FALSE, {})
            \/ \E staff \in SUBSET Recruiter : ClientRead(r, by, c, status, active, TRUE, staff)
       \/ \E staff \in SUBSET Recruiter : AssignCheck(r, by, c, staff)
       \/ \E u \in Recruiter : Unassign(r, by, u, c)
    <2>1. ASSUME NEW by, NEW c, ClientCreateCheck(r, by, c) \/ PasswordCheck(r, by, c) PROVE Tabled
      BY <1>1, <2>1 DEF ClientCreateCheck, PasswordCheck
    <2>2. ASSUME NEW by, NEW c, NEW status, NEW active, NEW replace, NEW staff,
                 ClientRead(r, by, c, status, active, replace, staff) \/ AssignCheck(r, by, c, staff)
          PROVE  Tabled
      BY <1>1, <2>2 DEF ClientRead, AssignCheck
    <2> QED
      BY <1>6, <1>12, <1>18, <2>1, <2>2
  <1> QED
    BY <1>3, <1>4, <1>5, <1>8, <1>9, <1>10, <1>11, <1>13, <1>14, <1>15, <1>16, <1>17, <1>18
       DEF ClientHandlers

LEMMA SubAdminTables ==
  ASSUME IInv, NEW r \in Request, SubAdminHandlers(r)
  PROVE  Tabled
  <1>0. /\ TypeOK /\ Locals
        /\ account \in [Staff -> Account] /\ client \in [Client -> Profile]
        /\ scope \subseteq SubAdmin \X Id /\ session \subseteq Pair /\ portal \subseteq Client
    BY DEF IInv, TypeOK
  <1>1. ASSUME UNCHANGED tables PROVE Tabled
    BY <1>0, <1>1, NothingWritten DEF tables
  <1>2. ASSUME NEW s \in SubAdmin, NEW row \in Account, row.status # "none" \/ row = account[s],
               account' = [account EXCEPT ![s] = row],
               UNCHANGED <<client, employs, scope, target, session, portal>>
        PROVE  Tabled
    <2>1. \A v \in Staff : account'[v] = IF v = s THEN row ELSE account[v]
      BY <1>0, <1>2
    <2>2. account' \in [Staff -> Account]
      BY <1>0, <1>2
    <2> QED
      BY <1>2, <2>1, <2>2, AccountWritten
  <1>3. CASE AppointInsert(r)
    <2>1. CASE Abort(r)
      BY <1>1, <2>1 DEF Abort
    <2>2. CASE ~Abort(r)
      <3>1. request[r].id \in SubAdmin
        BY <1>0, <1>3, AtSubAdmin DEF AppointInsert, SubAdminStep
      <3>2. PICK row \in Account :
              row = [status |-> "active", active |-> TRUE, manager |-> Admin]
        BY DEF Account, Life, Manager, Caller
      <3>3. /\ account' = [account EXCEPT ![request[r].id] = row] /\ row.status # "none"
            /\ UNCHANGED <<client, employs, scope, target, session, portal>>
        BY <1>3, <2>2, <3>2 DEF AppointInsert
      <3> QED
        BY <1>2, <3>1, <3>2, <3>3
    <2> QED
      BY <2>1, <2>2
  <1>4. ASSUME NEW s \in SubAdmin, NEW status \in Life, NEW active \in BOOLEAN,
               account' = [account EXCEPT ![s] = IF Exists(s)
                             THEN [@ EXCEPT !.status = status, !.active = active] ELSE @],
               UNCHANGED <<client, employs, scope, target, session, portal>>
        PROVE  Tabled
    <2>1. CASE ~Exists(s)
      <3>1. account' = [account EXCEPT ![s] = account[s]]
        BY <1>4, <2>1
      <3>2. account[s] \in Account
        BY <1>0, Ids
      <3> QED
        BY <1>2, <1>4, <3>1, <3>2
    <2>2. CASE Exists(s)
      <3>1. PICK row \in Account : row = [account[s] EXCEPT !.status = status, !.active = active]
        BY <1>0, Ids DEF Account
      <3>2. row.status # "none"
        BY <1>0, <3>1, Ids DEF Account, Life
      <3>3. account' = [account EXCEPT ![s] = row]
        BY <1>0, <1>4, <2>2, <3>1, Ids
      <3> QED
        BY <1>2, <1>4, <3>2, <3>3
    <2> QED
      BY <2>1, <2>2
  <1>5. CASE SubAdminWrite(r)
    <2>1. PICK q : /\ q = request[r] /\ q.id \in SubAdmin /\ q.row \in Account
                   /\ q.row.status \in Life /\ q.status \in Life \cup {"same"}
      BY <1>0, <1>5, AtSubAdmin, Here DEF SubAdminWrite, SubAdminStep, Sound
    <2>2. PICK status \in Life : status = IF q.status = "same" THEN q.row.status ELSE q.status
      BY <2>1
    <2>3. PICK active \in BOOLEAN :
            active = IF q.status = "same" THEN q.row.active ELSE q.status = "active"
      BY <2>1 DEF Account
    <2>4. /\ account' = [account EXCEPT ![q.id] = IF Exists(q.id)
                             THEN [@ EXCEPT !.status = status, !.active = active] ELSE @]
          /\ UNCHANGED <<client, employs, scope, target, session, portal>>
      BY <1>5, <2>1, <2>2, <2>3 DEF SubAdminWrite
    <2> QED
      BY <1>4, <2>1, <2>4
  <1>6. CASE SubAdminSwitch(r)
    <2>1. PICK q : q = request[r] /\ q.id \in SubAdmin /\ q.status \in Life
      BY <1>0, <1>6, AtSubAdmin, Here DEF SubAdminSwitch, SubAdminStep, Sound
    <2>2. PICK active \in BOOLEAN : active = (q.status = "active")
      OBVIOUS
    <2>3. /\ account' = [account EXCEPT ![q.id] = IF Exists(q.id)
                             THEN [@ EXCEPT !.status = q.status, !.active = active] ELSE @]
          /\ UNCHANGED <<client, employs, scope, target, session, portal>>
      BY <1>6, <2>1, <2>2 DEF SubAdminSwitch
    <2> QED
      BY <1>4, <2>1, <2>3
  <1>7. ASSUME NEW s \in SubAdmin, NEW to \in Manager, account' = Managed(s, to),
               UNCHANGED <<client, employs, scope, target, session, portal>>
        PROVE  Tabled
    BY <1>7, ManagersWritten DEF IInv
  <1>8. CASE TakeOver(r)
    <2>1. request[r].id \in SubAdmin
      BY <1>0, <1>8, AtSubAdmin DEF TakeOver, SubAdminStep
    <2> QED
      BY <1>7, <1>8, <2>1 DEF TakeOver, Manager, Caller
  <1>9. CASE Bequeath(r)
    <2>1. CASE Abort(r)
      BY <1>1, <2>1 DEF Abort
    <2>2. CASE ~Abort(r)
      <3>1. request[r].id \in SubAdmin /\ request[r].other \in SubAdmin \cup {Nobody}
        BY <1>0, <1>9, AtSubAdmin, Here DEF Bequeath, SubAdminStep, Sound
      <3>2. PICK to \in Manager : to = IF request[r].other = Nobody THEN Admin ELSE request[r].other
        BY <3>1 DEF Manager, Caller
      <3> QED
        BY <1>7, <1>9, <2>2, <3>1, <3>2 DEF Bequeath
    <2> QED
      BY <2>1, <2>2
  <1>10. ASSUME NEW x \in Recruiter \cup Client, Entrust(r, x) PROVE Tabled
    <2>1. CASE Abort(r)
      BY <1>1, <2>1 DEF Abort
    <2>2. CASE ~Abort(r)
      <3>1. /\ request[r].id \in SubAdmin
            /\ Exists(request[r].id) /\ Present(x)
            /\ scope' = scope \cup {<<request[r].id, x>>}
            /\ UNCHANGED <<account, client, employs, target, session, portal>>
        BY <1>0, <1>10, <2>2, AtSubAdmin DEF Entrust, SubAdminStep
      <3> QED
        BY <1>0, <3>1, ScopeWritten, Ids
    <2> QED
      BY <2>1, <2>2
  <1>11. CASE Strip(r)
    <2>1. scope' \subseteq scope /\ UNCHANGED <<account, client, employs, target, session, portal>>
      BY <1>11 DEF Strip
    <2> QED
      BY <1>0, <2>1, ScopeWritten
  <1>12. CASE HandOver(r)
    <2>1. CASE Abort(r)
      BY <1>1, <2>1 DEF Abort
    <2>2. CASE ~Abort(r)
      <3>1. PICK s \in SubAdmin, heir \in SubAdmin \cup {Nobody} :
              s = request[r].id /\ heir = request[r].other
        BY <1>0, <1>12, AtSubAdmin, Here DEF HandOver, SubAdminStep, Sound
      <3>2. /\ UNCHANGED <<account, client, employs, target, session, portal>>
            /\ \/ scope' \subseteq scope
               \/ /\ heir # Nobody /\ Exists(heir)
                  /\ scope' = {p \in scope : p[1] # s}
                                \cup {<<heir, p[2]>> : p \in {q \in scope : q[1] = s}}
        BY <1>12, <2>2, <3>1 DEF HandOver
      <3>3. CASE scope' \subseteq scope
        BY <1>0, <3>2, <3>3, ScopeWritten
      <3>4. CASE /\ heir # Nobody /\ Exists(heir)
                 /\ scope' = {p \in scope : p[1] # s}
                                \cup {<<heir, p[2]>> : p \in {q \in scope : q[1] = s}}
        <4>1. \A x \in scope' : x \in scope \/ \E p \in scope : x = <<heir, p[2]>>
          BY <3>4
        <4>2. \A p \in scope : p[2] \in Id /\ p[2] \in Recruiter \cup Client /\ Present(p[2])
          BY <1>0 DEF IInv, References
        <4>3. \A x \in scope' :
                \/ x \in scope
                \/ Exists(x[1]) /\ x[2] \in Recruiter \cup Client /\ Present(x[2])
          BY <3>4, <4>1, <4>2
        <4>4. scope' \subseteq SubAdmin \X Id
          BY <1>0, <3>1, <3>4, <4>1, <4>2
        <4> QED
          BY <3>2, <4>3, <4>4, ScopeWritten
      <3> QED
        BY <3>2, <3>3, <3>4
    <2> QED
      BY <2>1, <2>2
  <1>13. CASE Retire(r)
    <2>1. PICK s \in SubAdmin : s = request[r].id
      BY <1>0, <1>13, AtSubAdmin DEF Retire, SubAdminStep
    <2>2. \A v \in Staff :
            account'[v] = IF v = s THEN NoRow
                          ELSE IF account[v].manager = s THEN [account[v] EXCEPT !.manager = Nobody]
                          ELSE account[v]
      BY <1>13, <2>1, Ids DEF Retire, Managed
    <2>3. NoRow \in Account /\ NoRow.status = "none" /\ NoRow.manager = Nobody
      BY DEF NoRow, Account, Manager
    <2>4. \A v \in Staff :
            /\ account'[v] \in Account
            /\ account'[v].status = IF v = s THEN "none" ELSE account[v].status
            /\ account'[v].manager \in {account[v].manager, Nobody}
      BY <1>0, <2>2, <2>3 DEF Account, Manager
    <2>5. account' \in [Staff -> Account]
      BY <1>13, <2>1, <2>4 DEF Retire, Managed
    <2>6. \A c \in Client :
            /\ client'[c] \in Profile /\ client'[c].status = client[c].status
            /\ client'[c].manager \in {client[c].manager, Nobody}
      BY <1>0, <1>13, <2>1 DEF Retire, Profile, Manager
    <2>7. client' \in [Client -> Profile]
      BY <1>13, <2>6 DEF Retire
    <2>8. scope' = {p \in scope : p[1] # s} /\ UNCHANGED <<employs, target, session, portal>>
      BY <1>13, <2>1 DEF Retire
    <2>9. \A v : Exists(v)' <=> v # s /\ Exists(v)
      BY <2>4 DEF Exists
    <2>10. \A c \in Client : Known(c)' <=> Known(c)
      BY <2>6 DEF Known
    <2>11. \A x : x # s /\ Present(x) => Present(x)'
      BY <2>9, <2>10 DEF Present
    <2>12. References'
      <3>1. \A v \in Staff : ~Exists(v)' => account'[v].manager = Nobody
        BY <2>2, <2>3, <2>4, <2>9 DEF IInv, References
      <3>2. \A x \in scope' : Exists(x[1])' /\ x[2] \in Recruiter \cup Client /\ Present(x[2])'
        BY <2>8, <2>9, <2>11, Ids DEF IInv, References
      <3>3. \A c \in Client : ~Known(c)' => client'[c].manager = Nobody
        BY <2>6, <2>10 DEF IInv, References
      <3>4. \A u \in Recruiter, c \in Client :
              employs'[<<u, c>>] # "none" \/ target'[<<u, c>>] # "none" => Exists(u)' /\ Known(c)'
        BY <2>8, <2>9, <2>10, Ids DEF IInv, References
      <3> QED
        BY <3>1, <3>2, <3>3, <3>4 DEF References
    <2> QED
      BY <2>5, <2>7, <2>8, <2>12 DEF Tabled, RowsTyped, IInv, TypeOK
  <1>14. CASE EntrustAnswer(r)
    BY <1>1, <1>14 DEF EntrustAnswer
  <1>15. CASE \E s \in SubAdmin :
       \/ \E ids \in SUBSET (Recruiter \cup Client) :
            \/ AppointCheck(r, s, ids) \/ ReplaceCheck(r, s, ids)
            \/ \E status \in StatusAsked : SubAdminRead(r, s, status, TRUE, ids)
       \/ \E status \in StatusAsked : SubAdminRead(r, s, status, FALSE, {})
       \/ \E status \in {"active", "inactive"} : SubAdminSet(r, s, status)
       \/ \E heir \in (SubAdmin \ {s}) \cup {Nobody}, forced \in BOOLEAN :
            RetireCheck(r, s, heir, forced)
    BY <1>1, <1>15 DEF AppointCheck, ReplaceCheck, SubAdminRead, SubAdminSet, RetireCheck
  <1> QED
    BY <1>3, <1>5, <1>6, <1>8, <1>9, <1>10, <1>11, <1>12, <1>13, <1>14, <1>15 DEF SubAdminHandlers

LEMMA IInvStep ==
  ASSUME IInv, [Next]_vars
  PROVE  IInv'
  <1>0. TypeOK /\ Locals
    BY DEF IInv
  <1>1. ASSUME NEW r \in Request, RequestLost(r) PROVE Tabled
    <2>1. UNCHANGED tables
      BY <1>1 DEF RequestLost, Abort
    <2> QED
      BY <1>0, <2>1, NothingWritten DEF tables, TypeOK
  <1>2. ASSUME NEW c \in Client, NEW room \in {"active", "read_only", "archived"},
               SyncWorkspace(c) \/ \E by : RoomSwitch(by, c, room)
        PROVE  Tabled
    <2>1. PICK new \in {"active", "read_only", "archived"} :
            /\ client' = [client EXCEPT ![c].room = new]
            /\ UNCHANGED <<account, employs, scope, target, session, portal>>
      BY <1>2 DEF SyncWorkspace, RoomSwitch
    <2>2. PICK row \in Profile : row = [client[c] EXCEPT !.room = new]
      BY <1>0, ProfileRead DEF Profile
    <2>3. row.status = client[c].status /\ row.manager = client[c].manager
      BY <1>0, <2>2, ProfileRead DEF Profile
    <2>4. /\ client' \in [Client -> Profile]
          /\ \A d \in Client : client'[d] = IF d = c THEN row ELSE client[d]
      BY <1>0, <2>1, <2>2 DEF TypeOK
    <2>5. \A d \in Client : client'[d].status = "none" => ~Known(d) /\ client'[d].manager = Nobody
      BY <2>3, <2>4 DEF IInv, References, Known
    <2> QED
      BY <2>1, <2>4, <2>5, ClientWritten
  <1>3. ASSUME NEW u \in Recruiter, NEW c \in Client, Enter(u, c) \/ Exit(u, c) PROVE Tabled
    <2>1. /\ session' \subseteq Pair /\ portal' \subseteq Client
          /\ UNCHANGED <<account, client, employs, scope, target>>
      BY <1>0, <1>3, Pairs DEF Enter, Exit, TypeOK
    <2> QED
      BY <2>1, NothingWritten
  <1>4. ASSUME UNCHANGED vars PROVE Tabled
    <2>1. /\ UNCHANGED <<account, client, employs, scope, target>>
          /\ session' = session /\ portal' = portal
      BY <1>4 DEF vars, tables
    <2>2. session' \subseteq Pair /\ portal' \subseteq Client
      BY <1>0, <2>1 DEF TypeOK
    <2> QED
      BY <2>1, <2>2, NothingWritten
  <1>5. Tabled
    <2>1. ASSUME NEW r \in Request,
                 RecruiterHandlers(r) \/ TargetHandlers(r) \/ ClientHandlers(r) \/ SubAdminHandlers(r)
          PROVE  Tabled
      BY <2>1, RecruiterTables, TargetTables, ClientTables, SubAdminTables
    <2>2. CASE Next
      <3>1. CASE \E r \in Request :
                   RecruiterHandlers(r) \/ TargetHandlers(r) \/ ClientHandlers(r)
                     \/ SubAdminHandlers(r) \/ RequestLost(r)
        BY <1>1, <2>1, <3>1
      <3>2. CASE \E c \in Client :
                   \/ SyncWorkspace(c)
                   \/ \E by \in Caller, room \in {"active", "read_only", "archived"} :
                        RoomSwitch(by, c, room)
        BY <1>2, <3>2
      <3>3. CASE \E u \in Recruiter, c \in Client : Enter(u, c) \/ Exit(u, c)
        BY <1>3, <3>3
      <3> QED
        BY <2>2, <3>1, <3>2, <3>3 DEF Next
    <2> QED
      BY <1>4, <2>2
  <1>6. /\ request' \in [Request -> Local] /\ Locals' /\ started' \in Nat
        /\ cut' \subseteq Id \cup {Nobody}
    BY <1>0, ControlStep
  <1> QED
    BY <1>5, <1>6 DEF IInv, TypeOK, Tabled, RowsTyped

LEMMA InitIInv == Init => IInv
  <1> SUFFICES ASSUME Init PROVE IInv
    OBVIOUS
  <1>1. PICK m \in SubAdmin, kind \in {"none", "new", "works", "rests"},
             life \in {"none", "active", "inactive"}, appointed \in SUBSET SubAdmin :
       /\ m \in appointed
       /\ kind # "none" => appointed = SubAdmin
       /\ account = [u \in Staff |-> IF u \in appointed THEN Hired(Admin)
                                     ELSE IF u \in SubAdmin \/ kind = "none" THEN NoRow
                                     ELSE IF kind = "rests" THEN Resting(m) ELSE Hired(m)]
       /\ client = [c \in Client |->
            IF life = "none" THEN NoClient
            ELSE [status |-> life, active |-> life = "active", manager |-> m,
                  room |-> IF life = "active" THEN "active" ELSE "read_only"]]
       /\ employs = [p \in Pair |-> IF kind # "none" /\ life # "none" THEN "active" ELSE "none"]
       /\ target = [p \in Pair |-> IF ~(kind # "none" /\ life # "none") \/ kind = "new" THEN "none"
                                   ELSE IF kind = "works" THEN "active" ELSE "paused"]
       /\ session = IF (kind # "none" /\ life # "none") /\ kind # "rests" THEN Pair ELSE {}
       /\ portal = IF life = "active" THEN Client ELSE {}
       /\ scope = {<<m, u>> : u \in {v \in Recruiter : kind # "none"}}
                    \cup {<<m, c>> : c \in {d \in Client : life # "none"}}
    BY Zenon DEF Init
  <1>2. \A x \in SubAdmin \cup {Admin} :
          Hired(x) \in Account /\ Resting(x) \in Account /\ NoRow \in Account
    BY DEF Hired, Resting, NoRow, Account, Life, Manager, Caller
  <1>3. account \in [Staff -> Account]
    BY <1>1, <1>2
  <1>4. client \in [Client -> Profile]
    <2>1. NoClient \in Profile
      BY DEF NoClient, Profile, Manager
    <2>2. PICK row \in Profile :
            row = [status |-> life, active |-> life = "active", manager |-> m,
                   room |-> IF life = "active" THEN "active" ELSE "read_only"]
            \/ life = "none"
      BY <2>1 DEF Profile, Life, Manager, Caller
    <2> QED
      BY <1>1, <2>1, <2>2
  <1>5. /\ employs \in [Pair -> {"none", "inactive", "active"}]
        /\ target \in [Pair -> {"none", "active", "paused", "ended"}]
    BY <1>1
  <1>6. scope \subseteq SubAdmin \X Id
    BY <1>1, Ids
  <1>7. session \subseteq Pair /\ portal \subseteq Client
    BY <1>1
  <1>8. request \in [Request -> Local] /\ Locals
    BY IdleSound DEF Init, Locals
  <1>9. started \in Nat /\ cut \subseteq Id \cup {Nobody}
    BY DEF Init
  <1>10. \A u \in Recruiter : kind # "none" => Exists(u)
    BY <1>1, Ids DEF Exists, Hired, Resting
  <1>11. \A c \in Client : life # "none" => Known(c)
    BY <1>1 DEF Known
  <1>12. Exists(m)
    BY <1>1, Ids DEF Exists, Hired
  <1>13. References
    <2>1. \A u \in Recruiter, c \in Client :
            employs[<<u, c>>] # "none" \/ target[<<u, c>>] # "none" => Exists(u) /\ Known(c)
      BY <1>1, <1>10, <1>11, Pairs
    <2>2. \A x \in scope : Exists(x[1]) /\ x[2] \in Recruiter \cup Client /\ Present(x[2])
      BY <1>1, <1>10, <1>11, <1>12, Ids DEF Present
    <2>3. \A u \in Staff : ~Exists(u) => account[u].manager = Nobody
      BY <1>1 DEF Exists, Hired, Resting, NoRow
    <2>4. \A c \in Client : ~Known(c) => client[c].manager = Nobody
      BY <1>1 DEF Known, NoClient
    <2> QED
      BY <2>1, <2>2, <2>3, <2>4 DEF References
  <1> QED
    BY <1>3, <1>4, <1>5, <1>6, <1>7, <1>8, <1>9, <1>13 DEF IInv, TypeOK

(* The tables and the local variables keep their types, and every row      *)
(* refers to rows that are there, whatever handlers overlap or stop.       *)
THEOREM Referential == Spec => []IInv
  BY InitIInv, IInvStep, PTL DEF Spec

-----------------------------------------------------------------------------
(* Who rests has no active target.                                         *)

RestingAt(p) ==
  Rests(p[1]) /\ target[p] = "active" =>
    \/ <<"target", p[1]>> \in slipped
    \/ p[1] \in cut
    \/ \E r \in Request : request[r].id = p[1] /\ request[r].step = "pause"

(* A mark about targets stays where it is.                                 *)
TargetMarksStay(u) == <<"target", u>> \in slipped => <<"target", u>> \in slipped'

(* A step of r that is none of this.                                       *)
TargetsAside(r) ==
  /\ request[r].step # "pause"
  /\ \A u \in Recruiter : TargetMarksStay(u)
  /\ UNCHANGED <<account, target>>

LEMMA MarksDiffer ==
  \A u, v, c : /\ <<"target", u>> # <<"session", v, c>> /\ <<"target", u>> # <<"room", c>>
               /\ <<"manager", u>> # <<"session", v, c>> /\ <<"manager", u>> # <<"room", c>>
               /\ <<"manager", u>> # <<"target", v>>
               /\ <<"room", u>> # <<"session", v, c>> /\ <<"room", u>> # <<"target", v>>
  OBVIOUS

LEMMA StillResting ==
  ASSUME NEW p \in Pair, RestingAt(p), NEW r \in Request, Kept(r),
         request[r].step # "pause" \/ request[r].id # p[1], TargetMarksStay(p[1]),
         Rests(p[1])' /\ target'[p] = "active" => Rests(p[1]) /\ target[p] = "active"
  PROVE  RestingAt(p)'
  <1>1. SUFFICES ASSUME Rests(p[1])', target'[p] = "active", <<"target", p[1]>> \notin slipped',
                        p[1] \notin cut'
                 PROVE  \E q \in Request : request'[q].id = p[1] /\ request'[q].step = "pause"
    BY DEF RestingAt
  <1>2. \E q \in Request : request[q].id = p[1] /\ request[q].step = "pause"
    BY <1>1 DEF RestingAt, TargetMarksStay, Kept
  <1> QED
    BY <1>2 DEF Kept, Moved, Others

LEMMA AsideResting ==
  ASSUME NEW p \in Pair, RestingAt(p), NEW r \in Request, Kept(r), TargetsAside(r)
  PROVE  RestingAt(p)'
  <1>1. p[1] \in Recruiter
    BY Pairs
  <1>2. Rests(p[1])' <=> Rests(p[1])
    BY DEF TargetsAside, Rests
  <1> QED
    BY <1>1, <1>2, StillResting DEF TargetsAside

LEMMA RecruiterResting ==
  ASSUME IInv, NEW p \in Pair, RestingAt(p), NEW r \in Request, RecruiterHandlers(r)
  PROVE  RestingAt(p)'
  <1> DEFINE u == request[r].id
  <1>0. /\ TypeOK /\ Locals /\ p[1] \in Recruiter /\ p[2] \in Client /\ p = <<p[1], p[2]>>
        /\ Kept(r)
        /\ account \in [Staff -> Account] /\ Recruiter \subseteq Staff
        /\ target \in [Pair -> {"none", "active", "paused", "ended"}]
    BY RecruiterMoves, Pairs, Ids DEF IInv, TypeOK
  <1>a. ASSUME TargetsAside(r) PROVE RestingAt(p)'
    BY <1>0, <1>a, AsideResting
  <1>1. CASE CreateInsert(r)
    <2>1. CASE Abort(r)
      BY <1>1, <1>a, <2>1 DEF Abort, tables, TargetsAside, TargetMarksStay, CreateInsert
    <2>2. CASE ~Abort(r)
      <3>1. /\ request[r].id \in Recruiter /\ ~Exists(request[r].id) /\ request[r].step # "pause"
            /\ TargetMarksStay(p[1]) /\ target' = target
            /\ \A v \in Staff : v # request[r].id => account'[v] = account[v]
        BY <1>0, <1>1, <2>2, AtRecruiter DEF CreateInsert, RecruiterStep, TargetMarksStay
      <3>2. p[1] = request[r].id => target[p] = "none"
        BY <1>0, <3>1 DEF IInv, References
      <3>3. Rests(p[1])' /\ target'[p] = "active" => Rests(p[1]) /\ target[p] = "active"
        BY <1>0, <3>1, <3>2 DEF Rests
      <3> QED
        BY <1>0, <3>1, <3>3, StillResting
    <2> QED
      BY <2>1, <2>2
  <1>2. ASSUME NEW v \in Recruiter, request[r].step # "pause",
               \A w \in Staff : w # v => account'[w] = account[w],
               target' = target, TargetMarksStay(p[1]),
               Rests(v)' => request'[r].id = v /\ request'[r].step = "pause"
        PROVE  RestingAt(p)'
    <2>1. CASE p[1] = v
      BY <1>2, <2>1 DEF RestingAt
    <2>2. CASE p[1] # v
      <3>1. account'[p[1]] = account[p[1]]
        BY <1>0, <1>2, <2>2
      <3> QED
        BY <1>0, <1>2, <3>1, StillResting DEF Rests
    <2> QED
      BY <2>1, <2>2
  <1>3. CASE UpdateWrite(r)
    <2>1. CASE Abort(r)
      BY <1>3, <1>a, <2>1 DEF Abort, tables, TargetsAside, TargetMarksStay, UpdateWrite
    <2>2. CASE ~Abort(r)
      <3>1. PICK v \in Recruiter, status \in Life, active \in BOOLEAN :
              v = request[r].id /\ status = Merged(r).status /\ active = Merged(r).active
        BY <1>0, <1>3, AtRecruiter, MergedTyped DEF UpdateWrite, RecruiterStep
      <3>2. PICK step \in {"pause", "resume"} :
              step = IF status \in {"inactive", "archived"} \/ ~active THEN "pause" ELSE "resume"
        OBVIOUS
      <3>3. /\ request[r].step = "update" /\ UNCHANGED <<target, slipped>> /\ Goto(r, step)
            /\ account' = [account EXCEPT ![v].status = status, ![v].active = active]
        BY <1>3, <2>2, <3>1, <3>2 DEF UpdateWrite, history
      <3>4. request'[r] = [request[r] EXCEPT !.step = step] /\ request[r] \in Local
        BY <1>0, <3>2, <3>3, GoesOn DEF Leads, RecruiterStep, TypeOK
      <3>5. request'[r].id = v /\ request'[r].step = step
        BY <3>1, <3>4 DEF Local
      <3>6. account'[v].status = status /\ account'[v].active = active
        BY <1>0, <3>3 DEF Account
      <3>7. \A w \in Staff : w # v => account'[w] = account[w]
        BY <1>0, <3>3
      <3>8. Rests(v)' => step = "pause"
        BY <3>2, <3>6 DEF Rests
      <3> QED
        BY <1>2, <3>3, <3>5, <3>7, <3>8 DEF TargetMarksStay
    <2> QED
      BY <2>1, <2>2
  <1>4. ASSUME NEW by \in Caller, NEW v \in Recruiter, NEW status \in Life, SetStatus(r, by, v, status)
        PROVE  RestingAt(p)'
    <2>1. PICK step \in {"pause", "resume"} :
            step = IF status = "active" THEN "resume" ELSE "pause"
      OBVIOUS
    <2>2. PICK new : new = [Idle EXCEPT !.step = step, !.id = v, !.status = status]
      OBVIOUS
    <2>3. new.id = v /\ new.step = step
      BY <2>2 DEF Idle
    <2>4. PICK active \in BOOLEAN : active = (status = "active")
      OBVIOUS
    <2>5. /\ Begin(r, new) /\ UNCHANGED <<target, slipped>>
          /\ account' = [account EXCEPT ![v].status = status, ![v].active = active]
      BY <1>4, <2>1, <2>2, <2>4 DEF SetStatus, history
    <2>6. request'[r] = new /\ request[r].step = "idle"
      BY <1>0, <2>5 DEF Begin, TypeOK
    <2>7. account'[v].status = status /\ account'[v].active = active
      BY <1>0, <2>5 DEF Account
    <2>8. \A w \in Staff : w # v => account'[w] = account[w]
      BY <1>0, <2>5
    <2>9. Rests(v)' => step = "pause"
      BY <2>1, <2>4, <2>7 DEF Rests
    <2> QED
      BY <1>2, <2>3, <2>5, <2>6, <2>8, <2>9 DEF TargetMarksStay
  <1>5. CASE Pause(r)
    <2>1. target' = Switched(u, "active", "paused") /\ slipped' = slipped \ {<<"target", u>>}
          /\ account' = account
      BY <1>5 DEF Pause
    <2>2. CASE p[1] = u
      BY <2>1, <2>2 DEF RestingAt, Switched
    <2>3. CASE p[1] # u
      <3>1. target'[p] = target[p]
        BY <2>1, <2>3 DEF Switched
      <3>2. TargetMarksStay(p[1])
        BY <2>1, <2>3 DEF TargetMarksStay
      <3>3. Rests(p[1])' <=> Rests(p[1])
        BY <2>1 DEF Rests
      <3> QED
        BY <1>0, <2>3, <3>1, <3>2, <3>3, StillResting
    <2> QED
      BY <2>2, <2>3
  <1>6. CASE Resume(r)
    <2>1. /\ target' = Switched(u, "paused", "active") /\ account' = account
          /\ slipped' = IF Rests(u) THEN slipped \cup {<<"target", u>>} ELSE slipped
          /\ request[r].step # "pause"
      BY <1>6 DEF Resume
    <2>2. CASE p[1] = u /\ Rests(u)
      BY <2>1, <2>2 DEF RestingAt
    <2>3. CASE ~(p[1] = u /\ Rests(u))
      <3>1. p[1] # u => target'[p] = target[p]
        BY <2>1 DEF Switched
      <3>2. TargetMarksStay(p[1])
        BY <2>1 DEF TargetMarksStay
      <3>3. Rests(p[1])' <=> Rests(p[1])
        BY <2>1 DEF Rests
      <3> QED
        BY <1>0, <2>1, <2>3, <3>1, <3>2, <3>3, StillResting
    <2> QED
      BY <2>2, <2>3
  <1>7. CASE Remove(r)
    <2>1. PICK v \in Recruiter : v = request[r].id
      BY <1>0, <1>7, AtRecruiter DEF Remove, RecruiterStep
    <2>2. /\ request[r].step # "pause" /\ TargetMarksStay(p[1])
          /\ \A w \in Staff : w # v => account'[w] = account[w]
          /\ target'[p] = IF p[1] = v THEN "none" ELSE target[p]
      BY <1>0, <1>7, <2>1 DEF Remove, TargetMarksStay
    <2>3. Rests(p[1])' /\ target'[p] = "active" => Rests(p[1]) /\ target[p] = "active"
      BY <1>0, <2>2 DEF Rests
    <2> QED
      BY <1>0, <2>2, <2>3, StillResting
  <1>8. CASE CreateEnroll(r) \/ CreateAnswer(r) \/ Dismiss(r) \/ RehireAnswer(r)
    BY <1>a, <1>8 DEF CreateEnroll, CreateAnswer, Dismiss, RehireAnswer, Abort, tables, history,
                      TargetsAside, TargetMarksStay
  <1>9. CASE EvictSelect(r) \/ Evicted(r) \/ Unlink(r) \/ Unscope(r)
    BY <1>a, <1>9 DEF EvictSelect, Evicted, Unlink, Unscope, tables, history,
                      TargetsAside, TargetMarksStay
  <1>10. ASSUME NEW c \in Client, CreateHire(r, c) \/ Rehire(r, c) PROVE RestingAt(p)'
    BY <1>a, <1>10 DEF CreateHire, Rehire, Abort, tables, history, TargetsAside, TargetMarksStay
  <1>11. ASSUME NEW c \in Client, EvictRoom(r, c) PROVE RestingAt(p)'
    BY <1>a, <1>11, MarksDiffer DEF EvictRoom, TargetsAside, TargetMarksStay
  <1>12. ASSUME NEW v, DismissalCheck(r, v) PROVE RestingAt(p)'
    BY <1>a, <1>12 DEF DismissalCheck, Begin, tables, history, TargetsAside, TargetMarksStay
  <1>13. ASSUME NEW by, NEW v, NEW status, NEW clients, CreateCheck(r, by, v, status, clients)
         PROVE  RestingAt(p)'
    BY <1>a, <1>13 DEF CreateCheck, Begin, tables, history, TargetsAside, TargetMarksStay
  <1>14. ASSUME NEW by, NEW v, NEW status, NEW active, NEW replace, NEW clients,
                UpdateRead(r, by, v, status, active, replace, clients)
         PROVE  RestingAt(p)'
    BY <1>a, <1>14 DEF UpdateRead, Begin, tables, history, TargetsAside, TargetMarksStay
  <1>15. CASE \E by \in Caller, v \in Recruiter :
       \/ \E status \in Life, clients \in SUBSET Client :
            CreateCheck(r, by, v, status, clients)
       \/ \E status \in StatusAsked, active \in ActiveAsked :
            \/ UpdateRead(r, by, v, status, active, FALSE, {})
            \/ \E clients \in SUBSET Client : UpdateRead(r, by, v, status, active, TRUE, clients)
       \/ \E status \in Life : SetStatus(r, by, v, status)
    BY <1>4, <1>13, <1>14, <1>15
  <1> QED
    BY <1>1, <1>3, <1>5, <1>6, <1>7, <1>8, <1>9, <1>10, <1>11, <1>12, <1>15 DEF RecruiterHandlers

LEMMA TargetResting ==
  ASSUME IInv, NEW p \in Pair, RestingAt(p), NEW r \in Request, TargetHandlers(r)
  PROVE  RestingAt(p)'
  <1>0. /\ TypeOK /\ Locals /\ p[1] \in Recruiter /\ p[2] \in Client /\ p = <<p[1], p[2]>>
        /\ Kept(r)
        /\ target \in [Pair -> {"none", "active", "paused", "ended"}]
    BY TargetMoves, Pairs DEF IInv, TypeOK
  <1>a. ASSUME TargetsAside(r) PROVE RestingAt(p)'
    BY <1>0, <1>a, AsideResting
  <1>1. ASSUME NEW x \in Pair, NEW status \in {"none", "active", "paused", "ended"},
               request[r].step # "pause", account' = account,
               target' = [target EXCEPT ![x] = status],
               slipped \subseteq slipped',
               status = "active" /\ Rests(x[1]) =>
                 <<"target", x[1]>> \in slipped' \/ target[x] = "active"
        PROVE  RestingAt(p)'
    <2>1. TargetMarksStay(p[1]) /\ (Rests(p[1])' <=> Rests(p[1]))
      BY <1>1 DEF TargetMarksStay, Rests
    <2>2. target'[p] = IF p = x THEN status ELSE target[p]
      BY <1>0, <1>1
    <2>3. CASE <<"target", p[1]>> \in slipped'
      BY <2>3 DEF RestingAt
    <2>4. CASE <<"target", p[1]>> \notin slipped'
      <3>1. Rests(p[1]) /\ target'[p] = "active" => target[p] = "active"
        BY <1>1, <2>2, <2>4
      <3> QED
        BY <1>0, <1>1, <2>1, <3>1, StillResting
    <2> QED
      BY <2>3, <2>4
  <1>2. ASSUME request[r].step \in {"target_update", "target_insert"}
        PROVE  \E x \in Pair, status \in {"active", "paused", "ended"} :
                 /\ x = <<request[r].id, request[r].other>> /\ status = request[r].status
                 /\ x[1] = request[r].id
                 /\ status = "active" /\ Rests(x[1]) => Overtaken(r) = slipped \cup {<<"target", x[1]>>}
                 /\ slipped \subseteq Overtaken(r)
    <2>1. PICK q : /\ q = request[r] /\ q.id \in Recruiter /\ q.other \in Client
                   /\ q.status \in {"active", "paused", "ended"}
                   /\ q.status = "active" => q.row.active /\ q.row.status = "active"
      BY <1>0, <1>2, AtRecruiter, Here DEF Sound, RecruiterStep
    <2>2. PICK x \in Pair : x = <<q.id, q.other>> /\ x[1] = q.id
      BY <2>1, Pairs
    <2>3. q.status = "active" /\ Rests(x[1]) => Overtaken(r) = slipped \cup {<<"target", x[1]>>}
      BY <2>1, <2>2 DEF Overtaken, Waking
    <2>4. slipped \subseteq Overtaken(r)
      BY DEF Overtaken
    <2> QED
      BY <2>1, <2>2, <2>3, <2>4
  <1>3. CASE TargetUpdate(r)
    <2>1. PICK x \in Pair, new \in {"active", "paused", "ended"} :
            /\ x = <<request[r].id, request[r].other>> /\ new = request[r].status
            /\ new = "active" /\ Rests(x[1]) => Overtaken(r) = slipped \cup {<<"target", x[1]>>}
            /\ slipped \subseteq Overtaken(r)
      BY <1>2, <1>3 DEF TargetUpdate
    <2>2. PICK status \in {"none", "active", "paused", "ended"} :
            status = IF target[x] = "none" THEN "none" ELSE new
      OBVIOUS
    <2>3. /\ target' = [target EXCEPT ![x] = status] /\ account' = account
          /\ request[r].step # "pause" /\ slipped' = Overtaken(r)
      BY <1>3, <2>1, <2>2 DEF TargetUpdate
    <2> QED
      BY <1>1, <2>1, <2>2, <2>3
  <1>4. CASE TargetInsert(r)
    <2>1. PICK x \in Pair, status \in {"active", "paused", "ended"} :
            /\ x = <<request[r].id, request[r].other>> /\ status = request[r].status
            /\ status = "active" /\ Rests(x[1]) => Overtaken(r) = slipped \cup {<<"target", x[1]>>}
            /\ slipped \subseteq Overtaken(r)
      BY <1>2, <1>4 DEF TargetInsert
    <2>2. CASE Abort(r)
      BY <1>4, <1>a, <2>2 DEF Abort, tables, TargetsAside, TargetMarksStay, TargetInsert
    <2>3. CASE ~Abort(r)
      <3>1. /\ target' = [target EXCEPT ![x] = status] /\ account' = account
            /\ request[r].step # "pause" /\ slipped' = Overtaken(r)
        BY <1>4, <2>1, <2>3 DEF TargetInsert
      <3> QED
        BY <1>1, <2>1, <3>1
    <2> QED
      BY <2>2, <2>3
  <1>5. CASE TargetDelete(r)
    <2>1. <<request[r].id, request[r].other>> \in Pair
      BY <1>0, <1>5, Here, Pairs DEF Sound, RecruiterStep, TargetDelete
    <2> QED
      BY <1>1, <1>5, <2>1 DEF TargetDelete, history
  <1>6. ASSUME NEW by, NEW x \in Pair, NEW status \in {"active", "paused", "ended"},
               TargetSet(r, by, x, status)
        PROVE  RestingAt(p)'
    BY <1>1, <1>6 DEF TargetSet, Waking
  <1>7. CASE TargetSelect(r)
    BY <1>a, <1>7 DEF TargetSelect, tables, history, TargetsAside, TargetMarksStay
  <1>8. ASSUME NEW by, NEW x, TargetDeleteSelect(r, by, x) \/ \E s : TargetCheck(r, by, x[1], x[2], s)
        PROVE  RestingAt(p)'
    BY <1>a, <1>8 DEF TargetDeleteSelect, TargetCheck, Begin, tables, history, TargetsAside, TargetMarksStay
  <1> QED
    BY <1>3, <1>4, <1>5, <1>6, <1>7, <1>8 DEF TargetHandlers

LEMMA ClientResting ==
  ASSUME IInv, NEW p \in Pair, RestingAt(p), NEW r \in Request, ClientHandlers(r)
  PROVE  RestingAt(p)'
  <1>0. /\ TypeOK /\ Locals /\ p[1] \in Recruiter /\ p[2] \in Client /\ Kept(r)
    BY ClientMoves, Pairs DEF IInv
  <1>a. ASSUME TargetsAside(r) PROVE RestingAt(p)'
    BY <1>0, <1>a, AsideResting
  <1>1. CASE DeleteClient(r)
    <2>1. CASE Abort(r)
      BY <1>1, <1>a, <2>1 DEF Abort, tables, TargetsAside, TargetMarksStay, DeleteClient
    <2>2. CASE ~Abort(r)
      <3>1. /\ request[r].step # "pause" /\ TargetMarksStay(p[1]) /\ account' = account
            /\ target'[p] \in {"none", target[p]}
        BY <1>1, <2>2 DEF DeleteClient, TargetMarksStay
      <3>2. Rests(p[1])' <=> Rests(p[1])
        BY <3>1 DEF Rests
      <3> QED
        BY <1>0, <3>1, <3>2, StillResting
    <2> QED
      BY <2>1, <2>2
  <1>2. CASE ClientInsert(r) \/ ClientEnlist(r) \/ ClientWrite(r) \/ OldSelect(r) \/ DeleteAll(r)
    BY <1>a, <1>2 DEF ClientInsert, ClientEnlist, ClientWrite, OldSelect, DeleteAll, Abort,
                      tables, history, TargetsAside, TargetMarksStay
  <1>3. ASSUME NEW c, NEW removed, Tell(r, c, removed), request[r].step # "pause"
        PROVE  RestingAt(p)'
    <2>1. UNCHANGED <<account, target>> /\ \A v \in Recruiter : TargetMarksStay(v)
      BY <1>3, MarksDiffer DEF Tell, TargetMarksStay
    <2> QED
      BY <1>3, <1>a, <2>1 DEF TargetsAside
  <1>4. CASE InsertTell(r) \/ AssignTell(r) \/ UnassignTell(r)
    BY <1>3, <1>4 DEF InsertTell, AssignTell, UnassignTell
  <1>5. CASE RoomSet(r)
    BY <1>a, <1>5, MarksDiffer DEF RoomSet, TargetsAside, TargetMarksStay
  <1>6. CASE SetAnswer(r) \/ DeleteRoom(r) \/ DeleteStaff(r) \/ DeleteScope(r) \/ PasswordWrite(r)
    BY <1>a, <1>6 DEF SetAnswer, DeleteRoom, DeleteStaff, DeleteScope, PasswordWrite,
                      tables, history, TargetsAside, TargetMarksStay
  <1>7. ASSUME NEW v, InsertOne(r, v) \/ AssignUpsert(r, v) PROVE RestingAt(p)'
    BY <1>a, <1>7 DEF InsertOne, AssignUpsert, Abort, tables, history, TargetsAside, TargetMarksStay
  <1>8. ASSUME NEW by, NEW c,
               \/ ClientDeleteCheck(r, c) \/ ClientCreateCheck(r, by, c) \/ PasswordCheck(r, by, c)
               \/ \E s : ClientSet(r, by, c, s) \/ AssignCheck(r, by, c, s) \/ Unassign(r, by, s, c)
        PROVE  RestingAt(p)'
    BY <1>a, <1>8 DEF ClientDeleteCheck, ClientCreateCheck, PasswordCheck, ClientSet, AssignCheck,
                      Unassign, Begin, tables, history, TargetsAside, TargetMarksStay
  <1>9. ASSUME NEW by, NEW c, NEW s, NEW active, NEW replace, NEW staff,
               ClientRead(r, by, c, s, active, replace, staff)
        PROVE  RestingAt(p)'
    BY <1>a, <1>9 DEF ClientRead, Begin, tables, history, TargetsAside, TargetMarksStay
  <1>10. CASE \E by \in Caller, c \in Client :
       \/ ClientCreateCheck(r, by, c) \/ PasswordCheck(r, by, c)
       \/ \E status \in Life : ClientSet(r, by, c, status)
       \/ \E status \in StatusAsked, active \in ActiveAsked :
            \/ ClientRead(r, by, c, status, active, FALSE, {})
            \/ \E staff \in SUBSET Recruiter : ClientRead(r, by, c, status, active, TRUE, staff)
       \/ \E staff \in SUBSET Recruiter : AssignCheck(r, by, c, staff)
       \/ \E u \in Recruiter : Unassign(r, by, u, c)
    BY <1>8, <1>9, <1>10
  <1> QED
    BY <1>1, <1>2, <1>4, <1>5, <1>6, <1>7, <1>8, <1>10 DEF ClientHandlers

LEMMA SubAdminResting ==
  ASSUME IInv, NEW p \in Pair, RestingAt(p), NEW r \in Request, SubAdminHandlers(r)
  PROVE  RestingAt(p)'
  <1>0. /\ TypeOK /\ Locals /\ p[1] \in Recruiter /\ p[1] \in Staff /\ Kept(r)
        /\ account \in [Staff -> Account]
    BY SubAdminMoves, Pairs, Ids DEF IInv, TypeOK
  <1>a. ASSUME request[r].step # "pause", UNCHANGED <<target, slipped>> \/ slipped \subseteq slipped',
               target' = target,
               account'[p[1]].status = account[p[1]].status, account'[p[1]].active = account[p[1]].active
        PROVE  RestingAt(p)'
    <2>1. TargetMarksStay(p[1]) /\ (Rests(p[1])' <=> Rests(p[1]))
      BY <1>a DEF TargetMarksStay, Rests
    <2> QED
      BY <1>0, <1>a, <2>1, StillResting
  <1>1. ASSUME SubAdminWrite(r) \/ SubAdminSwitch(r) \/ AppointInsert(r)
        PROVE  RestingAt(p)'
    <2>1. request[r].id # p[1]
      BY <1>0, <1>1, AtSubAdmin, Ids DEF SubAdminWrite, SubAdminSwitch, AppointInsert, SubAdminStep
    <2>2. account'[p[1]] = account[p[1]]
      BY <1>0, <1>1, <2>1 DEF SubAdminWrite, SubAdminSwitch, AppointInsert, Abort, tables
    <2>3. request[r].step # "pause" /\ UNCHANGED <<target, slipped>>
      BY <1>1 DEF SubAdminWrite, SubAdminSwitch, AppointInsert, Abort, tables, history
    <2> QED
      BY <1>a, <2>2, <2>3
  <1>2. ASSUME NEW s, NEW to
        PROVE  /\ Managed(s, to)[p[1]].status = account[p[1]].status
               /\ Managed(s, to)[p[1]].active = account[p[1]].active
    BY <1>0 DEF Managed, Account
  <1>3. CASE TakeOver(r)
    BY <1>a, <1>2, <1>3 DEF TakeOver, history
  <1>4. CASE Bequeath(r)
    <2>1. CASE Abort(r)
      BY <1>4, <1>a, <2>1 DEF Bequeath, Abort, tables
    <2>2. CASE ~Abort(r)
      BY <1>4, <1>a, <1>2, <2>2 DEF Bequeath
    <2> QED
      BY <2>1, <2>2
  <1>5. CASE Retire(r)
    <2>1. request[r].id # p[1]
      BY <1>0, <1>5, AtSubAdmin, Ids DEF Retire, SubAdminStep
    <2>2. account'[p[1]] = Managed(request[r].id, Nobody)[p[1]]
      BY <1>0, <1>5, <2>1 DEF Retire, Managed
    <2> QED
      BY <1>a, <1>2, <1>5, <2>2 DEF Retire, history
  <1>6. CASE EntrustAnswer(r) \/ Strip(r) \/ HandOver(r)
    BY <1>a, <1>6 DEF EntrustAnswer, Strip, HandOver, Abort, tables, history
  <1>7. ASSUME NEW x, Entrust(r, x) PROVE RestingAt(p)'
    BY <1>a, <1>7 DEF Entrust, Abort, tables, history
  <1>8. CASE \E s \in SubAdmin :
       \/ \E ids \in SUBSET (Recruiter \cup Client) :
            \/ AppointCheck(r, s, ids) \/ ReplaceCheck(r, s, ids)
            \/ \E status \in StatusAsked : SubAdminRead(r, s, status, TRUE, ids)
       \/ \E status \in StatusAsked : SubAdminRead(r, s, status, FALSE, {})
       \/ \E status \in {"active", "inactive"} : SubAdminSet(r, s, status)
       \/ \E heir \in (SubAdmin \ {s}) \cup {Nobody}, forced \in BOOLEAN :
            RetireCheck(r, s, heir, forced)
    <2>1. request[r].step # "pause" /\ UNCHANGED <<account, target, slipped>>
      BY <1>8 DEF AppointCheck, ReplaceCheck, SubAdminRead, SubAdminSet, RetireCheck, Begin,
                  tables, history
    <2> QED
      BY <1>a, <2>1
  <1> QED
    BY <1>1, <1>3, <1>4, <1>5, <1>6, <1>7, <1>8 DEF SubAdminHandlers

LEMMA RestingStep ==
  ASSUME IInv, [Next]_vars, RestingWithoutTargets
  PROVE  RestingWithoutTargets'
  <1> SUFFICES ASSUME NEW p \in Pair PROVE RestingAt(p)'
    BY DEF RestingWithoutTargets, RestingAt
  <1>0. RestingAt(p) /\ TypeOK /\ Locals /\ p[1] \in Recruiter
    BY Pairs DEF RestingWithoutTargets, RestingAt, IInv
  <1>1. ASSUME request' = request, UNCHANGED <<account, target>>, TargetMarksStay(p[1]), cut' = cut
        PROVE  RestingAt(p)'
    BY <1>0, <1>1 DEF RestingAt, TargetMarksStay, Rests
  <1>2. ASSUME NEW r \in Request, RequestLost(r) PROVE RestingAt(p)'
    <2>1. Kept(r) /\ cut' = cut \cup {request[r].id} /\ UNCHANGED <<account, target, slipped>>
      BY <1>0, <1>2, KeptElse DEF RequestLost, Abort, tables
    <2>2. CASE request[r].id = p[1]
      BY <2>1, <2>2 DEF RestingAt
    <2>3. CASE request[r].id # p[1]
      BY <1>0, <2>1, <2>3, StillResting DEF TargetMarksStay, Rests
    <2> QED
      BY <2>2, <2>3
  <1>3. ASSUME NEW c, SyncWorkspace(c) \/ \E by, room : RoomSwitch(by, c, room)
        PROVE  RestingAt(p)'
    BY <1>1, <1>3 DEF SyncWorkspace, RoomSwitch, TargetMarksStay
  <1>4. ASSUME NEW v, NEW c, Enter(v, c) \/ Exit(v, c) PROVE RestingAt(p)'
    BY <1>1, <1>4, MarksDiffer DEF Enter, Exit, control, history, TargetMarksStay
  <1>5. ASSUME UNCHANGED vars PROVE RestingAt(p)'
    BY <1>1, <1>5 DEF vars, tables, control, history, TargetMarksStay
  <1>6. ASSUME NEW r \in Request,
               RecruiterHandlers(r) \/ TargetHandlers(r) \/ ClientHandlers(r) \/ SubAdminHandlers(r)
        PROVE  RestingAt(p)'
    BY <1>0, <1>6, RecruiterResting, TargetResting, ClientResting, SubAdminResting
  <1> QED
    BY <1>2, <1>3, <1>4, <1>5, <1>6 DEF Next

(* "Pause active targets for deactivated recruiter" (employees.ts:605):    *)
(* but for the windows that the definition names, a recruiter who rests    *)
(* has no active target, whichever requests overlap or stop half-way.      *)
THEOREM RestersHaveNone == Spec => []RestingWithoutTargets
  <1>1. Init => RestingWithoutTargets
    <2> SUFFICES ASSUME Init, NEW p \in Pair PROVE Rests(p[1]) => target[p] # "active"
      BY DEF RestingWithoutTargets
    <2>1. PICK kind, appointed, m :
            /\ account = [u \in Staff |-> IF u \in appointed THEN Hired(Admin)
                                     ELSE IF u \in SubAdmin \/ kind = "none" THEN NoRow
                                     ELSE IF kind = "rests" THEN Resting(m) ELSE Hired(m)]
            /\ target[p] = "active" => kind = "works"
            /\ appointed \subseteq SubAdmin
      BY DEF Init
    <2>2. p[1] \in Staff /\ p[1] \notin SubAdmin
      BY Pairs, Ids
    <2> QED
      BY <2>1, <2>2 DEF Rests, Hired
  <1>2. IInv /\ [Next]_vars /\ RestingWithoutTargets => RestingWithoutTargets'
    BY RestingStep
  <1> QED
    BY <1>1, <1>2, Referential, PTL DEF Spec

-----------------------------------------------------------------------------
(* Clients and their rooms.                                                *)

HousedAt(c) ==
  Known(c) /\ client[c].room = "none" =>
    \/ c \in cut
    \/ \E r \in Request : request[r].id = c /\ request[r].step \in {"no_staff", "no_scope", "no_client"}

LockedAt(c) ==
  client[c].status = "inactive" /\ client[c].room = "active" =>
    \/ <<"room", c>> \in slipped
    \/ c \in cut
    \/ \E r \in Request : request[r].id = c /\ request[r].step = "room" /\ request[r].status = "inactive"

RoomAt(c) == HousedAt(c) /\ LockedAt(c)

RoomMarkStays(c) == <<"room", c>> \in slipped => <<"room", c>> \in slipped'

(* Status and room of a client stay what they are.                         *)
SameClient(c) ==
  /\ client'[c].status = client[c].status /\ client'[c].room = client[c].room
  /\ RoomMarkStays(c)

LEMMA StillHoused ==
  ASSUME NEW c \in Client, HousedAt(c), NEW r \in Request, Kept(r),
         request[r].step \notin {"no_staff", "no_scope", "no_client"} \/ request[r].id # c,
         Known(c)' /\ client'[c].room = "none" => Known(c) /\ client[c].room = "none"
  PROVE  HousedAt(c)'
  BY DEF HousedAt, Kept, Moved, Others

LEMMA StillLocked ==
  ASSUME NEW c \in Client, LockedAt(c), NEW r \in Request, Kept(r),
         request[r].step # "room" \/ request[r].id # c, RoomMarkStays(c),
         client'[c].status = "inactive" /\ client'[c].room = "active" =>
           client[c].status = "inactive" /\ client[c].room = "active"
  PROVE  LockedAt(c)'
  BY DEF LockedAt, RoomMarkStays, Kept, Moved, Others

LEMMA AsideRoom ==
  ASSUME NEW c \in Client, RoomAt(c), NEW r \in Request, Kept(r),
         request[r].step \notin {"no_staff", "no_scope", "no_client", "room"} \/ request[r].id # c,
         SameClient(c)
  PROVE  RoomAt(c)'
  BY StillHoused, StillLocked DEF RoomAt, SameClient, Known

LEMMA RecruiterRooms ==
  ASSUME IInv, NEW c \in Client, RoomAt(c), NEW r \in Request,
         RecruiterHandlers(r) \/ TargetHandlers(r)
  PROVE  RoomAt(c)'
  <1>0. Kept(r)
    BY RecruiterMoves, TargetMoves DEF IInv
  <1> SUFFICES /\ request[r].step \notin {"no_staff", "no_scope", "no_client", "room"}
               /\ client' = client /\ RoomMarkStays(c)
    BY <1>0, AsideRoom DEF SameClient
  <1>1. CASE CreateInsert(r) \/ CreateEnroll(r) \/ CreateAnswer(r) \/ UpdateWrite(r) \/ Dismiss(r)
             \/ RehireAnswer(r)
    BY <1>1 DEF CreateInsert, CreateEnroll, CreateAnswer, UpdateWrite, Dismiss, RehireAnswer,
                Abort, tables, history, RoomMarkStays
  <1>2. CASE Pause(r) \/ Resume(r)
    BY <1>2, MarksDiffer DEF Pause, Resume, RoomMarkStays
  <1>3. CASE EvictSelect(r) \/ Evicted(r) \/ Unlink(r) \/ Unscope(r) \/ Remove(r)
    BY <1>3 DEF EvictSelect, Evicted, Unlink, Unscope, Remove, tables, history, RoomMarkStays
  <1>4. ASSUME NEW d, CreateHire(r, d) \/ Rehire(r, d) \/ EvictRoom(r, d)
        PROVE  /\ request[r].step \notin {"no_staff", "no_scope", "no_client", "room"}
               /\ client' = client /\ RoomMarkStays(c)
    BY <1>4, MarksDiffer DEF CreateHire, Rehire, EvictRoom, Abort, tables, history, RoomMarkStays
  <1>5. ASSUME NEW new, Begin(r, new), UNCHANGED <<client, slipped>>
        PROVE  /\ request[r].step \notin {"no_staff", "no_scope", "no_client", "room"}
               /\ client' = client /\ RoomMarkStays(c)
    BY <1>5 DEF Begin, RoomMarkStays
  <1>6. CASE \E v : DismissalCheck(r, v)
    BY <1>5, <1>6 DEF DismissalCheck, tables, history
  <1>7. CASE \E by \in Caller, v \in Recruiter :
       \/ \E status \in Life, clients \in SUBSET Client :
            CreateCheck(r, by, v, status, clients)
       \/ \E status \in StatusAsked, active \in ActiveAsked :
            \/ UpdateRead(r, by, v, status, active, FALSE, {})
            \/ \E clients \in SUBSET Client : UpdateRead(r, by, v, status, active, TRUE, clients)
       \/ \E status \in Life : SetStatus(r, by, v, status)
    BY <1>5, <1>7 DEF CreateCheck, UpdateRead, SetStatus, tables, history
  <1>8. CASE RecruiterHandlers(r)
    BY <1>1, <1>2, <1>3, <1>4, <1>6, <1>7, <1>8 DEF RecruiterHandlers
  <1>9. CASE TargetSelect(r) \/ TargetUpdate(r) \/ TargetInsert(r) \/ TargetDelete(r)
    BY <1>9 DEF TargetSelect, TargetUpdate, TargetInsert, TargetDelete, Overtaken, Abort, tables,
                history, RoomMarkStays
  <1>10. ASSUME NEW by, NEW p, NEW s,
                TargetCheck(r, by, p[1], p[2], s) \/ TargetDeleteSelect(r, by, p)
         PROVE  /\ request[r].step \notin {"no_staff", "no_scope", "no_client", "room"}
                /\ client' = client /\ RoomMarkStays(c)
    BY <1>5, <1>10 DEF TargetCheck, TargetDeleteSelect, tables, history
  <1>11. ASSUME NEW by, NEW p, NEW s, TargetSet(r, by, p, s)
         PROVE  /\ request[r].step \notin {"no_staff", "no_scope", "no_client", "room"}
                /\ client' = client /\ RoomMarkStays(c)
    BY <1>11 DEF TargetSet, RoomMarkStays
  <1>12. CASE TargetHandlers(r)
    BY <1>9, <1>10, <1>11, <1>12 DEF TargetHandlers
  <1> QED
    BY <1>8, <1>12

LEMMA SubAdminRooms ==
  ASSUME IInv, NEW c \in Client, RoomAt(c), NEW r \in Request, SubAdminHandlers(r)
  PROVE  RoomAt(c)'
  <1>0. Kept(r) /\ client \in [Client -> Profile]
    BY SubAdminMoves DEF IInv, TypeOK
  <1>a. ASSUME request[r].step \notin {"no_staff", "no_scope", "no_client", "room"},
               client' = client, slipped \subseteq slipped'
        PROVE  RoomAt(c)'
    BY <1>0, <1>a, AsideRoom DEF SameClient, RoomMarkStays
  <1>1. CASE Retire(r)
    <2>1. /\ client'[c].status = client[c].status /\ client'[c].room = client[c].room
          /\ request[r].step = "retire" /\ slipped' = slipped
      BY <1>0, <1>1 DEF Retire, history, Profile
    <2> QED
      BY <1>0, <2>1, AsideRoom DEF SameClient, RoomMarkStays
  <1>2. CASE AppointInsert(r) \/ EntrustAnswer(r) \/ Strip(r) \/ SubAdminWrite(r) \/ SubAdminSwitch(r)
    BY <1>a, <1>2 DEF AppointInsert, EntrustAnswer, Strip, SubAdminWrite, SubAdminSwitch, Abort,
                      tables, history
  <1>3. CASE TakeOver(r) \/ Bequeath(r) \/ HandOver(r)
    BY <1>a, <1>3 DEF TakeOver, Bequeath, HandOver, Abort, tables, history
  <1>4. ASSUME NEW x, Entrust(r, x) PROVE RoomAt(c)'
    BY <1>a, <1>4 DEF Entrust, Abort, tables, history
  <1>5. CASE \E s \in SubAdmin :
       \/ \E ids \in SUBSET (Recruiter \cup Client) :
            \/ AppointCheck(r, s, ids) \/ ReplaceCheck(r, s, ids)
            \/ \E status \in StatusAsked : SubAdminRead(r, s, status, TRUE, ids)
       \/ \E status \in StatusAsked : SubAdminRead(r, s, status, FALSE, {})
       \/ \E status \in {"active", "inactive"} : SubAdminSet(r, s, status)
       \/ \E heir \in (SubAdmin \ {s}) \cup {Nobody}, forced \in BOOLEAN :
            RetireCheck(r, s, heir, forced)
    <2>1. request[r].step = "idle" /\ client' = client /\ slipped' = slipped
      BY <1>5 DEF AppointCheck, ReplaceCheck, SubAdminRead, SubAdminSet, RetireCheck, Begin,
                  tables, history
    <2> QED
      BY <1>a, <2>1
  <1> QED
    BY <1>1, <1>2, <1>3, <1>4, <1>5 DEF SubAdminHandlers

LEMMA ClientRooms ==
  ASSUME IInv, NEW c \in Client, RoomAt(c), NEW r \in Request, ClientHandlers(r)
  PROVE  RoomAt(c)'
  <1>0. /\ TypeOK /\ Locals /\ Kept(r) /\ client \in [Client -> Profile]
        /\ client[c] \in Profile
    BY ClientMoves DEF IInv, TypeOK
  <1>a. ASSUME request[r].step \notin {"no_staff", "no_scope", "no_client", "room"},
               client' = client, RoomMarkStays(c)
        PROVE  RoomAt(c)'
    BY <1>0, <1>a, AsideRoom DEF SameClient
  <1>b. ASSUME Abort(r), request[r].step # "idle" PROVE RoomAt(c)'
    <2>1. cut' = cut \cup {request[r].id} /\ UNCHANGED <<client, slipped>>
      BY <1>b DEF Abort, tables
    <2>2. CASE request[r].id = c
      BY <2>1, <2>2 DEF RoomAt, HousedAt, LockedAt
    <2>3. CASE request[r].id # c
      BY <1>0, <2>1, <2>3, AsideRoom DEF SameClient, RoomMarkStays
    <2> QED
      BY <2>2, <2>3
  <1>c. ASSUME NEW d \in Client, NEW status \in Life, NEW active \in BOOLEAN,
               client' = [client EXCEPT ![d].status = status, ![d].active = active]
        PROVE  \A x \in Client :
                 /\ client'[x].status = IF x = d THEN status ELSE client[x].status
                 /\ client'[x].room = client[x].room
    BY <1>0, <1>c DEF Profile
  <1>d. ASSUME NEW d \in Client, NEW room,
               client' = [client EXCEPT ![d].room = room]
        PROVE  \A x \in Client :
                 /\ client'[x].room = IF x = d THEN room ELSE client[x].room
                 /\ client'[x].status = client[x].status
    BY <1>0, <1>d DEF Profile
  <1>1. CASE ClientInsert(r)
    <2>1. CASE Abort(r)
      BY <1>1, <1>b, <2>1 DEF ClientInsert
    <2>2. CASE ~Abort(r)
      <3>1. /\ request[r].step = "client" /\ request[r].id \in Client /\ slipped' = slipped
            /\ c # request[r].id => client'[c] = client[c]
            /\ c = request[r].id => client'[c].status = "active" /\ client'[c].room = "active"
        BY <1>0, <1>1, <2>2, AtClient DEF ClientInsert, history, ClientStep
      <3> QED
        BY <1>0, <3>1, AsideRoom DEF SameClient, RoomMarkStays, RoomAt, HousedAt, LockedAt
    <2> QED
      BY <2>1, <2>2
  <1>2. CASE ClientWrite(r)
    <2>1. CASE Abort(r)
      BY <1>2, <1>b, <2>1 DEF ClientWrite
    <2>2. CASE ~Abort(r)
      <3>1. PICK d \in Client, status \in Life, active \in BOOLEAN :
              d = request[r].id /\ status = Merged(r).status /\ active = Merged(r).active
        BY <1>0, <1>2, AtClient, MergedTyped DEF ClientWrite, ClientStep
      <3>2. /\ request[r].step = "profile" /\ Known(d)
            /\ client' = [client EXCEPT ![d].status = status, ![d].active = active]
            /\ slipped \subseteq slipped'
            /\ status = "inactive" /\ client[d].room = "active" => <<"room", d>> \in slipped'
        BY <1>2, <2>2, <3>1 DEF ClientWrite
      <3>3. /\ client'[c].status = IF c = d THEN status ELSE client[c].status
            /\ client'[c].room = client[c].room
        BY <1>c, <3>2
      <3>4. HousedAt(c)'
        BY <1>0, <3>2, <3>3, StillHoused DEF RoomAt, Known
      <3>5. LockedAt(c)'
        <4>1. CASE <<"room", c>> \in slipped'
          BY <4>1 DEF LockedAt
        <4>2. CASE <<"room", c>> \notin slipped'
          BY <1>0, <3>2, <3>3, <4>2, StillLocked DEF RoomAt, RoomMarkStays
        <4> QED
          BY <4>1, <4>2
      <3> QED
        BY <3>4, <3>5 DEF RoomAt
    <2> QED
      BY <2>1, <2>2
  <1>3. ASSUME NEW by, NEW d \in Client, NEW status \in Life, ClientSet(r, by, d, status)
        PROVE  RoomAt(c)'
    <2>1. PICK active \in BOOLEAN : active = (status = "active")
      OBVIOUS
    <2>2. PICK step \in {"log", "room"} : step = IF status = "archived" THEN "log" ELSE "room"
      OBVIOUS
    <2>3. /\ Begin(r, [Idle EXCEPT !.step = step, !.id = d, !.status = status]) /\ Known(d)
          /\ client' = [client EXCEPT ![d].status = status, ![d].active = active]
          /\ slipped' = slipped
      BY <1>3, <2>1, <2>2 DEF ClientSet, history
    <2>4. /\ request[r].step = "idle"
          /\ request'[r].step = step /\ request'[r].id = d /\ request'[r].status = status
      BY <1>0, <2>3 DEF Begin, TypeOK, Idle
    <2>5. /\ client'[c].status = IF c = d THEN status ELSE client[c].status
          /\ client'[c].room = client[c].room
      BY <1>c, <2>3
    <2>6. HousedAt(c)'
      BY <1>0, <2>3, <2>4, <2>5, StillHoused DEF RoomAt, Known
    <2>7. CASE c = d /\ status = "inactive"
      <3>1. LockedAt(c)'
        BY <2>2, <2>4, <2>7 DEF LockedAt
      <3> QED
        BY <2>6, <3>1 DEF RoomAt
    <2>8. CASE ~(c = d /\ status = "inactive")
      <3>1. LockedAt(c)'
        BY <1>0, <2>3, <2>4, <2>5, <2>8, StillLocked DEF RoomAt, RoomMarkStays
      <3> QED
        BY <2>6, <3>1 DEF RoomAt
    <2> QED
      BY <2>7, <2>8
  <1>4. CASE RoomSet(r)
    <2>1. PICK d \in Client : d = request[r].id
      BY <1>0, <1>4, AtClient DEF RoomSet, ClientStep
    <2>2. PICK room \in {"active", "read_only"} :
            room = IF request[r].status = "active" THEN "active" ELSE "read_only"
      OBVIOUS
    <2>3. PICK new : new = IF client[d].room = "none" THEN "none" ELSE room
      OBVIOUS
    <2>4. /\ client' = [client EXCEPT ![d].room = new] /\ request[r].step = "room"
          /\ \A x : x # d => RoomMarkStays(x)
          /\ room = "active" /\ client[d].status = "inactive" => <<"room", d>> \in slipped'
      BY <1>0, <1>4, <2>1, <2>2, <2>3 DEF RoomSet, RoomMarkStays
    <2>5. /\ client'[c].room = IF c = d THEN new ELSE client[c].room
          /\ client'[c].status = client[c].status
      BY <1>d, <2>4
    <2>6. HousedAt(c)'
      BY <1>0, <2>2, <2>3, <2>4, <2>5, StillHoused DEF RoomAt, Known
    <2>7. LockedAt(c)'
      <3>1. CASE c = d
        BY <2>2, <2>3, <2>4, <2>5, <3>1 DEF LockedAt
      <3>2. CASE c # d
        BY <1>0, <2>1, <2>4, <2>5, <3>2, StillLocked DEF RoomAt
      <3> QED
        BY <3>1, <3>2
    <2> QED
      BY <2>6, <2>7 DEF RoomAt
  <1>5. CASE DeleteRoom(r)
    <2>1. PICK d \in Client : d = request[r].id
      BY <1>0, <1>5, AtClient DEF DeleteRoom, ClientStep
    <2>2. /\ client' = [client EXCEPT ![d].room = "none"] /\ request[r].step = "no_room"
          /\ slipped \subseteq slipped' /\ Goto(r, "no_staff")
      BY <1>5, <2>1 DEF DeleteRoom
    <2>3. /\ client'[c].room = IF c = d THEN "none" ELSE client[c].room
          /\ client'[c].status = client[c].status
      BY <1>d, <2>2
    <2>4. request'[r] = [request[r] EXCEPT !.step = "no_staff"] /\ request[r] \in Local
      BY <1>0, <2>2, GoesOn DEF Leads, ClientStep, TypeOK
    <2>5. request'[r].id = d /\ request'[r].step = "no_staff"
      BY <2>1, <2>4 DEF Local
    <2>6. CASE c = d
      BY <2>3, <2>5, <2>6 DEF RoomAt, HousedAt, LockedAt
    <2>7. CASE c # d
      BY <1>0, <2>2, <2>3, <2>7, AsideRoom DEF SameClient, RoomMarkStays
    <2> QED
      BY <2>6, <2>7
  <1>6. CASE DeleteStaff(r) \/ DeleteScope(r)
    <2>1. PICK step \in {"no_scope", "no_client"} :
            /\ Goto(r, step) /\ client' = client /\ slipped \subseteq slipped'
            /\ request[r].step \in {"no_staff", "no_scope"}
      BY <1>6 DEF DeleteStaff, DeleteScope, history
    <2>2. request'[r] = [request[r] EXCEPT !.step = step] /\ request[r] \in Local
      BY <1>0, <2>1, GoesOn DEF Leads, ClientStep, TypeOK
    <2>3. request'[r].id = request[r].id /\ request'[r].step = step
      BY <2>2 DEF Local
    <2>4. CASE c = request[r].id
      <3>1. HousedAt(c)'
        BY <2>1, <2>3, <2>4 DEF HousedAt
      <3>2. LockedAt(c)'
        BY <1>0, <2>1, StillLocked DEF RoomAt, RoomMarkStays
      <3> QED
        BY <3>1, <3>2 DEF RoomAt
    <2>5. CASE c # request[r].id
      BY <1>0, <2>1, <2>5, AsideRoom DEF SameClient, RoomMarkStays
    <2> QED
      BY <2>4, <2>5
  <1>7. CASE DeleteClient(r)
    <2>1. CASE Abort(r)
      BY <1>7, <1>b, <2>1 DEF DeleteClient
    <2>2. CASE ~Abort(r)
      <3>1. /\ client' = [client EXCEPT ![request[r].id] = NoClient]
            /\ slipped \subseteq slipped'
        BY <1>7, <2>2 DEF DeleteClient
      <3>2. CASE c = request[r].id
        <4>1. client'[c] = NoClient
          BY <1>0, <3>1, <3>2
        <4> QED
          BY <4>1 DEF RoomAt, HousedAt, LockedAt, Known, NoClient
      <3>3. CASE c # request[r].id
        <4>1. client'[c] = client[c]
          BY <1>0, <3>1, <3>3
        <4> QED
          BY <1>0, <3>1, <3>3, <4>1, AsideRoom DEF SameClient, RoomMarkStays
      <3> QED
        BY <3>2, <3>3
    <2> QED
      BY <2>1, <2>2
  <1>8. CASE ClientEnlist(r)
    <2>1. CASE Abort(r)
      BY <1>8, <1>b, <2>1 DEF ClientEnlist
    <2>2. CASE ~Abort(r)
      BY <1>8, <1>a, <2>2 DEF ClientEnlist, history, RoomMarkStays
    <2> QED
      BY <2>1, <2>2
  <1>9. ASSUME NEW v, InsertOne(r, v) \/ AssignUpsert(r, v) PROVE RoomAt(c)'
    <2>1. CASE Abort(r)
      BY <1>9, <1>b, <2>1 DEF InsertOne, AssignUpsert
    <2>2. CASE ~Abort(r)
      BY <1>9, <1>a, <2>2 DEF InsertOne, AssignUpsert, history, RoomMarkStays
    <2> QED
      BY <2>1, <2>2
  <1>10. CASE InsertTell(r) \/ AssignTell(r) \/ UnassignTell(r)
    <2>1. request[r].step \in {"insert", "upsert", "leave"} /\ client' = client /\ RoomMarkStays(c)
      BY <1>10, MarksDiffer DEF InsertTell, AssignTell, UnassignTell, Tell, RoomMarkStays
    <2> QED
      BY <1>a, <2>1
  <1>11. CASE OldSelect(r) \/ DeleteAll(r) \/ SetAnswer(r) \/ PasswordWrite(r)
    BY <1>a, <1>11 DEF OldSelect, DeleteAll, SetAnswer, PasswordWrite, tables, history, RoomMarkStays
  <1>12. ASSUME NEW new, Begin(r, new), UNCHANGED <<client, slipped>> PROVE RoomAt(c)'
    BY <1>a, <1>12 DEF Begin, RoomMarkStays
  <1>13. CASE \E d \in Client : ClientDeleteCheck(r, d)
    BY <1>12, <1>13 DEF ClientDeleteCheck, tables, history
  <1>14. CASE \E by \in Caller, d \in Client :
       \/ ClientCreateCheck(r, by, d) \/ PasswordCheck(r, by, d)
       \/ \E status \in Life : ClientSet(r, by, d, status)
       \/ \E status \in StatusAsked, active \in ActiveAsked :
            \/ ClientRead(r, by, d, status, active, FALSE, {})
            \/ \E staff \in SUBSET Recruiter : ClientRead(r, by, d, status, active, TRUE, staff)
       \/ \E staff \in SUBSET Recruiter : AssignCheck(r, by, d, staff)
       \/ \E u \in Recruiter : Unassign(r, by, u, d)
    <2>1. ASSUME NEW by, NEW d,
                 \/ ClientCreateCheck(r, by, d) \/ PasswordCheck(r, by, d)
                 \/ \E s : AssignCheck(r, by, d, s) \/ Unassign(r, by, s, d)
          PROVE  RoomAt(c)'
      BY <1>12, <2>1 DEF ClientCreateCheck, PasswordCheck, AssignCheck, Unassign, tables, history
    <2>2. ASSUME NEW by, NEW d, NEW s, NEW active, NEW replace, NEW staff,
                 ClientRead(r, by, d, s, active, replace, staff)
          PROVE  RoomAt(c)'
      BY <1>12, <2>2 DEF ClientRead, tables, history
    <2> QED
      BY <1>3, <1>14, <2>1, <2>2
  <1> QED
    BY <1>1, <1>2, <1>4, <1>5, <1>6, <1>7, <1>8, <1>9, <1>10, <1>11, <1>13, <1>14 DEF ClientHandlers

LEMMA RoomStep ==
  ASSUME IInv, [Next]_vars, NEW c \in Client, RoomAt(c)
  PROVE  RoomAt(c)'
  <1>0. TypeOK /\ Locals /\ client \in [Client -> Profile]
    BY DEF IInv, TypeOK
  <1>1. ASSUME request' = request, cut' = cut, SameClient(c) PROVE RoomAt(c)'
    BY <1>1 DEF RoomAt, HousedAt, LockedAt, SameClient, RoomMarkStays, Known
  <1>2. ASSUME NEW r \in Request, RequestLost(r) PROVE RoomAt(c)'
    <2>1. Kept(r) /\ cut' = cut \cup {request[r].id} /\ UNCHANGED <<client, slipped>>
      BY <1>0, <1>2, KeptElse DEF RequestLost, Abort, tables
    <2>2. CASE request[r].id = c
      BY <2>1, <2>2 DEF RoomAt, HousedAt, LockedAt
    <2>3. CASE request[r].id # c
      BY <2>1, <2>3, AsideRoom DEF SameClient, RoomMarkStays
    <2> QED
      BY <2>2, <2>3
  <1>3. ASSUME NEW d \in Client, NEW room \in {"active", "read_only", "archived"}, NEW by,
               SyncWorkspace(d) \/ RoomSwitch(by, d, room)
        PROVE  RoomAt(c)'
    <2>1. PICK new \in {"active", "read_only", "archived"} :
            /\ client' = [client EXCEPT ![d].room = new] /\ request' = request /\ cut' = cut
            /\ slipped \subseteq slipped'
            /\ new = "active" /\ client[d].status = "inactive" => <<"room", d>> \in slipped'
      BY <1>3 DEF SyncWorkspace, RoomSwitch
    <2>2. /\ client'[c].room = IF c = d THEN new ELSE client[c].room
          /\ client'[c].status = client[c].status
      BY <1>0, <2>1 DEF Profile
    <2>3. CASE c = d
      BY <2>1, <2>2, <2>3 DEF RoomAt, HousedAt, LockedAt
    <2>4. CASE c # d
      BY <1>1, <2>1, <2>2, <2>4 DEF SameClient, RoomMarkStays
    <2> QED
      BY <2>3, <2>4
  <1>4. ASSUME NEW v, NEW d, Enter(v, d) \/ Exit(v, d) PROVE RoomAt(c)'
    BY <1>1, <1>4, MarksDiffer DEF Enter, Exit, control, history, SameClient, RoomMarkStays
  <1>5. ASSUME UNCHANGED vars PROVE RoomAt(c)'
    BY <1>1, <1>5 DEF vars, tables, control, history, SameClient, RoomMarkStays
  <1>6. ASSUME NEW r \in Request,
               RecruiterHandlers(r) \/ TargetHandlers(r) \/ ClientHandlers(r) \/ SubAdminHandlers(r)
        PROVE  RoomAt(c)'
    BY <1>6, RecruiterRooms, ClientRooms, SubAdminRooms
  <1> QED
    BY <1>2, <1>3, <1>4, <1>5, <1>6 DEF Next

(* Client, status and room are written one after the other in every        *)
(* handler (clients.ts:254-300, :596-640): they stay together but for the  *)
(* windows of the definition, whichever requests overlap or stop half-way. *)
THEOREM RoomsFollow == Spec => []RoomsFollowClients
  <1> DEFINE Rooms0 == \A c \in Client : RoomAt(c)
  <1>1. Init => Rooms0
    BY DEF Init, RoomAt, HousedAt, LockedAt, Known, NoClient
  <1>2. IInv /\ [Next]_vars /\ Rooms0 => Rooms0'
    BY RoomStep
  <1>3. IInv /\ Rooms0 => RoomsFollowClients
    BY DEF IInv, RoomAt, HousedAt, LockedAt, RoomsFollowClients, EveryClientHasRoom, InactiveReadOnly
  <1> HIDE DEF Rooms0
  <1> QED
    BY <1>1, <1>2, <1>3, Referential, PTL DEF Spec

-----------------------------------------------------------------------------
(* Nobody is managed by a sub-admin about to be deleted.                   *)

Last == {"hand_over", "retire"}

ManagedAt(u) == Retiring(account[u].manager) => <<"manager", u>> \in slipped

ManagerMarkStays(u) == <<"manager", u>> \in slipped => <<"manager", u>> \in slipped'

(* The step of r starts no deletion's last part.                           *)
Unretired(r) ==
  request'[r].step \in Last => request[r].step \in Last /\ request'[r].id = request[r].id

LEMMA Unretires ==
  ASSUME TypeOK, NEW r \in Request
  PROVE  /\ \A step : Goto(r, step) /\ step \notin Last => Unretired(r)
         /\ Answer(r) => Unretired(r)
         /\ Abort(r) => Unretired(r)
         /\ \A x : Wrote(r, x) => Unretired(r)
         /\ \A new : Begin(r, new) /\ new.step \notin Last => Unretired(r)
  <1>1. request[r] \in Local /\ request \in [Request -> Local]
    BY DEF TypeOK
  <1>2. ASSUME NEW step, Goto(r, step), step \notin Last PROVE Unretired(r)
    BY <1>1, <1>2 DEF Goto, Unretired, Local
  <1>3. Answer(r) => Unretired(r)
    BY <1>1, IdleSound DEF Answer, Unretired, Last
  <1>4. ASSUME NEW x, Wrote(r, x) PROVE Unretired(r)
    BY <1>1, <1>4 DEF Wrote, Unretired, Local
  <1>5. ASSUME NEW new, Begin(r, new), new.step \notin Last PROVE Unretired(r)
    BY <1>1, <1>5 DEF Begin, Unretired
  <1> QED
    BY <1>2, <1>3, <1>4, <1>5 DEF Abort

LEMMA OnlySubAdminsRetire ==
  ASSUME Locals
  PROVE  \A m : Retiring(m) => m \in SubAdmin
  BY DEF Locals, Sound, Retiring, SubAdminStep

LEMMA StillManaged ==
  ASSUME NEW u \in Staff, ManagedAt(u), NEW r \in Request, Kept(r), Unretired(r), ManagerMarkStays(u),
         account'[u].manager = account[u].manager \/ account'[u].manager \in {Admin, Nobody}
  PROVE  ManagedAt(u)'
  <1>1. PICK m : m = account'[u].manager
    OBVIOUS
  <1>2. Retiring(m)' => m \in SubAdmin
    BY DEF Kept, Moved, Locals, Sound, Retiring, SubAdminStep
  <1>3. Admin \notin SubAdmin /\ Nobody \notin SubAdmin
    BY Ids
  <1>4. Retiring(m)' => Retiring(m)
    BY DEF Kept, Moved, Others, Unretired, Retiring, Last
  <1> QED
    BY <1>1, <1>2, <1>3, <1>4 DEF ManagedAt, ManagerMarkStays, Retiring

LEMMA RecruiterManaged ==
  ASSUME IInv, NEW u \in Staff, ManagedAt(u), NEW r \in Request, RecruiterHandlers(r)
  PROVE  ManagedAt(u)'
  <1>0. /\ TypeOK /\ Locals /\ Kept(r) /\ account \in [Staff -> Account]
        /\ account[u] \in Account /\ request[r] \in Local /\ request \in [Request -> Local]
    BY RecruiterMoves DEF IInv, TypeOK
  <1>a. ASSUME Unretired(r), ManagerMarkStays(u), account'[u].manager = account[u].manager
        PROVE  ManagedAt(u)'
    BY <1>0, <1>a, StillManaged
  <1>1. CASE CreateInsert(r)
    <2>1. CASE Abort(r)
      BY <1>0, <1>a, <2>1, Unretires DEF Abort, tables, ManagerMarkStays
    <2>2. CASE ~Abort(r)
      <3>1. PICK v \in Recruiter, by \in Manager : v = request[r].id /\ by = request[r].by
        BY <1>0, <1>1, AtRecruiter, Here DEF CreateInsert, RecruiterStep
      <3>2. PICK row : row = [status |-> request[r].status, active |-> TRUE,
                              manager |-> IF by \in SubAdmin THEN by ELSE Nobody]
        OBVIOUS
      <3>3. PICK step : /\ step = IF by \in SubAdmin THEN "enroll" ELSE "hire"
                        /\ step \notin Last
        BY DEF Last
      <3>4. /\ account' = [account EXCEPT ![v] = row] /\ Goto(r, step)
            /\ slipped' = IF Retiring(by) THEN slipped \cup {<<"manager", v>>} ELSE slipped
        BY <1>1, <2>2, <3>1, <3>2, <3>3 DEF CreateInsert
      <3>5. Unretired(r) /\ ManagerMarkStays(u)
        BY <1>0, <3>3, <3>4, Unretires DEF ManagerMarkStays
      <3>6. CASE u # v
        BY <1>0, <1>a, <3>4, <3>5, <3>6
      <3>7. CASE u = v
        <4>1. account'[u].manager = IF by \in SubAdmin THEN by ELSE Nobody
          BY <1>0, <3>2, <3>4, <3>7, Ids
        <4>2. CASE by \notin SubAdmin
          BY <1>0, <3>5, <4>1, <4>2, StillManaged
        <4>3. CASE Retiring(by)
          BY <3>4, <3>7, <4>3 DEF ManagedAt
        <4>4. CASE by \in SubAdmin /\ ~Retiring(by)
          <5>1. ~Retiring(by)'
            BY <1>0, <3>5, <4>4 DEF Kept, Moved, Others, Unretired, Retiring, Last
          <5> QED
            BY <4>1, <4>4, <5>1 DEF ManagedAt, Retiring
        <4> QED
          BY <4>2, <4>3, <4>4
      <3> QED
        BY <3>6, <3>7
    <2> QED
      BY <2>1, <2>2
  <1>2. ASSUME NEW v \in Recruiter, NEW status, NEW active,
               account' = [account EXCEPT ![v].status = status, ![v].active = active]
        PROVE  account'[u].manager = account[u].manager
    BY <1>0, <1>2 DEF Account
  <1>3. CASE UpdateWrite(r)
    <2>1. CASE Abort(r)
      BY <1>0, <1>a, <2>1, Unretires DEF Abort, tables, ManagerMarkStays
    <2>2. CASE ~Abort(r)
      <3>1. request[r].id \in Recruiter
        BY <1>0, <1>3, AtRecruiter DEF UpdateWrite, RecruiterStep
      <3>2. account'[u].manager = account[u].manager
        BY <1>2, <1>3, <2>2, <3>1 DEF UpdateWrite
      <3>3. Unretired(r) /\ ManagerMarkStays(u)
        BY <1>0, <1>3, <2>2, Unretires DEF UpdateWrite, history, ManagerMarkStays, Last
      <3> QED
        BY <1>a, <3>2, <3>3
    <2> QED
      BY <2>1, <2>2
  <1>4. ASSUME NEW new, Begin(r, new), new.step \notin Last, slipped' = slipped
        PROVE  Unretired(r) /\ ManagerMarkStays(u)
    BY <1>0, <1>4, Unretires DEF ManagerMarkStays
  <1>5. ASSUME NEW by, NEW v \in Recruiter, NEW status, SetStatus(r, by, v, status)
        PROVE  ManagedAt(u)'
    <2>0. PICK step : /\ step = IF status = "active" THEN "resume" ELSE "pause"
                      /\ step \notin Last
      BY DEF Last
    <2>1. [Idle EXCEPT !.step = step, !.id = v, !.status = status].step = step
      BY DEF Idle
    <2>2. Begin(r, [Idle EXCEPT !.step = step, !.id = v, !.status = status]) /\ slipped' = slipped
      BY <1>5, <2>0 DEF SetStatus, history
    <2>3. account'[u].manager = account[u].manager
      BY <1>2, <1>5 DEF SetStatus
    <2> QED
      BY <1>4, <1>a, <2>0, <2>1, <2>2, <2>3
  <1>6. CASE Remove(r)
    <2>1. request[r].id \in Recruiter
      BY <1>0, <1>6, AtRecruiter DEF Remove, RecruiterStep
    <2>2. account'[u] = IF u = request[r].id THEN NoRow ELSE account[u]
      BY <1>0, <1>6, <2>1 DEF Remove
    <2>3. Unretired(r) /\ ManagerMarkStays(u)
      BY <1>0, <1>6, Unretires DEF Remove, ManagerMarkStays
    <2> QED
      BY <1>0, <2>2, <2>3, StillManaged DEF NoRow
  <1>7. ASSUME account' = account, Unretired(r), ManagerMarkStays(u)
        PROVE  ManagedAt(u)'
    BY <1>a, <1>7
  <1>8. CASE CreateEnroll(r) \/ CreateAnswer(r) \/ Dismiss(r) \/ RehireAnswer(r)
    BY <1>0, <1>7, <1>8, Unretires
       DEF CreateEnroll, CreateAnswer, Dismiss, RehireAnswer, Abort, tables, history, ManagerMarkStays, Last
  <1>9. CASE Pause(r) \/ Resume(r)
    <2>1. Unretired(r) /\ account' = account
      BY <1>0, <1>9, Unretires DEF Pause, Resume, Last
    <2>2. ManagerMarkStays(u)
      BY <1>9, MarksDiffer DEF Pause, Resume, ManagerMarkStays
    <2> QED
      BY <1>7, <2>1, <2>2
  <1>10. CASE EvictSelect(r)
    <2>1. request'[r] = [request[r] EXCEPT !.step = "evicting", !.todo = Rooms(request[r].id)]
      BY <1>0, <1>10 DEF EvictSelect
    <2>2. Unretired(r)
      BY <1>0, <2>1 DEF Unretired, Local, Last
    <2> QED
      BY <1>7, <1>10, <2>2 DEF EvictSelect, tables, ManagerMarkStays
  <1>11. ASSUME NEW c, EvictRoom(r, c) PROVE ManagedAt(u)'
    <2>1. request'[r] = [request[r] EXCEPT !.todo = @ \ {c}] /\ request[r].step = "evicting"
      BY <1>0, <1>11 DEF EvictRoom
    <2>2. Unretired(r)
      BY <1>0, <2>1 DEF Unretired, Local, Last
    <2>3. ManagerMarkStays(u) /\ account' = account
      BY <1>11, MarksDiffer DEF EvictRoom, ManagerMarkStays
    <2> QED
      BY <1>7, <2>2, <2>3
  <1>12. CASE Evicted(r)
    <2>1. request[r].then \notin Last
      BY <1>0 DEF Local, Last
    <2> QED
      BY <1>0, <1>7, <1>12, <2>1, Unretires DEF Evicted, tables, history, ManagerMarkStays
  <1>13. CASE Unlink(r) \/ Unscope(r)
    BY <1>0, <1>7, <1>13, Unretires DEF Unlink, Unscope, history, ManagerMarkStays, Last
  <1>14. ASSUME NEW c, CreateHire(r, c) \/ Rehire(r, c) PROVE ManagedAt(u)'
    BY <1>0, <1>7, <1>14, Unretires DEF CreateHire, Rehire, Abort, tables, history, ManagerMarkStays
  <1>15. ASSUME NEW v, DismissalCheck(r, v) PROVE ManagedAt(u)'
    <2>1. [Idle EXCEPT !.step = "evict", !.id = v, !.then = "unlink"].step \notin Last
      BY DEF Idle, Last
    <2> QED
      BY <1>4, <1>7, <1>15, <2>1 DEF DismissalCheck, tables, history
  <1>16. ASSUME NEW by, NEW v, NEW status, NEW clients, CreateCheck(r, by, v, status, clients)
         PROVE  ManagedAt(u)'
    <2>1. [Idle EXCEPT !.step = "create", !.by = by, !.id = v, !.status = status,
                       !.want = clients].step \notin Last
      BY DEF Idle, Last
    <2> QED
      BY <1>4, <1>7, <1>16, <2>1 DEF CreateCheck, tables, history
  <1>17. ASSUME NEW by, NEW v, NEW status, NEW active, NEW replace, NEW clients,
                UpdateRead(r, by, v, status, active, replace, clients)
         PROVE  ManagedAt(u)'
    <2>1. [Idle EXCEPT !.step = "update", !.id = v, !.status = status,
                       !.active = active, !.row = account[v],
                       !.replace = replace, !.want = clients,
                       !.then = IF replace THEN "dismiss" ELSE "idle"].step \notin Last
      BY DEF Idle, Last
    <2> QED
      BY <1>4, <1>7, <1>17, <2>1 DEF UpdateRead, tables, history
  <1>18. CASE \E by \in Caller, v \in Recruiter :
       \/ \E status \in Life, clients \in SUBSET Client :
            CreateCheck(r, by, v, status, clients)
       \/ \E status \in StatusAsked, active \in ActiveAsked :
            \/ UpdateRead(r, by, v, status, active, FALSE, {})
            \/ \E clients \in SUBSET Client : UpdateRead(r, by, v, status, active, TRUE, clients)
       \/ \E status \in Life : SetStatus(r, by, v, status)
    BY <1>5, <1>16, <1>17, <1>18
  <1> QED
    BY <1>1, <1>3, <1>6, <1>8, <1>9, <1>10, <1>11, <1>12, <1>13, <1>14, <1>15, <1>18
       DEF RecruiterHandlers

LEMMA TargetManaged ==
  ASSUME IInv, NEW u \in Staff, ManagedAt(u), NEW r \in Request, TargetHandlers(r)
  PROVE  ManagedAt(u)'
  <1>0. TypeOK /\ Locals /\ Kept(r)
    BY TargetMoves DEF IInv
  <1>a. ASSUME account' = account, Unretired(r), ManagerMarkStays(u)
        PROVE  ManagedAt(u)'
    BY <1>0, <1>a, StillManaged
  <1>1. CASE TargetSelect(r) \/ TargetUpdate(r) \/ TargetInsert(r) \/ TargetDelete(r)
    <2>1. Unretired(r)
      BY <1>0, <1>1, Unretires DEF TargetSelect, TargetUpdate, TargetInsert, TargetDelete, Last
    <2>2. account' = account /\ ManagerMarkStays(u)
      BY <1>1 DEF TargetSelect, TargetUpdate, TargetInsert, TargetDelete, Overtaken, Abort, tables,
                  history, ManagerMarkStays
    <2> QED
      BY <1>a, <2>1, <2>2
  <1>2. ASSUME NEW by, NEW p, NEW s, TargetCheck(r, by, p[1], p[2], s) PROVE ManagedAt(u)'
    <2>1. [Idle EXCEPT !.step = "target", !.id = p[1], !.other = p[2],
                       !.status = s, !.row = account[p[1]]].step \notin Last
      BY DEF Idle, Last
    <2> QED
      BY <1>0, <1>a, <1>2, <2>1, Unretires DEF TargetCheck, tables, history, ManagerMarkStays
  <1>3. ASSUME NEW by, NEW p, TargetDeleteSelect(r, by, p) PROVE ManagedAt(u)'
    <2>1. [Idle EXCEPT !.step = "untarget", !.id = p[1], !.other = p[2]].step \notin Last
      BY DEF Idle, Last
    <2> QED
      BY <1>0, <1>a, <1>3, <2>1, Unretires DEF TargetDeleteSelect, tables, history, ManagerMarkStays
  <1>4. ASSUME NEW by, NEW p, NEW s, TargetSet(r, by, p, s) PROVE ManagedAt(u)'
    BY <1>a, <1>4 DEF TargetSet, Unretired, ManagerMarkStays, Last
  <1> QED
    BY <1>1, <1>2, <1>3, <1>4 DEF TargetHandlers

LEMMA ClientManaged ==
  ASSUME IInv, NEW u \in Staff, ManagedAt(u), NEW r \in Request, ClientHandlers(r)
  PROVE  ManagedAt(u)'
  <1>0. TypeOK /\ Locals /\ Kept(r) /\ request \in [Request -> Local] /\ request[r] \in Local
    BY ClientMoves DEF IInv, TypeOK
  <1>a. ASSUME account' = account, Unretired(r), ManagerMarkStays(u)
        PROVE  ManagedAt(u)'
    BY <1>0, <1>a, StillManaged
  <1>1. CASE ClientInsert(r) \/ ClientEnlist(r) \/ ClientWrite(r) \/ DeleteAll(r)
    BY <1>0, <1>a, <1>1, Unretires
       DEF ClientInsert, ClientEnlist, ClientWrite, DeleteAll, Abort, tables, history,
           ManagerMarkStays, Last
  <1>2. CASE OldSelect(r)
    <2>1. PICK staff : request'[r] = [request[r] EXCEPT !.step = "delete_all", !.old = staff]
      BY <1>0, <1>2 DEF OldSelect
    <2>2. Unretired(r)
      BY <1>0, <2>1 DEF Unretired, Local, Last
    <2> QED
      BY <1>a, <1>2, <2>2 DEF OldSelect, tables, history, ManagerMarkStays
  <1>3. CASE InsertTell(r) \/ AssignTell(r) \/ UnassignTell(r)
    <2>1. Unretired(r)
      BY <1>0, <1>3, Unretires DEF InsertTell, AssignTell, UnassignTell, Tell
    <2>2. account' = account /\ ManagerMarkStays(u)
      BY <1>3, MarksDiffer DEF InsertTell, AssignTell, UnassignTell, Tell, ManagerMarkStays
    <2> QED
      BY <1>a, <2>1, <2>2
  <1>4. CASE RoomSet(r)
    <2>1. Unretired(r)
      BY <1>0, <1>4, Unretires DEF RoomSet
    <2>2. account' = account /\ ManagerMarkStays(u)
      BY <1>4, MarksDiffer DEF RoomSet, ManagerMarkStays
    <2> QED
      BY <1>a, <2>1, <2>2
  <1>5. CASE SetAnswer(r) \/ DeleteClient(r) \/ PasswordWrite(r)
    BY <1>0, <1>a, <1>5, Unretires DEF SetAnswer, DeleteClient, PasswordWrite, Abort, tables, history,
                                       ManagerMarkStays
  <1>6. CASE DeleteRoom(r) \/ DeleteStaff(r) \/ DeleteScope(r)
    BY <1>0, <1>a, <1>6, Unretires DEF DeleteRoom, DeleteStaff, DeleteScope, history,
                                       ManagerMarkStays, Last
  <1>7. ASSUME NEW v, InsertOne(r, v) \/ AssignUpsert(r, v) PROVE ManagedAt(u)'
    BY <1>0, <1>a, <1>7, Unretires DEF InsertOne, AssignUpsert, Abort, tables, history, ManagerMarkStays
  <1>8. ASSUME NEW new, Begin(r, new), new.step \notin Last, UNCHANGED <<account, slipped>>
        PROVE  ManagedAt(u)'
    BY <1>0, <1>a, <1>8, Unretires DEF ManagerMarkStays
  <1>9. ASSUME NEW by, NEW c,
               \/ ClientDeleteCheck(r, c) \/ ClientCreateCheck(r, by, c) \/ PasswordCheck(r, by, c)
        PROVE  ManagedAt(u)'
    <2>1. /\ [Idle EXCEPT !.step = "no_room", !.id = c].step \notin Last
          /\ [Idle EXCEPT !.step = "client", !.by = by, !.id = c].step \notin Last
          /\ [Idle EXCEPT !.step = "password", !.id = c].step \notin Last
      BY DEF Idle, Last
    <2> QED
      BY <1>8, <1>9, <2>1 DEF ClientDeleteCheck, ClientCreateCheck, PasswordCheck, tables, history
  <1>10. ASSUME NEW by, NEW c, NEW s, ClientSet(r, by, c, s) PROVE ManagedAt(u)'
    <2>0. PICK step : step = (IF s = "archived" THEN "log" ELSE "room") /\ step \notin Last
      BY DEF Last
    <2>1. [Idle EXCEPT !.step = step, !.id = c, !.status = s].step = step
      BY DEF Idle
    <2> QED
      BY <1>8, <1>10, <2>0, <2>1 DEF ClientSet, history
  <1>11. ASSUME NEW by, NEW c, NEW s, AssignCheck(r, by, c, s) \/ Unassign(r, by, s, c)
         PROVE  ManagedAt(u)'
    <2>1. /\ [Idle EXCEPT !.step = "upsert", !.id = c, !.want = s].step \notin Last
          /\ [Idle EXCEPT !.step = "leave", !.id = c, !.other = s].step \notin Last
      BY DEF Idle, Last
    <2> QED
      BY <1>8, <1>11, <2>1 DEF AssignCheck, Unassign, tables, history
  <1>12. ASSUME NEW by, NEW c, NEW s, NEW active, NEW replace, NEW staff,
               ClientRead(r, by, c, s, active, replace, staff)
         PROVE  ManagedAt(u)'
    <2>1. PICK new : /\ new.step \notin Last /\ Begin(r, new)
      BY <1>12 DEF ClientRead, Idle, Last
    <2> QED
      BY <1>8, <1>12, <2>1 DEF ClientRead, tables, history
  <1>13. CASE \E by \in Caller, c \in Client :
       \/ ClientCreateCheck(r, by, c) \/ PasswordCheck(r, by, c)
       \/ \E status \in Life : ClientSet(r, by, c, status)
       \/ \E status \in StatusAsked, active \in ActiveAsked :
            \/ ClientRead(r, by, c, status, active, FALSE, {})
            \/ \E staff \in SUBSET Recruiter : ClientRead(r, by, c, status, active, TRUE, staff)
       \/ \E staff \in SUBSET Recruiter : AssignCheck(r, by, c, staff)
       \/ \E v \in Recruiter : Unassign(r, by, v, c)
    BY <1>9, <1>10, <1>11, <1>12, <1>13
  <1> QED
    BY <1>1, <1>2, <1>3, <1>4, <1>5, <1>6, <1>7, <1>9, <1>13 DEF ClientHandlers

LEMMA SubAdminManaged ==
  ASSUME IInv, NEW u \in Staff, ManagedAt(u), NEW r \in Request, SubAdminHandlers(r)
  PROVE  ManagedAt(u)'
  <1>0. /\ TypeOK /\ Locals /\ Kept(r) /\ account \in [Staff -> Account]
        /\ account[u] \in Account /\ request[r] \in Local /\ request \in [Request -> Local]
    BY SubAdminMoves DEF IInv, TypeOK
  <1>a. ASSUME Unretired(r), slipped \subseteq slipped',
               account'[u].manager = account[u].manager \/ account'[u].manager \in {Admin, Nobody}
        PROVE  ManagedAt(u)'
    BY <1>0, <1>a, StillManaged DEF ManagerMarkStays
  <1>b. CASE Abort(r)
    BY <1>0, <1>a, <1>b, Unretires DEF Abort, tables
  <1>1. CASE AppointInsert(r)
    <2>1. CASE ~Abort(r)
      <3>1. PICK row : row = [status |-> "active", active |-> TRUE, manager |-> Admin]
        OBVIOUS
      <3>2. /\ account' = [account EXCEPT ![request[r].id] = row] /\ Goto(r, "entrust")
            /\ slipped' = slipped
        BY <1>1, <2>1, <3>1 DEF AppointInsert, history
      <3>3. account'[u].manager = account[u].manager \/ account'[u].manager = Admin
        BY <1>0, <3>1, <3>2
      <3> QED
        BY <1>0, <1>a, <3>2, <3>3, Unretires DEF Last
    <2> QED
      BY <1>b, <2>1
  <1>2. CASE SubAdminWrite(r) \/ SubAdminSwitch(r)
    <2>1. ASSUME NEW s, NEW status, NEW active,
                 account' = [account EXCEPT ![s] = IF Exists(s)
                                THEN [@ EXCEPT !.status = status, !.active = active] ELSE @]
          PROVE  account'[u].manager = account[u].manager
      BY <1>0, <2>1 DEF Account
    <2>2. account'[u].manager = account[u].manager
      <3>1. CASE SubAdminWrite(r)
        <4>1. PICK status, active :
                account' = [account EXCEPT ![request[r].id] = IF Exists(request[r].id)
                              THEN [@ EXCEPT !.status = status, !.active = active] ELSE @]
          BY <3>1, Zenon DEF SubAdminWrite
        <4> QED
          BY <2>1, <4>1
      <3>2. CASE SubAdminSwitch(r)
        <4>1. PICK status, active :
                account' = [account EXCEPT ![request[r].id] = IF Exists(request[r].id)
                              THEN [@ EXCEPT !.status = status, !.active = active] ELSE @]
          BY <3>2, Zenon DEF SubAdminSwitch
        <4> QED
          BY <2>1, <4>1
      <3> QED
        BY <1>2, <3>1, <3>2
    <2>3. Unretired(r) /\ slipped' = slipped
      BY <1>0, <1>2, Unretires DEF SubAdminWrite, SubAdminSwitch, history, Last
    <2> QED
      BY <1>a, <2>2, <2>3
  <1>3. ASSUME NEW s, NEW to
        PROVE  Managed(s, to)[u].manager = IF account[u].manager = s THEN to ELSE account[u].manager
    BY <1>0 DEF Managed, Account
  <1>4. CASE TakeOver(r)
    <2>1. account' = Managed(request[r].id, Admin) /\ Answer(r) /\ slipped' = slipped
      BY <1>4 DEF TakeOver, history
    <2> QED
      BY <1>0, <1>3, <1>a, <2>1, Unretires
  <1>5. CASE Retire(r)
    <2>1. account' = [Managed(request[r].id, Nobody) EXCEPT ![request[r].id] = NoRow]
      BY <1>5 DEF Retire
    <2>2. account'[u] = IF u = request[r].id THEN NoRow ELSE Managed(request[r].id, Nobody)[u]
      BY <2>1 DEF Managed
    <2>3. account'[u].manager = account[u].manager \/ account'[u].manager = Nobody
      BY <1>3, <2>2 DEF NoRow
    <2>4. Unretired(r) /\ slipped' = slipped
      BY <1>0, <1>5, Unretires DEF Retire, history
    <2> QED
      BY <1>a, <2>3, <2>4
  <1>6. CASE Bequeath(r)
    <2>1. CASE ~Abort(r)
      <3>1. PICK s \in SubAdmin, heir \in SubAdmin \cup {Nobody} :
              s = request[r].id /\ heir = request[r].other /\ heir # s
        BY <1>0, <1>6, Ids, AtSubAdmin, Here DEF Bequeath, SubAdminStep, Sound
      <3>2. PICK to \in (SubAdmin \ {s}) \cup {Admin} : to = IF heir = Nobody THEN Admin ELSE heir
        BY <3>1
      <3>3. /\ account' = Managed(s, to) /\ Goto(r, "hand_over")
            /\ slipped' = IF Retiring(heir)
                          THEN slipped \cup {<<"manager", v>> :
                                               v \in {w \in Staff : account[w].manager = s}}
                          ELSE slipped
        BY <1>6, <2>1, <3>1, <3>2 DEF Bequeath
      <3>4. PICK m : m = account'[u].manager
        OBVIOUS
      <3>5. m = IF account[u].manager = s THEN to ELSE account[u].manager
        BY <1>3, <3>3, <3>4
      <3>6. m # s
        BY <3>2, <3>5, Ids
      <3>7. request'[r].id = s
        BY <1>0, <3>1, <3>3 DEF Goto, Local
      <3>8. Retiring(m)' => Retiring(m)
        BY <1>0, <3>6, <3>7 DEF Retiring, Kept, Moved, Others
      <3>9. CASE account[u].manager # s
        BY <3>3, <3>4, <3>5, <3>8, <3>9 DEF ManagedAt, Retiring
      <3>10. CASE account[u].manager = s /\ ~Retiring(m)
        BY <3>4, <3>8, <3>10 DEF ManagedAt, Retiring
      <3>11. CASE account[u].manager = s /\ Retiring(m)
        <4>1. m = heir
          BY <1>0, <3>1, <3>2, <3>5, <3>11, OnlySubAdminsRetire, Ids
        <4> QED
          BY <3>3, <3>11, <4>1 DEF ManagedAt
      <3> QED
        BY <3>9, <3>10, <3>11
    <2> QED
      BY <1>b, <2>1
  <1>7. CASE HandOver(r)
    <2>1. CASE ~Abort(r)
      <3>1. /\ Goto(r, "retire") /\ request[r].step = "hand_over" /\ account' = account
            /\ slipped' = slipped
        BY <1>7, <2>1 DEF HandOver, history
      <3>2. Unretired(r)
        BY <1>0, <3>1 DEF Goto, Local, Unretired, Last
      <3> QED
        BY <1>a, <3>1, <3>2
    <2> QED
      BY <1>b, <2>1
  <1>8. CASE EntrustAnswer(r) \/ Strip(r)
    BY <1>0, <1>a, <1>8, Unretires DEF EntrustAnswer, Strip, tables, history, Last
  <1>9. ASSUME NEW x, Entrust(r, x) PROVE ManagedAt(u)'
    BY <1>0, <1>a, <1>b, <1>9, Unretires DEF Entrust, history
  <1>10. ASSUME NEW new, Begin(r, new), new.step \notin Last, UNCHANGED <<account, slipped>>
         PROVE  ManagedAt(u)'
    BY <1>0, <1>a, <1>10, Unretires
  <1>11. CASE \E s \in SubAdmin :
       \/ \E ids \in SUBSET (Recruiter \cup Client) :
            \/ AppointCheck(r, s, ids) \/ ReplaceCheck(r, s, ids)
            \/ \E status \in StatusAsked : SubAdminRead(r, s, status, TRUE, ids)
       \/ \E status \in StatusAsked : SubAdminRead(r, s, status, FALSE, {})
       \/ \E status \in {"active", "inactive"} : SubAdminSet(r, s, status)
       \/ \E heir \in (SubAdmin \ {s}) \cup {Nobody}, forced \in BOOLEAN :
            RetireCheck(r, s, heir, forced)
    <2>1. ASSUME NEW s, NEW ids, AppointCheck(r, s, ids) \/ ReplaceCheck(r, s, ids)
          PROVE  ManagedAt(u)'
      <3>1. /\ [Idle EXCEPT !.step = "appoint", !.id = s, !.want = ids].step \notin Last
            /\ [Idle EXCEPT !.step = "strip", !.id = s, !.want = ids].step \notin Last
        BY DEF Idle, Last
      <3> QED
        BY <1>10, <2>1, <3>1 DEF AppointCheck, ReplaceCheck, tables, history
    <2>2. ASSUME NEW s, NEW status, NEW replace, NEW ids, SubAdminRead(r, s, status, replace, ids)
          PROVE  ManagedAt(u)'
      <3>1. [Idle EXCEPT !.step = "sub_profile", !.id = s, !.row = account[s], !.status = status,
                         !.replace = replace, !.want = ids].step \notin Last
        BY DEF Idle, Last
      <3> QED
        BY <1>10, <2>2, <3>1 DEF SubAdminRead, tables, history
    <2>3. ASSUME NEW s, NEW x, NEW forced, SubAdminSet(r, s, x) \/ RetireCheck(r, s, x, forced)
          PROVE  ManagedAt(u)'
      <3>1. /\ [Idle EXCEPT !.step = "sub_set", !.id = s, !.status = x].step \notin Last
            /\ [Idle EXCEPT !.step = "bequeath", !.id = s, !.other = x].step \notin Last
        BY DEF Idle, Last
      <3> QED
        BY <1>10, <2>3, <3>1 DEF SubAdminSet, RetireCheck, tables, history
    <2> QED
      BY <1>11, <2>1, <2>2, <2>3
  <1> QED
    BY <1>1, <1>2, <1>4, <1>5, <1>6, <1>7, <1>8, <1>9, <1>11 DEF SubAdminHandlers

LEMMA ManagedStep ==
  ASSUME IInv, [Next]_vars, NobodyOrphaned
  PROVE  NobodyOrphaned'
  <1> SUFFICES ASSUME NEW u \in Staff PROVE ManagedAt(u)'
    BY DEF NobodyOrphaned, ManagedAt
  <1>0. ManagedAt(u) /\ TypeOK /\ Locals
    BY DEF NobodyOrphaned, ManagedAt, IInv
  <1>1. ASSUME request' = request, account' = account, ManagerMarkStays(u) PROVE ManagedAt(u)'
    BY <1>0, <1>1 DEF ManagedAt, ManagerMarkStays, Retiring
  <1>2. ASSUME NEW r \in Request, RequestLost(r) PROVE ManagedAt(u)'
    <2>1. Kept(r) /\ Unretired(r) /\ UNCHANGED <<account, slipped>>
      BY <1>0, <1>2, KeptElse, Unretires DEF RequestLost, Abort, tables
    <2> QED
      BY <1>0, <2>1, StillManaged DEF ManagerMarkStays
  <1>3. ASSUME NEW c, SyncWorkspace(c) \/ \E by, room : RoomSwitch(by, c, room)
        PROVE  ManagedAt(u)'
    BY <1>1, <1>3 DEF SyncWorkspace, RoomSwitch, ManagerMarkStays
  <1>4. ASSUME NEW v, NEW c, Enter(v, c) \/ Exit(v, c) PROVE ManagedAt(u)'
    BY <1>1, <1>4, MarksDiffer DEF Enter, Exit, control, history, ManagerMarkStays
  <1>5. ASSUME UNCHANGED vars PROVE ManagedAt(u)'
    BY <1>1, <1>5 DEF vars, tables, control, history, ManagerMarkStays
  <1>6. ASSUME NEW r \in Request,
               RecruiterHandlers(r) \/ TargetHandlers(r) \/ ClientHandlers(r) \/ SubAdminHandlers(r)
        PROVE  ManagedAt(u)'
    BY <1>0, <1>6, RecruiterManaged, TargetManaged, ClientManaged, SubAdminManaged
  <1> QED
    BY <1>2, <1>3, <1>4, <1>5, <1>6 DEF Next

(* "Reassign employees and clients before deleting" (subAdmins.ts:559):    *)
(* but for the windows of the definition, a sub-admin about to be deleted  *)
(* manages nobody, whatever other requests do in between.                  *)
THEOREM NoneOrphaned == Spec => []NobodyOrphaned
  <1>1. Init => NobodyOrphaned
    BY DEF Init, NobodyOrphaned, Retiring, Idle
  <1>2. IInv /\ [Next]_vars /\ NobodyOrphaned => NobodyOrphaned'
    BY ManagedStep
  <1> QED
    BY <1>1, <1>2, Referential, PTL DEF Spec

-----------------------------------------------------------------------------
(* Who holds a socket is entitled to it.                                   *)

Excused(u, c) == <<"session", u, c>> \in slipped \/ u \in cut \/ c \in cut

(* The handler with local variables q will still close the socket.         *)
EvictingBy(q, u, c) ==
  q.id = u /\ (q.step \in {"pause", "evict"} \/ (q.step = "evicting" /\ c \in q.todo))

(* It will still write the assignment again, or tell u to leave the room.  *)
ReassigningBy(q, u, c) ==
  \/ q.id = u /\ q.step = "rehire" /\ c \in q.want
  \/ q.id = c /\ q.step = "insert" /\ (u \in q.want \/ u \in q.old \ q.given)
  \/ q.id = c /\ q.step = "leave" /\ q.other = u

SocketSteps == {"pause", "evict", "evicting", "rehire", "insert", "leave"}

Working(u) == Exists(u) /\ account[u].active

(* Each of the three reasons to be let in holds on its own, or a handler   *)
(* under way is about it: this is what the steps preserve.                 *)
SocketAt(u, c) ==
  <<u, c>> \in session =>
    \/ Excused(u, c)
    \/ /\ client[c].room # "none"
       /\ Working(u) \/ \E r \in Request : EvictingBy(request[r], u, c)
       /\ employs[<<u, c>>] = "active" \/ \E r \in Request : ReassigningBy(request[r], u, c)

SessionMarkStays(u, c) == <<"session", u, c>> \in slipped => <<"session", u, c>> \in slipped'

(* What a step of r may do to the pair.                                    *)
SocketKept(r, u, c) ==
  <<u, c>> \in session' /\ ~Excused(u, c)' =>
    /\ <<u, c>> \in session /\ SessionMarkStays(u, c)
    /\ client[c].room # "none" => client'[c].room # "none"
    /\ Working(u) \/ EvictingBy(request[r], u, c) =>
         Working(u)' \/ EvictingBy(request'[r], u, c)
    /\ employs[<<u, c>>] = "active" \/ ReassigningBy(request[r], u, c) =>
         employs'[<<u, c>>] = "active" \/ ReassigningBy(request'[r], u, c)

LEMMA SocketStays ==
  ASSUME NEW u \in Recruiter, NEW c \in Client, SocketAt(u, c), NEW r \in Request, Kept(r),
         SocketKept(r, u, c)
  PROVE  SocketAt(u, c)'
  <1>1. SUFFICES ASSUME <<u, c>> \in session', ~Excused(u, c)'
                 PROVE  /\ client'[c].room # "none"
                        /\ Working(u)' \/ \E q \in Request : EvictingBy(request'[q], u, c)
                        /\ \/ employs'[<<u, c>>] = "active"
                           \/ \E q \in Request : ReassigningBy(request'[q], u, c)
    BY DEF SocketAt
  <1>2. ~Excused(u, c) /\ <<u, c>> \in session
    BY <1>1 DEF Excused, SocketKept, SessionMarkStays, Kept
  <1>3. /\ client[c].room # "none"
        /\ Working(u) \/ \E q \in Request : EvictingBy(request[q], u, c)
        /\ employs[<<u, c>>] = "active" \/ \E q \in Request : ReassigningBy(request[q], u, c)
    BY <1>2 DEF SocketAt
  <1>4. \A q \in Request : q # r => request'[q] = request[q]
    BY DEF Kept, Moved, Others
  <1>5. Working(u)' \/ \E q \in Request : EvictingBy(request'[q], u, c)
    BY <1>1, <1>3, <1>4 DEF SocketKept
  <1>6. employs'[<<u, c>>] = "active" \/ \E q \in Request : ReassigningBy(request'[q], u, c)
    BY <1>1, <1>3, <1>4 DEF SocketKept
  <1> QED
    BY <1>1, <1>3, <1>5, <1>6 DEF SocketKept

(* The handlers that have nothing to do with the pair.                     *)
LEMMA SocketAside ==
  ASSUME NEW u \in Recruiter, NEW c \in Client, SocketAt(u, c), NEW r \in Request, Kept(r),
         request[r].step \notin SocketSteps, session' \subseteq session, SessionMarkStays(u, c),
         client[c].room # "none" => client'[c].room # "none",
         Working(u) => Working(u)',
         employs[<<u, c>>] = "active" => employs'[<<u, c>>] = "active"
  PROVE  SocketAt(u, c)'
  BY SocketStays DEF SocketKept, SocketSteps, EvictingBy, ReassigningBy

LEMMA SocketAbort ==
  ASSUME TypeOK, Locals, NEW u \in Recruiter, NEW c \in Client, SocketAt(u, c), NEW r \in Request, Abort(r)
  PROVE  SocketAt(u, c)'
  <1>1. /\ Kept(r) /\ cut' = cut \cup {request[r].id}
        /\ UNCHANGED <<account, client, employs, session, slipped>>
    BY KeptElse DEF Abort, tables
  <1>2. CASE request[r].id \in {u, c}
    BY <1>1, <1>2 DEF SocketAt, Excused
  <1>3. CASE request[r].id \notin {u, c}
    <2>1. ~EvictingBy(request[r], u, c) /\ ~ReassigningBy(request[r], u, c)
      BY <1>3 DEF EvictingBy, ReassigningBy
    <2>2. SocketKept(r, u, c)
      BY <1>1, <2>1 DEF SocketKept, SessionMarkStays, Working, Exists
    <2> QED
      BY <1>1, <2>2, SocketStays
  <1> QED
    BY <1>2, <1>3

LEMMA TargetSockets ==
  ASSUME IInv, NEW u \in Recruiter, NEW c \in Client, SocketAt(u, c), NEW r \in Request,
         TargetHandlers(r)
  PROVE  SocketAt(u, c)'
  <1>0. TypeOK /\ Locals /\ Kept(r)
    BY TargetMoves DEF IInv
  <1>1. CASE TargetSelect(r) \/ TargetUpdate(r) \/ TargetInsert(r) \/ TargetDelete(r)
    <2>1. /\ request[r].step \notin SocketSteps /\ UNCHANGED <<account, client, employs, session>>
          /\ SessionMarkStays(u, c)
      BY <1>1 DEF TargetSelect, TargetUpdate, TargetInsert, TargetDelete, Overtaken, Abort, tables,
                  history, SessionMarkStays, SocketSteps
    <2> QED
      BY <1>0, <2>1, SocketAside DEF Working, Exists
  <1>2. ASSUME NEW by, NEW p, NEW s,
               \/ TargetCheck(r, by, p[1], p[2], s) \/ TargetDeleteSelect(r, by, p)
               \/ TargetSet(r, by, p, s)
        PROVE  SocketAt(u, c)'
    <2>1. /\ request[r].step \notin SocketSteps /\ UNCHANGED <<account, client, employs, session>>
          /\ SessionMarkStays(u, c)
      BY <1>2 DEF TargetCheck, TargetDeleteSelect, TargetSet, Begin, tables, history,
                  SessionMarkStays, SocketSteps
    <2> QED
      BY <1>0, <2>1, SocketAside DEF Working, Exists
  <1> QED
    BY <1>1, <1>2 DEF TargetHandlers

LEMMA SubAdminSockets ==
  ASSUME IInv, NEW u \in Recruiter, NEW c \in Client, SocketAt(u, c), NEW r \in Request,
         SubAdminHandlers(r)
  PROVE  SocketAt(u, c)'
  <1>0. /\ TypeOK /\ Locals /\ Kept(r) /\ u \in Staff
        /\ account \in [Staff -> Account] /\ client \in [Client -> Profile]
        /\ account[u] \in Account /\ client[c] \in Profile
    BY SubAdminMoves, Ids DEF IInv, TypeOK
  <1>a. ASSUME request[r].step \notin SocketSteps, UNCHANGED <<employs, session>>,
               slipped \subseteq slipped', client'[c].room = client[c].room,
               account'[u].status = account[u].status, account'[u].active = account[u].active
        PROVE  SocketAt(u, c)'
    BY <1>0, <1>a, SocketAside DEF Working, Exists, SessionMarkStays
  <1>b. CASE Abort(r)
    BY <1>0, <1>b, SocketAbort
  <1>1. CASE SubAdminWrite(r) \/ SubAdminSwitch(r) \/ AppointInsert(r)
    <2>1. request[r].id # u
      BY <1>0, <1>1, AtSubAdmin, Ids DEF SubAdminWrite, SubAdminSwitch, AppointInsert, SubAdminStep
    <2>2. account'[u] = account[u]
      BY <1>0, <1>1, <2>1 DEF SubAdminWrite, SubAdminSwitch, AppointInsert, Abort, tables
    <2>3. request[r].step \notin SocketSteps /\ UNCHANGED <<employs, session, slipped, client>>
      BY <1>1 DEF SubAdminWrite, SubAdminSwitch, AppointInsert, Abort, tables, history, SocketSteps
    <2> QED
      BY <1>a, <2>2, <2>3
  <1>2. ASSUME NEW s, NEW to
        PROVE  /\ Managed(s, to)[u].status = account[u].status
               /\ Managed(s, to)[u].active = account[u].active
    BY <1>0 DEF Managed, Account
  <1>3. CASE TakeOver(r)
    BY <1>a, <1>2, <1>3 DEF TakeOver, history, SocketSteps
  <1>4. CASE Bequeath(r)
    <2>1. CASE ~Abort(r)
      BY <1>4, <1>a, <1>2, <2>1 DEF Bequeath, SocketSteps
    <2> QED
      BY <1>b, <2>1
  <1>5. CASE Retire(r)
    <2>1. request[r].id # u
      BY <1>0, <1>5, AtSubAdmin, Ids DEF Retire, SubAdminStep
    <2>2. account'[u] = Managed(request[r].id, Nobody)[u]
      BY <1>0, <1>5, <2>1 DEF Retire, Managed
    <2>3. client'[c].room = client[c].room
      BY <1>0, <1>5 DEF Retire, Profile
    <2> QED
      BY <1>a, <1>2, <1>5, <2>2, <2>3 DEF Retire, history, SocketSteps
  <1>6. CASE EntrustAnswer(r) \/ Strip(r) \/ HandOver(r)
    BY <1>a, <1>b, <1>6 DEF EntrustAnswer, Strip, HandOver, tables, history, SocketSteps
  <1>7. ASSUME NEW x, Entrust(r, x) PROVE SocketAt(u, c)'
    BY <1>a, <1>b, <1>7 DEF Entrust, tables, history, SocketSteps
  <1>8. CASE \E s \in SubAdmin :
       \/ \E ids \in SUBSET (Recruiter \cup Client) :
            \/ AppointCheck(r, s, ids) \/ ReplaceCheck(r, s, ids)
            \/ \E status \in StatusAsked : SubAdminRead(r, s, status, TRUE, ids)
       \/ \E status \in StatusAsked : SubAdminRead(r, s, status, FALSE, {})
       \/ \E status \in {"active", "inactive"} : SubAdminSet(r, s, status)
       \/ \E heir \in (SubAdmin \ {s}) \cup {Nobody}, forced \in BOOLEAN :
            RetireCheck(r, s, heir, forced)
    <2>1. request[r].step \notin SocketSteps /\ UNCHANGED <<account, client, employs, session, slipped>>
      BY <1>8 DEF AppointCheck, ReplaceCheck, SubAdminRead, SubAdminSet, RetireCheck, Begin,
                  tables, history, SocketSteps
    <2> QED
      BY <1>a, <2>1
  <1> QED
    BY <1>1, <1>3, <1>4, <1>5, <1>6, <1>7, <1>8 DEF SubAdminHandlers

LEMMA RecruiterSockets ==
  ASSUME IInv, NEW u \in Recruiter, NEW c \in Client, SocketAt(u, c), NEW r \in Request,
         RecruiterHandlers(r)
  PROVE  SocketAt(u, c)'
  <1>0. /\ TypeOK /\ Locals /\ Kept(r) /\ u \in Staff /\ <<u, c>> \in Pair
        /\ account \in [Staff -> Account] /\ employs \in [Pair -> {"none", "inactive", "active"}]
        /\ account[u] \in Account /\ request[r] \in Local /\ request \in [Request -> Local]
    BY RecruiterMoves, Pairs, Ids DEF IInv, TypeOK
  <1>a. ASSUME request[r].step \notin SocketSteps, session' \subseteq session, client' = client,
               SessionMarkStays(u, c), Working(u) => Working(u)',
               employs[<<u, c>>] = "active" => employs'[<<u, c>>] = "active"
        PROVE  SocketAt(u, c)'
    BY <1>0, <1>a, SocketAside
  <1>b. CASE Abort(r)
    BY <1>0, <1>b, SocketAbort
  <1>c. ASSUME NEW step, Goto(r, step)
        PROVE  request'[r] = [request[r] EXCEPT !.step = step]
    BY <1>0, <1>c DEF Goto
  <1>1. CASE CreateInsert(r)
    <2>1. CASE ~Abort(r)
      <3>1. request[r].id \in Recruiter
        BY <1>0, <1>1, AtRecruiter DEF CreateInsert, RecruiterStep
      <3>2. PICK row : /\ account' = [account EXCEPT ![request[r].id] = row]
                       /\ row.status = request[r].status /\ row.active = TRUE
        <4>1. PICK row : row = [status |-> request[r].status, active |-> TRUE,
                                manager |-> IF request[r].by \in SubAdmin THEN request[r].by
                                            ELSE Nobody]
          OBVIOUS
        <4>2. account' = [account EXCEPT ![request[r].id] = row]
          BY <1>1, <2>1, <4>1 DEF CreateInsert
        <4>3. row.status = request[r].status /\ row.active = TRUE
          BY <4>1
        <4> QED
          BY <4>2, <4>3
      <3>3. request[r].status \in Life
        BY <1>0, <1>1, Here DEF CreateInsert, Sound
      <3>4. Working(u) => Working(u)'
        BY <1>0, <3>1, <3>2, <3>3 DEF Working, Exists, Life
      <3>5. /\ request[r].step \notin SocketSteps /\ UNCHANGED <<employs, session, client>>
            /\ SessionMarkStays(u, c)
        BY <1>1, <2>1 DEF CreateInsert, SocketSteps, SessionMarkStays
      <3> QED
        BY <1>a, <3>4, <3>5
    <2> QED
      BY <1>b, <2>1
  <1>2. ASSUME NEW v \in Recruiter, NEW status \in Life, NEW active \in BOOLEAN,
               account' = [account EXCEPT ![v].status = status, ![v].active = active],
               request[r].step \notin SocketSteps, UNCHANGED <<employs, session, client, slipped>>,
               ~active => EvictingBy(request'[r], v, c)
        PROVE  SocketAt(u, c)'
    <2>1. \A w \in Staff : w # v => account'[w] = account[w]
      BY <1>0, <1>2
    <2>2. account'[v].status = status /\ account'[v].active = active
      BY <1>0, <1>2, Ids DEF Account
    <2>3. Working(u) => Working(u)' \/ EvictingBy(request'[r], u, c)
      BY <1>0, <1>2, <2>1, <2>2 DEF Working, Exists, Life
    <2>4. SocketKept(r, u, c)
      BY <1>2, <2>3 DEF SocketKept, SessionMarkStays, SocketSteps, EvictingBy, ReassigningBy
    <2> QED
      BY <1>0, <2>4, SocketStays
  <1>3. CASE UpdateWrite(r)
    <2>1. CASE ~Abort(r)
      <3>1. PICK v \in Recruiter, status \in Life, active \in BOOLEAN :
              v = request[r].id /\ status = Merged(r).status /\ active = Merged(r).active
        BY <1>0, <1>3, AtRecruiter, MergedTyped DEF UpdateWrite, RecruiterStep
      <3>2. PICK step : step = IF status \in {"inactive", "archived"} \/ ~active
                               THEN "pause" ELSE "resume"
        OBVIOUS
      <3>3. /\ request[r].step = "update" /\ UNCHANGED <<employs, session, client, slipped>>
            /\ Goto(r, step)
            /\ account' = [account EXCEPT ![v].status = status, ![v].active = active]
        BY <1>3, <2>1, <3>1, <3>2 DEF UpdateWrite, history
      <3>4. request'[r] = [request[r] EXCEPT !.step = step]
        BY <1>c, <3>3
      <3>5. ~active => EvictingBy(request'[r], v, c)
        BY <1>0, <3>1, <3>2, <3>4 DEF Local, EvictingBy
      <3> QED
        BY <1>2, <3>3, <3>5 DEF SocketSteps
    <2> QED
      BY <1>b, <2>1
  <1>4. ASSUME NEW by \in Caller, NEW v \in Recruiter, NEW status \in Life, SetStatus(r, by, v, status)
        PROVE  SocketAt(u, c)'
    <2>1. PICK step : step = IF status = "active" THEN "resume" ELSE "pause"
      OBVIOUS
    <2>2. PICK active \in BOOLEAN : active = (status = "active")
      OBVIOUS
    <2>3. /\ Begin(r, [Idle EXCEPT !.step = step, !.id = v, !.status = status])
          /\ UNCHANGED <<employs, session, client, slipped>>
          /\ account' = [account EXCEPT ![v].status = status, ![v].active = active]
      BY <1>4, <2>1, <2>2 DEF SetStatus, history
    <2>4. /\ request'[r] = [Idle EXCEPT !.step = step, !.id = v, !.status = status]
          /\ request[r].step = "idle"
      BY <1>0, <2>3 DEF Begin
    <2>5. ~active => EvictingBy(request'[r], v, c)
      BY <2>1, <2>2, <2>4 DEF Idle, EvictingBy
    <2> QED
      BY <1>2, <2>3, <2>4, <2>5 DEF SocketSteps
  <1>5. CASE Pause(r)
    <2>1. /\ request[r].step = "pause" /\ Goto(r, "evict")
          /\ slipped' = slipped \ {<<"target", request[r].id>>}
          /\ UNCHANGED <<account, client, employs, session>>
      BY <1>5 DEF Pause
    <2>2. request'[r] = [request[r] EXCEPT !.step = "evict"]
      BY <1>c, <2>1
    <2>3. EvictingBy(request[r], u, c) => EvictingBy(request'[r], u, c)
      BY <1>0, <2>2 DEF EvictingBy, Local
    <2>4. ~ReassigningBy(request[r], u, c)
      BY <2>1 DEF ReassigningBy
    <2>5. SessionMarkStays(u, c)
      BY <2>1, MarksDiffer DEF SessionMarkStays
    <2>6. SocketKept(r, u, c)
      BY <2>1, <2>3, <2>4, <2>5 DEF SocketKept, Working, Exists
    <2> QED
      BY <1>0, <2>6, SocketStays
  <1>6. CASE EvictSelect(r)
    <2>1. PICK rooms : rooms = Rooms(request[r].id)
      OBVIOUS
    <2>2. /\ request[r].step = "evict"
          /\ request'[r] = [request[r] EXCEPT !.step = "evicting", !.todo = rooms]
          /\ slipped' = slipped \cup {<<"session", request[r].id, d>> :
                                        d \in {x \in Client \ rooms : <<request[r].id, x>> \in session}}
          /\ UNCHANGED <<account, client, employs, session>>
      BY <1>0, <1>6, <2>1 DEF EvictSelect, tables
    <2>3. request'[r].id = request[r].id /\ request'[r].step = "evicting" /\ request'[r].todo = rooms
      BY <1>0, <2>2 DEF Local
    <2>4. <<u, c>> \in session /\ request[r].id = u /\ c \notin rooms => <<"session", u, c>> \in slipped'
      BY <2>2
    <2>5. <<u, c>> \in session /\ ~Excused(u, c)' /\ EvictingBy(request[r], u, c) =>
            EvictingBy(request'[r], u, c)
      BY <2>3, <2>4 DEF EvictingBy, Excused
    <2>6. ~ReassigningBy(request[r], u, c)
      BY <2>2 DEF ReassigningBy
    <2>7. SessionMarkStays(u, c)
      BY <2>2 DEF SessionMarkStays
    <2>8. SocketKept(r, u, c)
      BY <2>2, <2>5, <2>6, <2>7 DEF SocketKept, Working, Exists
    <2> QED
      BY <1>0, <2>8, SocketStays
  <1>7. ASSUME NEW d \in Client, EvictRoom(r, d) PROVE SocketAt(u, c)'
    <2>1. /\ request[r].step = "evicting"
          /\ request'[r] = [request[r] EXCEPT !.todo = @ \ {d}]
          /\ UNCHANGED <<account, client, employs>>
      BY <1>0, <1>7 DEF EvictRoom
    <2>2. /\ request'[r].id = request[r].id /\ request'[r].step = "evicting"
          /\ request'[r].todo = request[r].todo \ {d}
      BY <1>0, <2>1 DEF Local
    <2>3. ~ReassigningBy(request[r], u, c)
      BY <2>1 DEF ReassigningBy
    <2>4. session' \subseteq session
      BY <1>7 DEF EvictRoom
    <2>5. <<u, c>> \in session' => SessionMarkStays(u, c)
      BY <1>7 DEF EvictRoom, SessionMarkStays
    <2>6. <<u, c>> \in session' /\ request[r].id = u /\ d = c => <<"session", u, c>> \in slipped'
      BY <1>7 DEF EvictRoom
    <2>7. <<u, c>> \in session' /\ ~Excused(u, c)' /\ EvictingBy(request[r], u, c) =>
            EvictingBy(request'[r], u, c)
      BY <2>1, <2>2, <2>6 DEF EvictingBy, Excused
    <2>8. SocketKept(r, u, c)
      BY <2>1, <2>3, <2>4, <2>5, <2>7 DEF SocketKept, Working, Exists
    <2> QED
      BY <1>0, <2>8, SocketStays
  <1>8. CASE Evicted(r)
    <2>1. /\ request[r].step = "evicting" /\ request[r].todo = {}
          /\ UNCHANGED <<account, client, employs, session, slipped>>
      BY <1>8 DEF Evicted, tables, history
    <2>2. ~EvictingBy(request[r], u, c) /\ ~ReassigningBy(request[r], u, c)
      BY <2>1 DEF EvictingBy, ReassigningBy
    <2>3. SocketKept(r, u, c)
      BY <2>1, <2>2 DEF SocketKept, Working, Exists, SessionMarkStays
    <2> QED
      BY <1>0, <2>3, SocketStays
  <1>9. CASE Dismiss(r)
    <2>1. /\ request[r].step = "dismiss" /\ Goto(r, "rehire")
          /\ employs' = [p \in Pair |-> IF p[1] = request[r].id /\ employs[p] = "active" THEN "inactive"
                                        ELSE employs[p]]
          /\ slipped' = slipped \cup {<<"session", request[r].id, d>> :
                            d \in {x \in Client \ request[r].want : <<request[r].id, x>> \in session}}
          /\ UNCHANGED <<account, client, session>>
      BY <1>9 DEF Dismiss
    <2>2. request'[r] = [request[r] EXCEPT !.step = "rehire"]
      BY <1>c, <2>1
    <2>3. /\ request'[r].id = request[r].id /\ request'[r].step = "rehire"
          /\ request'[r].want = request[r].want
      BY <1>0, <2>2 DEF Local
    <2>4. request[r].id # u => employs'[<<u, c>>] = employs[<<u, c>>]
      BY <1>0, <2>1
    <2>5. <<u, c>> \in session /\ request[r].id = u /\ c \notin request[r].want =>
            <<"session", u, c>> \in slipped'
      BY <2>1
    <2>6. ~EvictingBy(request[r], u, c) /\ ~ReassigningBy(request[r], u, c)
      BY <2>1 DEF EvictingBy, ReassigningBy
    <2>7. SocketKept(r, u, c)
      BY <2>1, <2>3, <2>4, <2>5, <2>6
         DEF SocketKept, Working, Exists, SessionMarkStays, Excused, ReassigningBy
    <2> QED
      BY <1>0, <2>7, SocketStays
  <1>10. ASSUME NEW d \in Client, Rehire(r, d) PROVE SocketAt(u, c)'
    <2>1. CASE ~Abort(r)
      <3>1. /\ request[r].step = "rehire" /\ employs' = [employs EXCEPT ![<<request[r].id, d>>] = "active"]
            /\ Wrote(r, d) /\ UNCHANGED <<account, client, session, slipped>>
        BY <1>10, <2>1 DEF Rehire, history
      <3>2. request'[r] = [request[r] EXCEPT !.want = @ \ {d}]
        BY <1>0, <3>1 DEF Wrote
      <3>3. /\ request'[r].id = request[r].id /\ request'[r].step = "rehire"
            /\ request'[r].want = request[r].want \ {d}
        BY <1>0, <3>1, <3>2 DEF Local
      <3>4. employs'[<<u, c>>] = IF <<u, c>> = <<request[r].id, d>> THEN "active" ELSE employs[<<u, c>>]
        BY <1>0, <3>1
      <3>5. ~EvictingBy(request[r], u, c)
        BY <3>1 DEF EvictingBy
      <3>6. ReassigningBy(request[r], u, c) =>
              ReassigningBy(request'[r], u, c) \/ employs'[<<u, c>>] = "active"
        BY <3>1, <3>3, <3>4 DEF ReassigningBy
      <3>7. SocketKept(r, u, c)
        BY <3>1, <3>4, <3>5, <3>6 DEF SocketKept, Working, Exists, SessionMarkStays
      <3> QED
        BY <1>0, <3>7, SocketStays
    <2> QED
      BY <1>b, <2>1
  <1>11. CASE RehireAnswer(r)
    <2>1. /\ request[r].step = "rehire" /\ request[r].want = {}
          /\ UNCHANGED <<account, client, employs, session, slipped>>
      BY <1>11 DEF RehireAnswer, tables, history
    <2>2. ~EvictingBy(request[r], u, c) /\ ~ReassigningBy(request[r], u, c)
      BY <2>1 DEF EvictingBy, ReassigningBy
    <2>3. SocketKept(r, u, c)
      BY <2>1, <2>2 DEF SocketKept, Working, Exists, SessionMarkStays
    <2> QED
      BY <1>0, <2>3, SocketStays
  <1>12. ASSUME NEW d \in Client, CreateHire(r, d) PROVE SocketAt(u, c)'
    <2>1. CASE ~Abort(r)
      <3>1. PICK row : row = IF employs[<<request[r].id, d>>] = "none" THEN "active"
                             ELSE employs[<<request[r].id, d>>]
        OBVIOUS
      <3>2. request[r].id \in Recruiter
        BY <1>0, <1>12, AtRecruiter DEF CreateHire, RecruiterStep
      <3>3. /\ employs' = [employs EXCEPT ![<<request[r].id, d>>] = row]
            /\ request[r].step \notin SocketSteps /\ UNCHANGED <<account, client, session, slipped>>
        BY <1>0, <1>12, <2>1, <3>1, <3>2, Pairs DEF CreateHire, history, SocketSteps
      <3>4. employs[<<u, c>>] = "active" => employs'[<<u, c>>] = "active"
        BY <1>0, <3>1, <3>3
      <3> QED
        BY <1>a, <3>3, <3>4 DEF Working, Exists, SessionMarkStays
    <2> QED
      BY <1>b, <2>1
  <1>13. CASE Unlink(r) \/ Remove(r)
    <2>1. PICK v \in Recruiter : v = request[r].id
      BY <1>0, <1>13, AtRecruiter DEF Unlink, Remove, RecruiterStep
    <2>2. /\ slipped' = slipped \cup {<<"session", v, d>> : d \in {x \in Client : <<v, x>> \in session}}
          /\ UNCHANGED <<client, session>> /\ request[r].step \notin SocketSteps
          /\ v # u => employs'[<<u, c>>] = employs[<<u, c>>] /\ account'[u] = account[u]
      BY <1>0, <1>13, <2>1 DEF Unlink, Remove, SocketSteps
    <2>3. CASE v = u
      BY <2>2, <2>3 DEF SocketAt, Excused
    <2>4. CASE v # u
      BY <1>a, <2>2, <2>4 DEF Working, Exists, SessionMarkStays
    <2> QED
      BY <2>3, <2>4
  <1>14. CASE CreateEnroll(r) \/ CreateAnswer(r) \/ Resume(r) \/ Unscope(r)
    <2>1. CASE ~Abort(r)
      <3>1. /\ request[r].step \notin SocketSteps /\ UNCHANGED <<account, client, employs, session>>
            /\ slipped \subseteq slipped'
        BY <1>14, <2>1 DEF CreateEnroll, CreateAnswer, Resume, Unscope, tables, history, SocketSteps
      <3> QED
        BY <1>a, <3>1 DEF Working, Exists, SessionMarkStays
    <2> QED
      BY <1>b, <2>1
  <1>15. ASSUME NEW new, Begin(r, new), UNCHANGED <<account, client, employs, session, slipped>>
         PROVE  SocketAt(u, c)'
    BY <1>a, <1>15 DEF Begin, SocketSteps, Working, Exists, SessionMarkStays
  <1>16. ASSUME NEW v, DismissalCheck(r, v) PROVE SocketAt(u, c)'
    BY <1>15, <1>16 DEF DismissalCheck, tables, history
  <1>17. ASSUME NEW by, NEW v, NEW status, NEW clients, CreateCheck(r, by, v, status, clients)
         PROVE  SocketAt(u, c)'
    BY <1>15, <1>17 DEF CreateCheck, tables, history
  <1>18. ASSUME NEW by, NEW v, NEW status, NEW active, NEW replace, NEW clients,
                UpdateRead(r, by, v, status, active, replace, clients)
         PROVE  SocketAt(u, c)'
    BY <1>15, <1>18 DEF UpdateRead, tables, history
  <1>19. CASE \E by \in Caller, v \in Recruiter :
       \/ \E status \in Life, clients \in SUBSET Client :
            CreateCheck(r, by, v, status, clients)
       \/ \E status \in StatusAsked, active \in ActiveAsked :
            \/ UpdateRead(r, by, v, status, active, FALSE, {})
            \/ \E clients \in SUBSET Client : UpdateRead(r, by, v, status, active, TRUE, clients)
       \/ \E status \in Life : SetStatus(r, by, v, status)
    BY <1>4, <1>17, <1>18, <1>19
  <1> QED
    BY <1>1, <1>3, <1>5, <1>6, <1>7, <1>8, <1>9, <1>10, <1>11, <1>12, <1>13, <1>14, <1>16, <1>19
       DEF RecruiterHandlers

(* notifyRoomMembersUpdated settles what its handler had to tell.          *)
LEMMA TellSockets ==
  ASSUME TypeOK, NEW u \in Recruiter, NEW c \in Client, SocketAt(u, c), NEW r \in Request, Kept(r),
         NEW d, NEW removed, Tell(r, d, removed), request[r].step \notin {"pause", "evict", "evicting"},
         ReassigningBy(request[r], u, c) => d = c /\ u \in removed
  PROVE  SocketAt(u, c)'
  <1>1. PICK pairs, marks : /\ pairs = {<<v, d>> : v \in removed}
                            /\ marks = {<<"session", v, d>> : v \in removed}
    OBVIOUS
  <1>2. /\ UNCHANGED <<account, client, employs>>
        /\ \/ session' = session \ pairs /\ slipped' = slipped \ marks
           \/ /\ slipped' = slipped \cup {m \in marks : <<m[2], m[3]>> \in session}
              /\ UNCHANGED session
    BY <1>1 DEF Tell
  <1>3. ~EvictingBy(request[r], u, c)
    BY DEF EvictingBy
  <1>4. session' \subseteq session
    BY <1>2
  <1>5. <<u, c>> \in session' => SessionMarkStays(u, c)
    <2>1. <<"session", u, c>> \in marks => <<u, c>> \in pairs
      BY <1>1
    <2> QED
      BY <1>2, <2>1 DEF SessionMarkStays
  <1>6. <<u, c>> \in session' /\ d = c /\ u \in removed => <<"session", u, c>> \in slipped'
    <2>1. d = c /\ u \in removed => <<u, c>> \in pairs /\ <<"session", u, c>> \in marks
      BY <1>1
    <2> QED
      BY <1>2, <2>1
  <1>7. SocketKept(r, u, c)
    BY <1>2, <1>3, <1>4, <1>5, <1>6 DEF SocketKept, Working, Exists, Excused
  <1> QED
    BY <1>7, SocketStays

LEMMA ClientSockets ==
  ASSUME IInv, NEW u \in Recruiter, NEW c \in Client, SocketAt(u, c), NEW r \in Request,
         ClientHandlers(r)
  PROVE  SocketAt(u, c)'
  <1>0. /\ TypeOK /\ Locals /\ Kept(r) /\ <<u, c>> \in Pair
        /\ client \in [Client -> Profile] /\ employs \in [Pair -> {"none", "inactive", "active"}]
        /\ client[c] \in Profile /\ request[r] \in Local /\ request \in [Request -> Local]
    BY ClientMoves, Pairs DEF IInv, TypeOK
  <1>a. ASSUME request[r].step \notin SocketSteps, session' = session, account' = account,
               slipped \subseteq slipped', client[c].room # "none" => client'[c].room # "none",
               employs[<<u, c>>] = "active" => employs'[<<u, c>>] = "active"
        PROVE  SocketAt(u, c)'
    BY <1>0, <1>a, SocketAside DEF Working, Exists, SessionMarkStays
  <1>b. CASE Abort(r)
    BY <1>0, <1>b, SocketAbort
  <1>1. CASE ClientInsert(r)
    <2>1. CASE ~Abort(r)
      <3>0. PICK row : row = [status |-> "active", active |-> TRUE, room |-> "active",
                              manager |-> IF request[r].by \in SubAdmin THEN request[r].by
                                          ELSE Nobody]
        OBVIOUS
      <3>1. row.room = "active"
        BY <3>0
      <3>2. client' = [client EXCEPT ![request[r].id] = row]
        BY <1>1, <2>1, <3>0 DEF ClientInsert
      <3>3. client'[c].room = client[c].room \/ client'[c].room = "active"
        BY <1>0, <3>1, <3>2
      <3>4. /\ request[r].step \notin SocketSteps /\ UNCHANGED <<account, employs, session, slipped>>
        BY <1>1, <2>1 DEF ClientInsert, history, SocketSteps
      <3> QED
        BY <1>a, <3>3, <3>4
    <2> QED
      BY <1>b, <2>1
  <1>2. CASE ClientEnlist(r) \/ OldSelect(r) \/ SetAnswer(r) \/ DeleteScope(r) \/ PasswordWrite(r)
    <2>1. CASE ~Abort(r)
      <3>1. /\ request[r].step \notin SocketSteps
            /\ UNCHANGED <<account, client, employs, session, slipped>>
        BY <1>2, <2>1 DEF ClientEnlist, OldSelect, SetAnswer, DeleteScope, PasswordWrite,
                          tables, history, SocketSteps
      <3> QED
        BY <1>a, <3>1
    <2> QED
      BY <1>b, <2>1
  <1>3. ASSUME NEW d, NEW status, NEW active,
               client' = [client EXCEPT ![d].status = status, ![d].active = active]
        PROVE  client'[c].room = client[c].room
    BY <1>0, <1>3 DEF Profile
  <1>4. CASE ClientWrite(r)
    <2>1. CASE ~Abort(r)
      <3>1. client'[c].room = client[c].room
        BY <1>3, <1>4, <2>1 DEF ClientWrite
      <3>2. /\ request[r].step \notin SocketSteps /\ UNCHANGED <<account, employs, session>>
            /\ slipped \subseteq slipped'
        BY <1>4, <2>1 DEF ClientWrite, SocketSteps
      <3> QED
        BY <1>a, <3>1, <3>2
    <2> QED
      BY <1>b, <2>1
  <1>5. ASSUME NEW by, NEW d, NEW status, ClientSet(r, by, d, status) PROVE SocketAt(u, c)'
    <2>1. client'[c].room = client[c].room
      BY <1>3, <1>5 DEF ClientSet
    <2>2. /\ request[r].step \notin SocketSteps /\ UNCHANGED <<account, employs, session, slipped>>
      BY <1>5 DEF ClientSet, Begin, history, SocketSteps
    <2> QED
      BY <1>a, <2>1, <2>2
  <1>6. CASE RoomSet(r)
    <2>1. PICK room : room = (IF request[r].status = "active" THEN "active" ELSE "read_only")
      OBVIOUS
    <2>2. /\ client' = [client EXCEPT ![request[r].id].room = IF @ = "none" THEN @ ELSE room]
          /\ request[r].step \notin SocketSteps /\ UNCHANGED <<account, employs, session>>
      BY <1>6, <2>1 DEF RoomSet, SocketSteps
    <2>3. client[c].room # "none" => client'[c].room # "none"
      BY <1>0, <2>1, <2>2 DEF Profile
    <2>4. SessionMarkStays(u, c)
      BY <1>6, MarksDiffer DEF RoomSet, SessionMarkStays
    <2> QED
      BY <1>0, <2>2, <2>3, <2>4, SocketAside DEF Working, Exists
  <1>7. CASE DeleteAll(r)
    <2>1. PICK d : d = request[r].id
      OBVIOUS
    <2>2. PICK old, given : old = request[r].old /\ given = request[r].given
      OBVIOUS
    <2>3. /\ employs' = [p \in Pair |-> IF p[2] = d THEN "none" ELSE employs[p]]
          /\ slipped' = slipped \cup {<<"session", v, d>> :
                            v \in {w \in Recruiter \ (old \cup given) : <<w, d>> \in session}}
          /\ Goto(r, "insert") /\ request[r].step = "delete_all"
          /\ UNCHANGED <<account, client, session>>
      BY <1>7, <2>1, <2>2 DEF DeleteAll
    <2>4. CASE d # c
      <3>1. employs'[<<u, c>>] = employs[<<u, c>>]
        BY <1>0, <2>3, <2>4
      <3> QED
        BY <1>a, <2>3, <3>1 DEF SocketSteps
    <2>5. CASE d = c
      <3>1. request[r].want = given
        BY <1>0, <2>2, <2>3 DEF Locals, Sound
      <3>2. /\ request'[r].id = d /\ request'[r].step = "insert" /\ request'[r].want = given
            /\ request'[r].old = old /\ request'[r].given = given
        BY <1>0, <2>1, <2>2, <2>3, <3>1 DEF Goto, Local
      <3>3. <<u, c>> \in session /\ u \notin old \cup given => <<"session", u, c>> \in slipped'
        BY <2>3, <2>5
      <3>4. <<u, c>> \in session' /\ ~Excused(u, c)' => ReassigningBy(request'[r], u, c)
        BY <2>3, <2>5, <3>2, <3>3 DEF ReassigningBy, Excused
      <3>5. ~EvictingBy(request[r], u, c)
        BY <2>3 DEF EvictingBy
      <3>6. SessionMarkStays(u, c)
        BY <2>3 DEF SessionMarkStays
      <3>7. SocketKept(r, u, c)
        BY <2>3, <3>4, <3>5, <3>6 DEF SocketKept, Working, Exists
      <3> QED
        BY <1>0, <3>7, SocketStays
    <2> QED
      BY <2>4, <2>5
  <1>8. ASSUME NEW v, InsertOne(r, v) PROVE SocketAt(u, c)'
    <2>1. CASE ~Abort(r)
      <3>1. /\ request[r].step = "insert" /\ employs' = [employs EXCEPT ![<<v, request[r].id>>] = "active"]
            /\ Wrote(r, v) /\ UNCHANGED <<account, client, session, slipped>>
        BY <1>8, <2>1 DEF InsertOne, history
      <3>2. request'[r] = [request[r] EXCEPT !.want = @ \ {v}]
        BY <1>0, <3>1 DEF Wrote
      <3>3. /\ request'[r].id = request[r].id /\ request'[r].step = "insert"
            /\ request'[r].want = request[r].want \ {v}
            /\ request'[r].old = request[r].old /\ request'[r].given = request[r].given
        BY <1>0, <3>1, <3>2 DEF Local
      <3>4. employs'[<<u, c>>] = IF <<u, c>> = <<v, request[r].id>> THEN "active" ELSE employs[<<u, c>>]
        BY <1>0, <3>1
      <3>5. ~EvictingBy(request[r], u, c)
        BY <3>1 DEF EvictingBy
      <3>6. ReassigningBy(request[r], u, c) =>
              ReassigningBy(request'[r], u, c) \/ employs'[<<u, c>>] = "active"
        BY <3>1, <3>3, <3>4 DEF ReassigningBy
      <3>7. SocketKept(r, u, c)
        BY <3>1, <3>4, <3>5, <3>6 DEF SocketKept, Working, Exists, SessionMarkStays
      <3> QED
        BY <1>0, <3>7, SocketStays
    <2> QED
      BY <1>b, <2>1
  <1>9. CASE InsertTell(r) \/ AssignTell(r) \/ UnassignTell(r)
    <2>1. PICK removed : /\ Tell(r, request[r].id, removed)
                         /\ request[r].step \notin {"pause", "evict", "evicting"}
                         /\ ReassigningBy(request[r], u, c) => request[r].id = c /\ u \in removed
      <3>1. CASE InsertTell(r)
        <4>1. ReassigningBy(request[r], u, c) => request[r].id = c /\ u \in request[r].old \ request[r].given
          BY <3>1 DEF InsertTell, ReassigningBy
        <4> QED
          BY <3>1, <4>1 DEF InsertTell
      <3>2. CASE AssignTell(r)
        <4>1. ~ReassigningBy(request[r], u, c)
          BY <3>2 DEF AssignTell, ReassigningBy
        <4> QED
          BY <3>2, <4>1 DEF AssignTell
      <3>3. CASE UnassignTell(r)
        <4>1. ReassigningBy(request[r], u, c) => request[r].id = c /\ u \in {request[r].other}
          BY <3>3 DEF UnassignTell, ReassigningBy
        <4> QED
          BY <3>3, <4>1 DEF UnassignTell
      <3> QED
        BY <1>9, <3>1, <3>2, <3>3
    <2> QED
      BY <1>0, <2>1, TellSockets
  <1>10. CASE DeleteRoom(r) \/ DeleteStaff(r) \/ DeleteClient(r)
    <2>1. CASE ~Abort(r)
      <3>1. PICK d : d = request[r].id
        OBVIOUS
      <3>2. /\ slipped' = slipped \cup Stranded(d) /\ request[r].step \notin SocketSteps
            /\ UNCHANGED <<account, session>>
        BY <1>10, <2>1, <3>1 DEF DeleteRoom, DeleteStaff, DeleteClient, SocketSteps
      <3>3. CASE d = c
        <4>1. <<u, c>> \in session => <<"session", u, c>> \in slipped'
          BY <3>2, <3>3 DEF Stranded
        <4> QED
          BY <3>2, <4>1 DEF SocketAt, Excused
      <3>4. CASE d # c
        <4>1. employs'[<<u, c>>] = employs[<<u, c>>]
          BY <1>0, <1>10, <2>1, <3>1, <3>4 DEF DeleteRoom, DeleteStaff, DeleteClient
        <4>2. client'[c] = client[c]
          BY <1>0, <1>10, <2>1, <3>1, <3>4 DEF DeleteRoom, DeleteStaff, DeleteClient
        <4> QED
          BY <1>a, <3>2, <4>1, <4>2
      <3> QED
        BY <3>3, <3>4
    <2> QED
      BY <1>b, <2>1
  <1>11. ASSUME NEW v, AssignUpsert(r, v) PROVE SocketAt(u, c)'
    <2>1. CASE ~Abort(r)
      <3>1. /\ request[r].step \notin SocketSteps
            /\ employs' = [employs EXCEPT ![<<v, request[r].id>>] = "active"]
            /\ UNCHANGED <<account, client, session, slipped>>
        BY <1>11, <2>1 DEF AssignUpsert, history, SocketSteps
      <3>2. employs[<<u, c>>] = "active" => employs'[<<u, c>>] = "active"
        BY <1>0, <3>1
      <3> QED
        BY <1>a, <3>1, <3>2
    <2> QED
      BY <1>b, <2>1
  <1>12. ASSUME NEW by, NEW v, NEW d, Unassign(r, by, v, d) PROVE SocketAt(u, c)'
    <2>1. PICK row : row = IF employs[<<v, d>>] = "active" THEN "inactive" ELSE employs[<<v, d>>]
      OBVIOUS
    <2>2. /\ Begin(r, [Idle EXCEPT !.step = "leave", !.id = d, !.other = v])
          /\ employs' = [employs EXCEPT ![<<v, d>>] = row]
          /\ UNCHANGED <<account, client, session, slipped>>
      BY <1>0, <1>12, <2>1 DEF Unassign, history
    <2>3. request'[r].step = "leave" /\ request'[r].id = d /\ request'[r].other = v
      BY <1>0, <2>2 DEF Begin, Idle
    <2>4. employs'[<<u, c>>] = employs[<<u, c>>] \/ (v = u /\ d = c)
      BY <1>0, <2>2
    <2>5. ~EvictingBy(request[r], u, c) /\ ~ReassigningBy(request[r], u, c)
      BY <2>2 DEF Begin, EvictingBy, ReassigningBy
    <2>6. SocketKept(r, u, c)
      BY <2>2, <2>3, <2>4, <2>5 DEF SocketKept, Working, Exists, SessionMarkStays, ReassigningBy
    <2> QED
      BY <1>0, <2>6, SocketStays
  <1>13. ASSUME NEW new, Begin(r, new), UNCHANGED <<account, client, employs, session, slipped>>
         PROVE  SocketAt(u, c)'
    BY <1>a, <1>13 DEF Begin, SocketSteps
  <1>14. ASSUME NEW by, NEW d, NEW staff,
                \/ ClientDeleteCheck(r, d) \/ ClientCreateCheck(r, by, d) \/ PasswordCheck(r, by, d)
                \/ AssignCheck(r, by, d, staff)
         PROVE  SocketAt(u, c)'
    BY <1>13, <1>14 DEF ClientDeleteCheck, ClientCreateCheck, PasswordCheck, AssignCheck, tables, history
  <1>15. ASSUME NEW by, NEW d, NEW status, NEW active, NEW replace, NEW staff,
                ClientRead(r, by, d, status, active, replace, staff)
         PROVE  SocketAt(u, c)'
    BY <1>13, <1>15 DEF ClientRead, tables, history
  <1>16. CASE \E by \in Caller, d \in Client :
       \/ ClientCreateCheck(r, by, d) \/ PasswordCheck(r, by, d)
       \/ \E status \in Life : ClientSet(r, by, d, status)
       \/ \E status \in StatusAsked, active \in ActiveAsked :
            \/ ClientRead(r, by, d, status, active, FALSE, {})
            \/ \E staff \in SUBSET Recruiter : ClientRead(r, by, d, status, active, TRUE, staff)
       \/ \E staff \in SUBSET Recruiter : AssignCheck(r, by, d, staff)
       \/ \E v \in Recruiter : Unassign(r, by, v, d)
    BY <1>5, <1>12, <1>14, <1>15, <1>16
  <1> QED
    BY <1>1, <1>2, <1>4, <1>6, <1>7, <1>8, <1>9, <1>10, <1>11, <1>14, <1>16 DEF ClientHandlers

LEMMA RequestSockets ==
  ASSUME IInv, NEW u \in Recruiter, NEW c \in Client, SocketAt(u, c), NEW r \in Request,
         \/ RecruiterHandlers(r) \/ TargetHandlers(r) \/ ClientHandlers(r) \/ SubAdminHandlers(r)
         \/ RequestLost(r)
  PROVE  SocketAt(u, c)'
  BY RecruiterSockets, TargetSockets, ClientSockets, SubAdminSockets, SocketAbort DEF RequestLost, IInv

SocketsKept == \A u \in Recruiter, c \in Client : SocketAt(u, c)

LEMMA SocketStep ==
  ASSUME IInv, [Next]_vars, SocketsKept
  PROVE  SocketsKept'
  <1> SUFFICES ASSUME NEW u \in Recruiter, NEW c \in Client PROVE SocketAt(u, c)'
    BY DEF SocketsKept
  <1>0. /\ SocketAt(u, c) /\ u \in Staff /\ client \in [Client -> Profile] /\ client[c] \in Profile
    BY Ids DEF SocketsKept, IInv, TypeOK
  <1>1. ASSUME UNCHANGED <<account, employs, cut, request>>,
               client[c].room # "none" => client'[c].room # "none",
               <<u, c>> \in session' => <<u, c>> \in session /\ SessionMarkStays(u, c)
        PROVE  SocketAt(u, c)'
    BY <1>0, <1>1 DEF SocketAt, Excused, SessionMarkStays, Working, Exists
  <1>2. ASSUME NEW r \in Request,
               \/ RecruiterHandlers(r) \/ TargetHandlers(r) \/ ClientHandlers(r)
               \/ SubAdminHandlers(r) \/ RequestLost(r)
        PROVE  SocketAt(u, c)'
    BY <1>0, <1>2, RequestSockets
  <1>3. ASSUME NEW d, SyncWorkspace(d) PROVE SocketAt(u, c)'
    <2>1. client' = [client EXCEPT ![d].room = "active"]
      BY <1>3 DEF SyncWorkspace
    <2>2. client[c].room # "none" => client'[c].room # "none"
      BY <1>0, <2>1 DEF Profile
    <2>3. UNCHANGED <<account, employs, cut, request, session>> /\ SessionMarkStays(u, c)
      BY <1>3 DEF SyncWorkspace, SessionMarkStays
    <2> QED
      BY <1>1, <2>2, <2>3
  <1>4. ASSUME NEW by, NEW d, NEW room \in {"active", "read_only", "archived"}, RoomSwitch(by, d, room)
        PROVE  SocketAt(u, c)'
    <2>1. client' = [client EXCEPT ![d].room = room]
      BY <1>4 DEF RoomSwitch
    <2>2. client[c].room # "none" => client'[c].room # "none"
      BY <1>0, <2>1 DEF Profile
    <2>3. UNCHANGED <<account, employs, cut, request, session>> /\ SessionMarkStays(u, c)
      BY <1>4 DEF RoomSwitch, SessionMarkStays
    <2> QED
      BY <1>1, <2>2, <2>3
  <1>5. ASSUME NEW v \in Recruiter, NEW d \in Client, Enter(v, d) PROVE SocketAt(u, c)'
    <2>1. CASE <<u, c>> = <<v, d>>
      <3>1. client[c].room # "none" /\ Working(u) /\ employs[<<u, c>>] = "active"
        BY <1>5, <2>1, Ids DEF Enter, Member, Working
      <3>2. client' = client /\ account' = account /\ employs' = employs
        BY <1>5 DEF Enter
      <3> QED
        BY <3>1, <3>2 DEF SocketAt, Working, Exists
    <2>2. CASE <<u, c>> # <<v, d>>
      <3>1. UNCHANGED <<account, client, employs, request, slipped, cut>>
        BY <1>5 DEF Enter, control, history
      <3>2. <<u, c>> \in session' => <<u, c>> \in session
        BY <1>5, <2>2 DEF Enter
      <3> QED
        BY <1>1, <3>1, <3>2 DEF SessionMarkStays
    <2> QED
      BY <2>1, <2>2
  <1>6. ASSUME NEW v, NEW d, Exit(v, d) PROVE SocketAt(u, c)'
    <2>1. UNCHANGED <<account, client, employs, request, cut>>
      BY <1>6 DEF Exit, control
    <2>2. session' = session \ {<<v, d>>} /\ slipped' = slipped \ {<<"session", v, d>>}
      BY <1>6 DEF Exit
    <2>3. <<u, c>> \in session' => <<u, c>> \in session /\ SessionMarkStays(u, c)
      <3>1. <<"session", u, c>> = <<"session", v, d>> => <<u, c>> = <<v, d>>
        OBVIOUS
      <3> QED
        BY <2>2, <3>1 DEF SessionMarkStays
    <2> QED
      BY <1>1, <2>1, <2>3
  <1>7. CASE UNCHANGED vars
    BY <1>1, <1>7 DEF vars, tables, control, history, SessionMarkStays
  <1> QED
    BY <1>2, <1>3, <1>4, <1>5, <1>6, <1>7 DEF Next

LEMMA InitSockets == Init => SocketsKept
  <1> SUFFICES ASSUME Init, NEW u \in Recruiter, NEW c \in Client, <<u, c>> \in session
               PROVE  client[c].room # "none" /\ Working(u) /\ employs[<<u, c>>] = "active"
    BY DEF SocketsKept, SocketAt
  <1>0. <<u, c>> \in Pair /\ u \in Staff /\ u \notin SubAdmin
    BY Pairs, Ids
  <1>1. PICK m \in SubAdmin, kind \in {"none", "new", "works", "rests"},
             life \in {"none", "active", "inactive"}, appointed \in SUBSET SubAdmin :
       /\ m \in appointed
       /\ kind # "none" => appointed = SubAdmin
       /\ account = [v \in Staff |-> IF v \in appointed THEN Hired(Admin)
                                     ELSE IF v \in SubAdmin \/ kind = "none" THEN NoRow
                                     ELSE IF kind = "rests" THEN Resting(m) ELSE Hired(m)]
       /\ client = [d \in Client |->
            IF life = "none" THEN NoClient
            ELSE [status |-> life, active |-> life = "active", manager |-> m,
                  room |-> IF life = "active" THEN "active" ELSE "read_only"]]
       /\ employs = [p \in Pair |-> IF kind # "none" /\ life # "none" THEN "active" ELSE "none"]
       /\ target = [p \in Pair |-> IF ~(kind # "none" /\ life # "none") \/ kind = "new" THEN "none"
                                   ELSE IF kind = "works" THEN "active" ELSE "paused"]
       /\ session = IF (kind # "none" /\ life # "none") /\ kind # "rests" THEN Pair ELSE {}
       /\ portal = IF life = "active" THEN Client ELSE {}
       /\ scope = {<<m, v>> : v \in {w \in Recruiter : kind # "none"}}
                    \cup {<<m, d>> : d \in {e \in Client : life # "none"}}
    BY Zenon DEF Init
  <1>2. kind # "none" /\ life # "none" /\ kind # "rests"
    BY <1>1
  <1>3. employs[<<u, c>>] = "active"
    BY <1>0, <1>1, <1>2
  <1>4. account[u] = Hired(m)
    BY <1>0, <1>1, <1>2
  <1>5. Working(u)
    BY <1>0, <1>4 DEF Working, Exists, Hired
  <1>6. PICK room : room = IF life = "active" THEN "active" ELSE "read_only"
    OBVIOUS
  <1>7. client[c].room = room
    BY <1>1, <1>2, <1>6
  <1> QED
    BY <1>3, <1>5, <1>6, <1>7

LEMMA KeptEntitles == TypeOK /\ SocketsKept => SocketsOfEntitled
  <1> SUFFICES ASSUME TypeOK, SocketsKept, NEW p \in session
               PROVE  \/ Member(p[1], p[2])
                      \/ <<"session", p[1], p[2]>> \in slipped
                      \/ {p[1], p[2]} \cap cut # {}
                      \/ Pending(p[1], p[2])
    BY DEF SocketsOfEntitled
  <1>1. PICK u \in Recruiter, c \in Client : p = <<u, c>>
    BY DEF TypeOK, Pair
  <1>2. SocketAt(u, c)
    BY DEF SocketsKept
  <1>3. CASE Excused(u, c)
    BY <1>1, <1>3 DEF Excused
  <1>4. ASSUME NEW r \in Request, EvictingBy(request[r], u, c) \/ ReassigningBy(request[r], u, c)
        PROVE  Pending(u, c)
    BY <1>4 DEF EvictingBy, ReassigningBy, Pending
  <1>5. CASE client[c].room # "none" /\ Working(u) /\ employs[<<u, c>>] = "active"
    BY <1>1, <1>5 DEF Member, Working
  <1> QED
    BY <1>1, <1>2, <1>3, <1>4, <1>5 DEF SocketAt

-----------------------------------------------------------------------------
(* The pages agree, because no table refers to a row that is gone.         *)

LEMMA PagesOfCaller ==
  ASSUME IInv, NEW by \in Caller
  PROVE  /\ ListedEmployees(by, "all") = ListedUsers(by, "all") \cap Recruiter
         /\ ListedEmployees(by, "") \cup ListedEmployees(by, "archived")
              = ListedEmployees(by, "all")
         /\ \A p \in ListedTargets(by) :
              p[1] \in ListedUsers(by, "all") \/ p[2] \in ListedClients(by, "all")
  <1>1. ListedEmployees(by, "all") = ListedUsers(by, "all") \cap Recruiter
    BY DEF ListedEmployees, ListedUsers
  <1>2. ListedEmployees(by, "") \cup ListedEmployees(by, "archived") = ListedEmployees(by, "all")
    BY DEF ListedEmployees
  <1>3. ASSUME NEW p \in ListedTargets(by)
        PROVE  p[1] \in ListedUsers(by, "all") \/ p[2] \in ListedClients(by, "all")
    <2>1. PICK u \in Recruiter, c \in Client : p = <<u, c>>
      BY DEF ListedTargets, Pair
    <2>2. by \notin Recruiter
      BY IdAssumption DEF Caller
    <2>3. target[<<u, c>>] # "none" /\ (u \in ScopedStaff(by) \/ c \in ScopedClients(by))
      BY <2>1, <2>2 DEF ListedTargets
    <2>4. Exists(u) /\ Known(c)
      BY <2>3 DEF IInv, References
    <2> QED
      BY <2>1, <2>3, <2>4 DEF ListedUsers, ListedClients
  <1> QED
    BY <1>1, <1>2, <1>3

LEMMA PagesOfSubAdmin ==
  ASSUME IInv, NEW s \in SubAdmin
  PROVE  /\ Assignments(s) = ListedUsers(s, "all") \cup ListedClients(s, "all")
         /\ CountedAssignments(s) \subseteq Assignments(s)
  <1>0. s # Admin /\ s # Nobody /\ Recruiter \subseteq Staff /\ Recruiter \cap Client = {}
    BY Ids
  <1>1. \A u \in Recruiter : <<s, u>> \in scope => Exists(u)
    BY <1>0 DEF IInv, References, Present
  <1>2. \A c \in Client : <<s, c>> \in scope => Known(c)
    BY <1>0 DEF IInv, References, Present
  <1>3. \A u \in Staff : account[u].manager = s => Exists(u)
    BY <1>0 DEF IInv, References
  <1>4. \A c \in Client : client[c].manager = s => Known(c)
    BY <1>0 DEF IInv, References
  <1>5. ScopedStaff(s) \cap Staff = ListedUsers(s, "all")
    BY <1>0, <1>1, <1>3 DEF ScopedStaff, ListedUsers, Exists
  <1>6. ScopedClients(s) = ListedClients(s, "all")
    BY <1>0, <1>2, <1>4 DEF ScopedClients, ListedClients
  <1>7. CountedAssignments(s) \subseteq Assignments(s)
    BY <1>0 DEF CountedAssignments, Assignments, ScopedStaff, ScopedClients
  <1> QED
    BY <1>5, <1>6, <1>7 DEF Assignments

LEMMA PagesOfRecruiter ==
  ASSUME IInv, NEW u \in Recruiter
  PROVE  /\ LiveTargets(u) \subseteq ListedTargets(u)
         /\ \A c \in Client :
              u \in AssignedStaff(c) <=> c \in AssignedClients(u) /\ account[u].active
  <1>1. LiveTargets(u) \subseteq ListedTargets(u)
    BY DEF LiveTargets, ListedTargets
  <1>2. ASSUME NEW c \in Client, employs[<<u, c>>] = "active" PROVE Exists(u) /\ Known(c)
    BY <1>2 DEF IInv, References
  <1> QED
    BY <1>1, <1>2 DEF AssignedStaff, AssignedClients

LEMMA PagesOfRoom ==
  ASSUME IInv, NEW c \in Client, NEW u \in Staff \cup {Admin}
  PROVE  /\ Member(u, c) <=> c \in ListedRooms(u)
         /\ c \in CountedRooms(u) <=> c \in ListedRooms(u)
         /\ client[c].room # "none" => (u \in Participants(c) <=> Member(u, c))
  <1>1. CASE u = Admin
    BY <1>1 DEF Member, ListedRooms, AuthorizedClients, CountedRooms, Participants
  <1>2. CASE u # Admin /\ u \in SubAdmin
    <2>1. u \notin Recruiter /\ u \in Staff
      BY <1>2, Ids
    <2> QED
      BY <1>2, <2>1 DEF Member, ListedRooms, AuthorizedClients, CountedRooms, Participants
  <1>3. CASE u # Admin /\ u \in Recruiter
    <2>1. u \notin SubAdmin /\ u \in Staff
      BY <1>3, Ids
    <2>2. client[c].manager # u /\ <<u, c>> \notin scope
      <3>1. client[c] \in Profile /\ scope \subseteq SubAdmin \X Id
        BY DEF IInv, TypeOK
      <3>2. client[c].manager \in Caller \cup {Nobody}
        BY <3>1 DEF Profile, Manager
      <3> QED
        BY <1>3, <2>1, <3>1, <3>2, IdAssumption DEF Caller
    <2> QED
      BY <1>3, <2>1, <2>2 DEF Member, ListedRooms, AuthorizedClients, CountedRooms, Participants
  <1> QED
    BY <1>1, <1>2, <1>3 DEF Staff

LEMMA PagesAlike == IInv => ViewsAgree
  BY PagesOfCaller, PagesOfSubAdmin, PagesOfRecruiter, PagesOfRoom DEF ViewsAgree

(* Who holds a socket of a room is let into it still, but for the windows  *)
(* of the definition, and all pages and the rooms show the same pairs of   *)
(* accounts and clients: whatever the handlers of employees.ts, users.ts,  *)
(* clients.ts, subAdmins.ts and targets.ts do between each other's         *)
(* statements.                                                             *)
THEOREM Entitled == Spec => []EntitledAlike
  <1>1. IInv /\ SocketsKept => EntitledAlike
    BY KeptEntitles, PagesAlike DEF EntitledAlike, IInv
  <1>2. IInv /\ [Next]_vars /\ SocketsKept => SocketsKept'
    BY SocketStep
  <1> QED
    BY <1>1, <1>2, InitSockets, Referential, PTL DEF Spec
====
