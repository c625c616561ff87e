-------------------------------- MODULE Openings --------------------------------
(***************************************************************************)
(* The handlers of routes/requirements.ts.                                 *)
(***************************************************************************)
EXTENDS Hiring

(* GET /requirements: a portal user sees the openings of its client; the   *)
(* others see those of their clients, and the global ones.                 *)
ListedOpenings(by) ==
  {o \in Opening : /\ Kept(opening, o)
                   /\ \/ Global(by)
                      \/ opening[o].client \in ScopeOf(by)
                      \/ by \notin Client /\ opening[o].client = Nobody}

(* Mutant of ServedOpening: the line about portal users is left out.       *)
ServedAll(by, o) ==
  /\ Kept(opening, o)
  /\ Global(by) \/ opening[o].client = Nobody \/ opening[o].client \in ScopeOf(by)

(* GET /requirements/:id, and the check of an update.                      *)
ServedOpening(by, o) ==
  /\ Kept(opening, o)
  /\ by \in Client => opening[o].client \in ScopeOf(by)
  /\ Global(by) \/ opening[o].client = Nobody \/ opening[o].client \in ScopeOf(by)

(* GET /chat/rooms/:room_id/jobs: what may be shared in the room of c (an  *)
(* opening for one recruiter is not told from one for all).                *)
RoomJobs(by, c) ==
  {o \in Opening : /\ Global(by) \/ c \in ScopeOf(by)
                   /\ Kept(opening, o)
                   /\ opening[o].client = c /\ opening[o].status = "active"}

(* enrichRequirements: the counts that the page shows with an opening.     *)
ResumesOf(o) == {m \in Resume : Kept(resume, m) /\ resume[m].opening = o}
ApplicationsOf(o) == {a \in Application : Kept(application, a) /\ application[a].opening = o}

(* POST /requirements: not for recruiters.                                 *)
OpeningCreate(o, c, status) ==
  /\ opening[o].life = "none"
  /\ Start
  /\ opening' = [opening EXCEPT ![o] = [life |-> "kept", status |-> status,
                                        completed |-> FALSE, client |-> c]]
  /\ slipped' = IF status = "done" THEN slipped \cup {<<"status", o>>} ELSE slipped
  /\ UNCHANGED <<resume, application, timeline, intake, request>>

(* PUT and PATCH /requirements/:id: the row is read, and written whole but *)
(* for the columns about its completion, with the client c and the status  *)
(* of the request or, where it has none, of the row.                       *)
OpeningSelect(r, o, c, status) ==
  /\ Begin(r, [Idle EXCEPT !.step = "opening_update", !.opening = o,
                           !.client = c, !.status = status])
  /\ {by \in User : ServedOpening(by, o)} # {}
  /\ UNCHANGED <<tables, slipped>>

OpeningUpdate(r) ==
  LET q == request[r] IN
  /\ q.step = "opening_update"
  /\ opening' = [opening EXCEPT ![q.opening] =
       IF @.life = "kept" THEN [@ EXCEPT !.client = q.client, !.status = q.status] ELSE @]
  /\ slipped' = IF q.status # opening[q.opening].status
                THEN slipped \cup {<<"status", q.opening>>} ELSE slipped
  /\ Answer(r)
  /\ UNCHANGED <<resume, application, timeline, intake>>

(* POST .../done, /complete and /close: the row is looked at only for its  *)
(* existence, and the scope of the caller is not.                          *)
DoneSelect(r, o) ==
  /\ Begin(r, [Idle EXCEPT !.step = "done", !.opening = o])
  /\ Kept(opening, o)
  /\ UNCHANGED <<tables, slipped>>

DoneUpdate(r) ==
  LET o == request[r].opening IN
  /\ request[r].step = "done"
  /\ opening' = [opening EXCEPT ![o] =
       IF @.life = "kept" THEN [@ EXCEPT !.status = "done", !.completed = TRUE] ELSE @]
  /\ Answer(r)
  /\ UNCHANGED <<resume, application, timeline, intake, slipped>>

(* Mutant of Reopen: the opening stays marked as completed.                *)
ReopenStatus(o) ==
  /\ Kept(opening, o)
  /\ Start
  /\ opening' = [opening EXCEPT ![o].status = "active"]
  /\ UNCHANGED <<resume, application, timeline, intake, request, slipped>>

(* POST .../reopen: one statement.                                         *)
Reopen(o) ==
  /\ Kept(opening, o)
  /\ Start
  /\ opening' = [opening EXCEPT ![o].status = "active", ![o].completed = FALSE]
  /\ UNCHANGED <<resume, application, timeline, intake, request, slipped>>

(* POST .../archive: one statement.                                        *)
ArchiveOpening(o) ==
  /\ Kept(opening, o)
  /\ Start
  /\ opening' = [opening EXCEPT ![o].status = "archived"]
  /\ UNCHANGED <<resume, application, timeline, intake, request, slipped>>

(* DELETE /requirements/:id ("Safe delete"): two counts run side by side,  *)
(* and the row goes when neither found a link.                             *)
OpeningDeleteSelect(r, o) ==
  /\ Begin(r, [Idle EXCEPT !.step = "count", !.opening = o,
                           !.todo = {"resumes", "applications"}])
  /\ Kept(opening, o)
  /\ UNCHANGED <<tables, slipped>>

(* Mutant of HasLinks: resumes are not counted.                            *)
HasApplications(o, what) == what = "applications" /\ ApplicationsOf(o) # {}

HasLinks(o, what) ==
  IF what = "resumes" THEN ResumesOf(o) # {} ELSE ApplicationsOf(o) # {}

Count(r, what) ==
  LET q == request[r] IN
  /\ q.step = "count" /\ what \in q.todo
  /\ request' = [request EXCEPT ![r].todo = @ \ {what},
                                ![r].linked = @ \/ HasLinks(q.opening, what)]
  /\ UNCHANGED <<tables, started, slipped>>

OpeningRefused(r) ==
  /\ request[r].step = "count" /\ request[r].todo = {} /\ request[r].linked
  /\ Answer(r)
  /\ UNCHANGED <<tables, slipped>>

(* The foreign keys of resumes and applications are set to NULL.           *)
OpeningDelete(r) ==
  LET o == request[r].opening IN
  /\ request[r].step = "count" /\ request[r].todo = {} /\ ~request[r].linked
  /\ opening' = [opening EXCEPT ![o] =
       IF @.life = "kept" THEN [NoOpening EXCEPT !.life = "gone"] ELSE @]
  /\ resume' = [m \in Resume |-> IF resume[m].opening = o
                                 THEN [resume[m] EXCEPT !.opening = Nobody] ELSE resume[m]]
  /\ application' = [a \in Application |->
       IF application[a].opening = o
       THEN [application[a] EXCEPT !.opening = Nobody] ELSE application[a]]
  /\ Answer(r)
  /\ UNCHANGED <<timeline, intake, slipped>>

(* A link to o is made after a deletion of o has counted such links.       *)
Uncounted(o, what) ==
  \E r \in Request : /\ o # Nobody /\ request[r].opening = o
                     /\ request[r].step = "count" /\ what \notin request[r].todo

Linked(o, what) == IF Uncounted(o, what) THEN {<<"link", o>>} ELSE {}

OpeningHandlers(r) ==
  \/ \E o \in Opening :
       \/ \E c \in Client \cup {Nobody}, status \in {"active", "done"} \cup {opening[o].status} :
            OpeningSelect(r, o, c, status)
       \/ DoneSelect(r, o) \/ OpeningDeleteSelect(r, o)
       \/ \E c \in Client \cup {Nobody}, status \in {"active", "done"} : OpeningCreate(o, c, status)
       \/ Reopen(o) \/ ArchiveOpening(o)
  \/ OpeningUpdate(r) \/ DoneUpdate(r)
  \/ \E what \in {"resumes", "applications"} : Count(r, what)
  \/ OpeningRefused(r) \/ OpeningDelete(r)

=============================================================================
