------------------------------- MODULE ResumeRows -------------------------------
(***************************************************************************)
(* The handlers of routes/resumes.ts, as far as the table is concerned; the*)
(* files on Google Drive are in ResumeStore.                               *)
(***************************************************************************)
EXTENDS Openings

(* GET /resumes: the list, restricted to the clients of the caller.        *)
ListedResumes(by) ==
  {m \in Resume : Kept(resume, m) /\ (Global(by) \/ resume[m].client \in ScopeOf(by))}

(* GET /resumes/companies: whose resumes name the companies of the filter. *)
CompanySources(by) ==
  {m \in Resume : Kept(resume, m) /\ (Global(by) \/ resume[m].client \in ScopeOf(by))}

(* GET /resumes/:id, and the checks of an update and of a deletion.        *)
ServedResume(by, m) ==
  /\ Kept(resume, m)
  /\ Global(by) \/ resume[m].client \in ScopeOf(by)

(* Mutant of ServedFile: the scope is not looked at.                       *)
ServedToAll(by, m) == Kept(resume, m)

(* GET /resumes/:id/preview and /download: who is sent on to the file.     *)
ServedFile(by, m) ==
  /\ Kept(resume, m)
  /\ Global(by) \/ resume[m].client \in ScopeOf(by)

(* has_application of the list and of a resume.                            *)
Applied(m) == \E a \in Application : Kept(application, a) /\ application[a].resume = m

(* POST /resumes/upload: only recruiters; the client must exist, but need  *)
(* not be one of theirs.  With an opening that is gone the INSERT fails    *)
(* and is compensated, and nothing changes here.                           *)
ResumeInsert(m, c, o) ==
  /\ resume[m].life = "none"
  /\ Refers(opening, o)
  /\ Start
  /\ resume' = [resume EXCEPT ![m] = [life |-> "kept", client |-> c, opening |-> o]]
  /\ slipped' = slipped \cup Linked(o, "resumes")
  /\ UNCHANGED <<opening, application, timeline, intake, request>>

(* PUT and PATCH /resumes/:id, not for portal users: the opening is that of*)
(* the request or the one that was read, the client is kept by COALESCE.   *)
ResumeSelect(r, m, c, o) ==
  /\ Begin(r, [Idle EXCEPT !.step = "resume_update", !.resume = m, !.client = c,
                           !.opening = o])
  /\ {by \in (User \ Client) : ServedResume(by, m)} # {}
  /\ UNCHANGED <<tables, slipped>>

ResumeUpdate(r) ==
  LET q == request[r]
      fits == Kept(resume, q.resume) => Refers(opening, q.opening) IN
  /\ q.step = "resume_update"
  /\ \/ /\ fits
        /\ resume' = [resume EXCEPT ![q.resume] =
             IF @.life # "kept" THEN @
             ELSE [@ EXCEPT !.opening = q.opening,
                            !.client = IF q.client = "same" THEN resume[q.resume].client
                                       ELSE q.client]]
        /\ slipped' = IF Kept(resume, q.resume)
                      THEN slipped \cup Linked(q.opening, "resumes") ELSE slipped
        /\ Answer(r)
        /\ UNCHANGED <<opening, application, timeline, intake>>
     \/ ~fits /\ Abort(r)

(* DELETE /resumes/:id, by recruiters too: the row is read, then its file  *)
(* is deleted from Drive.                                                  *)
ResumeDeleteSelect(r, m) ==
  /\ Begin(r, [Idle EXCEPT !.step = "erase", !.todo = {m}])
  /\ {by \in (User \ Client) : ServedResume(by, m)} # {}
  /\ UNCHANGED <<tables, slipped>>

(* POST /resumes/cleanup and the cron: the expired rows, any of them.      *)
CleanupSelect(r, expired) ==
  /\ Begin(r, [Idle EXCEPT !.step = "erase", !.todo = expired])
  /\ expired # {} /\ \A m \in expired : Kept(resume, m)
  /\ UNCHANGED <<tables, slipped>>

(* applications.resume_id is ON DELETE CASCADE, and so is the reference of *)
(* the events to their application.                                        *)
Cascade(erased) == {a \in Application : application[a].resume \in erased}

EventMails(apps) ==
  UNION {{<<"mail", timeline[a][i].mail>> : i \in DOMAIN timeline[a]} : a \in apps}

(* Mutant of Erase: the events of the applications are kept.               *)
EraseRows(r) ==
  /\ request[r].step = "erase"
  /\ resume' = [m \in Resume |-> IF m \in request[r].todo
                                 THEN [NoResume EXCEPT !.life = "gone"] ELSE resume[m]]
  /\ Answer(r)
  /\ UNCHANGED <<opening, application, timeline, intake, slipped>>

Erase(r) ==
  LET erased == request[r].todo IN
  /\ request[r].step = "erase"
  /\ resume' = [m \in Resume |-> IF m \in erased
                                 THEN [NoResume EXCEPT !.life = "gone"] ELSE resume[m]]
  /\ application' = [a \in Application |->
       IF a \in Cascade(erased) THEN [NoApplication EXCEPT !.life = "gone"] ELSE application[a]]
  /\ timeline' = [a \in Application |-> IF a \in Cascade(erased) THEN <<>> ELSE timeline[a]]
  /\ slipped' = slipped \cup EventMails(Cascade(erased))
  /\ Answer(r)
  /\ UNCHANGED <<opening, intake>>

ResumeHandlers(r) ==
  \/ \E m \in Resume, c \in Client, o \in Opening \cup {Nobody} : ResumeInsert(m, c, o)
  \/ \E m \in Resume :
       \/ \E c \in Client \cup {"same"}, o \in Opening \cup {Nobody} : ResumeSelect(r, m, c, o)
       \/ ResumeDeleteSelect(r, m)
  \/ \E expired \in SUBSET Resume : CleanupSelect(r, expired)
  \/ ResumeUpdate(r) \/ Erase(r)

=============================================================================
