------------------------------ MODULE Applications ------------------------------
(***************************************************************************)
(* The handlers of routes/applications.ts.  PATCH .../notes writes columns *)
(* that nothing here tells apart, and is left out.                         *)
(***************************************************************************)
EXTENDS ResumeRows

(* GET /applications.                                                      *)
ListedApplications(by) ==
  {a \in Application : /\ Kept(application, a)
                       /\ Global(by) \/ application[a].client \in ScopeOf(by)}

(* GET /applications/stats: the applications that are counted in a stage,  *)
(* which is told from the words of the status.                             *)
Stage(a) == IF application[a].status \in {"Closed", "Archived"} THEN "closed" ELSE "submitted"

StatsOf(by, stage) ==
  {a \in Application : /\ Kept(application, a) /\ Stage(a) = stage
                       /\ Global(by) \/ application[a].client \in ScopeOf(by)}

(* GET /applications/:id/timeline, newest event first.                     *)
ServedTimeline(by, a) ==
  /\ Kept(application, a)
  /\ Global(by) \/ application[a].client \in ScopeOf(by)

(* Ids are fresh.                                                          *)
Fresh(a) ==
  /\ application[a].life = "none"
  /\ \A b \in Application : b < a => application[b].life # "none"

Twins(m, c) ==
  {a \in Application : /\ Kept(application, a)
                       /\ application[a].resume = m /\ application[a].client = c}

(* A confirmation has looked for an application of m for c and found none. *)
Looked(r, m, c) ==
  \E q \in Request : /\ q # r /\ request[q].step = "mail_insert"
                     /\ request[q].resume = m /\ request[q].client = c

(* The row of a new application is written: its resume and opening must    *)
(* exist.                                                                  *)
InsertApplication(a, m, c, o, round) ==
  /\ Fresh(a)
  /\ application' = [application EXCEPT ![a] =
       [life |-> "kept", status |-> "open", round |-> round,
        resume |-> m, client |-> c, opening |-> o]]

(* POST /applications: the client of the request, or that of the resume.   *)
ApplicationSelect(r, m, c, o) ==
  /\ Begin(r, [Idle EXCEPT !.step = "application_insert", !.resume = m, !.opening = o,
                           !.client = IF c = Nobody THEN resume[m].client ELSE c])
  /\ Kept(resume, m)
  /\ UNCHANGED <<tables, slipped>>

(* Nothing looks for an application that is already there.                 *)
ApplicationInsert(r) ==
  LET q == request[r]
      fits == Kept(resume, q.resume) /\ Refers(opening, q.opening) IN
  /\ q.step = "application_insert"
  /\ \/ /\ fits
        /\ \E a \in Application :
             /\ InsertApplication(a, q.resume, q.client, q.opening, "initial")
             /\ request' = [request EXCEPT ![r].step = "created_event", ![r].application = a]
        /\ slipped' = slipped \cup Linked(q.opening, "applications")
             \cup (IF Twins(q.resume, q.client) # {} \/ Looked(r, q.resume, q.client)
                   THEN {<<"twin", q.resume, q.client>>} ELSE {})
        /\ UNCHANGED <<opening, resume, timeline, intake, started>>
     \/ ~fits /\ Abort(r)

(* The event needs its application, and its mail if it names one.          *)
Record(a, kind, round, mail) ==
  timeline' = [timeline EXCEPT ![a] = Append(@, [kind |-> kind, round |-> round, mail |-> mail])]

(* The INSERTs of the two handlers of this module name a column,           *)
(* created_by_id, that the schema of the repository does not have (Intake  *)
(* writes created_by): they fail unless the database was altered by hand.  *)
EventFails == "column" \in Fault

CreatedEvent(r) ==
  LET q == request[r]
      fits == Kept(application, q.application) IN
  /\ q.step = "created_event"
  /\ \/ /\ fits
        /\ Record(q.application, "created", "initial", 0)
        /\ Answer(r)
        /\ UNCHANGED <<opening, resume, application, intake, slipped>>
     \/ (~fits \/ EventFails) /\ Abort(r)

(* PATCH and PUT /applications/:id/status: the status of the request, and  *)
(* its round or the one that was read.                                     *)
StatusSelect(r, a, status, round) ==
  /\ Begin(r, [Idle EXCEPT !.step = "status_update", !.application = a, !.status = status,
                           !.round = IF round = "same" THEN application[a].round ELSE round])
  /\ Kept(application, a)
  /\ UNCHANGED <<tables, slipped>>

(* The handler records the status, not the round: a round that it changes  *)
(* is not told by the timeline.                                            *)
StatusUpdate(r) ==
  LET q == request[r]
      a == q.application IN
  /\ q.step = "status_update"
  /\ application' = [application EXCEPT ![a] =
       IF @.life = "kept" THEN [@ EXCEPT !.status = q.status, !.round = q.round] ELSE @]
  /\ slipped' = IF q.round # application[a].round THEN slipped \cup {<<"round", a>>} ELSE slipped
  /\ Goto(r, "status_event")
  /\ UNCHANGED <<opening, resume, timeline, intake>>

StatusEvent(r) ==
  LET q == request[r]
      fits == Kept(application, q.application) IN
  /\ q.step = "status_event"
  /\ \/ /\ fits
        /\ Record(q.application, "status", "none", 0)
        /\ Answer(r)
        /\ UNCHANGED <<opening, resume, application, intake, slipped>>
     \/ (~fits \/ EventFails) /\ Abort(r)

(* POST .../close and .../archive: one statement, and no event.            *)
SetStatus(a, status) ==
  /\ Kept(application, a)
  /\ Start
  /\ application' = [application EXCEPT ![a].status = status]
  /\ UNCHANGED <<opening, resume, timeline, intake, request, slipped>>

CloseApplication(a) == SetStatus(a, "Closed")
ArchiveApplication(a) == SetStatus(a, "Archived")

(* DELETE /applications/:id, for an administrator: the events, then the    *)
(* row; events that were written in between go with the row.               *)
ApplicationDeleteSelect(r, a) ==
  /\ Begin(r, [Idle EXCEPT !.step = "no_events", !.application = a])
  /\ Kept(application, a)
  /\ UNCHANGED <<tables, slipped>>

DeleteEvents(r) ==
  LET a == request[r].application IN
  /\ request[r].step = "no_events"
  /\ timeline' = [timeline EXCEPT ![a] = <<>>]
  /\ slipped' = slipped \cup EventMails({a})
  /\ Goto(r, "no_application")
  /\ UNCHANGED <<opening, resume, application, intake>>

DeleteApplication(r) ==
  LET a == request[r].application IN
  /\ request[r].step = "no_application"
  /\ application' = [application EXCEPT ![a] = [NoApplication EXCEPT !.life = "gone"]]
  /\ timeline' = [timeline EXCEPT ![a] = <<>>]
  /\ slipped' = slipped \cup EventMails({a})
  /\ Answer(r)
  /\ UNCHANGED <<opening, resume, intake>>

ApplicationHandlers(r) ==
  \/ \E m \in Resume, c \in Client \cup {Nobody}, o \in Opening \cup {Nobody} :
       ApplicationSelect(r, m, c, o)
  \/ ApplicationInsert(r) \/ CreatedEvent(r)
  \/ \E a \in Application :
       \/ \E round \in RoundAsked \cup {"same"} : StatusSelect(r, a, "open", round)
       \/ CloseApplication(a) \/ ArchiveApplication(a)
       \/ ApplicationDeleteSelect(r, a)
  \/ StatusUpdate(r) \/ StatusEvent(r) \/ DeleteEvents(r) \/ DeleteApplication(r)

=============================================================================
