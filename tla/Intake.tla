--------------------------------- MODULE Intake ---------------------------------
(***************************************************************************)
(* The intake of interview mails: the handlers of routes/ai.ts that preview*)
(* and confirm a mail, and the page AIResponseInboxPage.jsx in between,    *)
(* where a person reviews what the model extracted.  The answer of the     *)
(* model (see AiGateway) and the match of the candidate's name are any.    *)
(***************************************************************************)
EXTENDS Applications

(* GET /ai/inbox and /ai/history.                                          *)
Inbox(by) ==
  {a \in Application : /\ Kept(application, a)
                       /\ Global(by) \/ application[a].client \in ScopeOf(by)}

(* Smart Resume Linking: a resume of the client, or of anybody when no     *)
(* client is selected.                                                     *)
Matches(c) == {m \in Resume : Kept(resume, m) /\ (c = Nobody \/ resume[m].client = c)}

(* The application of the matched resume, whatever its client, or one with *)
(* the name of the candidate.                                              *)
MatchedApplications(m) ==
  {a \in Application : Kept(application, a) /\ (m # Nobody => application[a].resume = m)}

OneOf(set, none) == IF set = {} THEN {none} ELSE set

(* handleAnalyzeEmail and handleAnalyzeFile: the form proposes the selected*)
(* client, or the first one of the list.                                   *)
Proposed(c) == IF c # Nobody THEN {c} ELSE Client

(* POST /ai/analyze-email: nothing is written.                             *)
Analyze(r, c, m, a, form) ==
  /\ request[r] = Idle /\ started < MaxRequest
  /\ m \in Matches(c) \cup {Nobody}
  /\ a \in IF m = Nobody THEN MatchedApplications(m) \cup {0}
           ELSE OneOf(MatchedApplications(m), 0)
  /\ form \in Proposed(c)
  /\ request' = [request EXCEPT ![r] = [Idle EXCEPT !.step = "review", !.resume = m,
                                                   !.application = a, !.client = form]]
  /\ UNCHANGED <<tables, started, slipped>>

(* POST /ai/analyze-file: no application is looked for.                    *)
AnalyzeFile(r, c, m, form) ==
  /\ request[r] = Idle /\ started < MaxRequest
  /\ m \in Matches(c) \cup {Nobody}
  /\ form \in Proposed(c)
  /\ request' = [request EXCEPT ![r] = [Idle EXCEPT !.step = "review", !.resume = m,
                                                   !.client = form]]
  /\ UNCHANGED <<tables, started, slipped>>

(* The person links another resume, one of the client in the form, or      *)
(* none, or changes the client; the matched application stays as it is.    *)
Edit(r, c, m) ==
  /\ request[r].step = "review"
  /\ m = Nobody \/ m = request[r].resume \/ m \in Matches(request[r].client)
  /\ request' = [request EXCEPT ![r].client = c, ![r].resume = m]
  /\ UNCHANGED <<tables, started, slipped>>

(* handleDiscardAnalysis, or a mail that is not related.                   *)
Discard(r) ==
  /\ request[r].step = "review"
  /\ Answer(r)
  /\ UNCHANGED <<tables, slipped>>

(* handleConfirmAndSave; the mail gets the number of the request.          *)
Confirm(r, round) ==
  /\ request[r].step = "review"
  /\ Start
  /\ request' = [request EXCEPT ![r].step = "client", ![r].round = round,
                                ![r].mail = started + 1]
  /\ UNCHANGED <<tables, slipped>>

(* handleDirectIntakeSubmit: no mail, and no application in the payload.   *)
ConfirmDirect(r, c, m, round) ==
  /\ Begin(r, [Idle EXCEPT !.step = "client", !.client = c, !.resume = m,
                           !.round = round, !.mail = started + 1])
  /\ Refers(resume, m)
  /\ UNCHANGED <<tables, slipped>>

(* confirmSave throws and answers 500: the page keeps the form, so that    *)
(* the person may confirm again, as another mail.                          *)
ConfirmFails(r) ==
  /\ request' = [request EXCEPT ![r].step = "review", ![r].mail = 0, ![r].round = "same"]
  /\ slipped' = slipped \cup {<<"lost", request[r].mail>>} \cup Half(r)
  /\ UNCHANGED <<tables, started>>

(* Step 1 and 2: the client of the payload, of the name of the company, or *)
(* the first active one; the mail is stored as processed, if there is one. *)
IntakeInsert(r) ==
  LET q == request[r] IN
  /\ q.step = "client"
  /\ \E c \in IF q.client # Nobody THEN {q.client} ELSE OneOf(ActiveClient, Nobody) :
       /\ intake' = [intake EXCEPT ![q.mail] = c]
       /\ request' = [request EXCEPT ![r].client = c, ![r].step = "find"]
  /\ UNCHANGED <<opening, resume, application, timeline, started, slipped>>

(* Mutant of Candidates: the client is not part of the search.             *)
CandidatesAnyClient(q) ==
  IF q.application # 0 /\ Kept(application, q.application) THEN {q.application}
  ELSE IF q.resume = Nobody \/ q.client = Nobody THEN {}
  ELSE {a \in Application : Kept(application, a) /\ application[a].resume = q.resume}

(* Mutant of Candidates: only the matched application is looked for.       *)
CandidatesMatched(q) ==
  IF q.application # 0 /\ Kept(application, q.application) THEN {q.application} ELSE {}

(* Step 3: the matched application, or one of the resume and the client.   *)
Candidates(q) ==
  IF q.application # 0 /\ Kept(application, q.application) THEN {q.application}
  ELSE IF q.resume = Nobody \/ q.client = Nobody THEN {}
  ELSE Twins(q.resume, q.client)

(* The matched application belongs to another client than the mail.        *)
Elsewhere(q) ==
  /\ q.application # 0 /\ Kept(application, q.application)
  /\ application[q.application].client # q.client

Find(r) ==
  LET q == request[r] IN
  /\ q.step = "find"
  /\ \E a \in OneOf(Candidates(q), 0) :
       request' = [request EXCEPT ![r].application = a,
                                  ![r].step = IF a = 0 THEN "mail_insert" ELSE "mail_update"]
  /\ slipped' = IF Elsewhere(q) THEN slipped \cup {<<"elsewhere", q.mail>>} ELSE slipped
  /\ UNCHANGED <<tables, started>>

(* Another handler has written the round of a, and not its event yet.      *)
Untold(r, a) == \E q \in Request \ {r} : Unrecorded(q, a)

(* Mutant of MailUpdate: the round is left as it was.                      *)
MailUpdateStatus(r) ==
  LET q == request[r]
      a == q.application IN
  /\ q.step = "mail_update"
  /\ \/ /\ Kept(application, a)
        /\ application' = [application EXCEPT ![a].status = "open"]
        /\ slipped' = slipped \cup (IF Untold(r, a) THEN {<<"round", a>>} ELSE {})
        /\ Goto(r, "mail_event")
        /\ UNCHANGED <<opening, resume, timeline, intake>>
     \/ ~Kept(application, a) /\ ConfirmFails(r)

(* The row is updated; when it is gone the handler fails on the answer.    *)
MailUpdate(r) ==
  LET q == request[r]
      a == q.application IN
  /\ q.step = "mail_update"
  /\ \/ /\ Kept(application, a)
        /\ application' = [application EXCEPT ![a].status = "open", ![a].round = q.round]
        /\ slipped' = slipped \cup (IF Untold(r, a) THEN {<<"round", a>>} ELSE {})
        /\ Goto(r, "mail_event")
        /\ UNCHANGED <<opening, resume, timeline, intake>>
     \/ ~Kept(application, a) /\ ConfirmFails(r)

(* A new application, without an opening.  Without a client (none is named *)
(* and none is active) step 3 has looked for nothing.                      *)
MailInsert(r) ==
  LET q == request[r]
      fits == Refers(resume, q.resume) IN
  /\ q.step = "mail_insert"
  /\ \/ /\ fits
        /\ \E a \in Application :
             /\ InsertApplication(a, q.resume, q.client, Nobody, q.round)
             /\ request' = [request EXCEPT ![r].step = "submitted_event", ![r].application = a]
        /\ slipped' = slipped \cup
             (IF q.resume # Nobody /\ (q.client = Nobody \/ Looked(r, q.resume, q.client))
              THEN {<<"twin", q.resume, q.client>>} ELSE {})
        /\ UNCHANGED <<opening, resume, timeline, intake, started>>
     \/ ~fits /\ ConfirmFails(r)

(* An event is refused when its application, or its row of email_intake,   *)
(* does not exist.                                                         *)
Recordable(q) == Kept(application, q.application) /\ intake[q.mail] # Nobody

(* A screening mail is told by the first event alone.                      *)
SubmittedEvent(r) ==
  LET q == request[r] IN
  /\ q.step = "submitted_event"
  /\ \/ /\ Recordable(q)
        /\ Record(q.application, "submitted", "initial", q.mail)
        /\ IF q.round = "screening" THEN Answer(r) ELSE Goto(r, "mail_event")
        /\ UNCHANGED <<opening, resume, application, intake, slipped>>
     \/ ~Recordable(q) /\ ConfirmFails(r)

(* Mutant of MailEvent: the event does not refer to the mail.              *)
MailEventAlone(r) ==
  LET q == request[r] IN
  /\ q.step = "mail_event"
  /\ \/ /\ Recordable(q)
        /\ Record(q.application, "round", q.round, 0)
        /\ Answer(r)
        /\ UNCHANGED <<opening, resume, application, intake, slipped>>
     \/ ~Recordable(q) /\ ConfirmFails(r)

(* The event of the round; the notification after it changes nothing here. *)
MailEvent(r) ==
  LET q == request[r] IN
  /\ q.step = "mail_event"
  /\ \/ /\ Recordable(q)
        /\ Record(q.application, "round", q.round, q.mail)
        /\ Answer(r)
        /\ UNCHANGED <<opening, resume, application, intake, slipped>>
     \/ ~Recordable(q) /\ ConfirmFails(r)

(* The Worker is stopped in the middle of a confirmation, or a statement   *)
(* throws.                                                                 *)
ConfirmLost(r) ==
  /\ "request" \in Fault
  /\ request[r].step \in {"client", "find", "mail_update", "mail_insert",
                          "submitted_event", "mail_event"}
  /\ ConfirmFails(r)

IntakeHandlers(r) ==
  \/ \E c \in Client \cup {Nobody}, m \in Resume \cup {Nobody}, form \in Client :
       AnalyzeFile(r, c, m, form) \/ \E a \in Application \cup {0} : Analyze(r, c, m, a, form)
  \/ \E c \in Client, m \in Resume \cup {Nobody} : Edit(r, c, m)
  \/ Discard(r)
  \/ \E round \in RoundAsked :
       \/ Confirm(r, round)
       \/ \E c \in Client \cup {Nobody}, m \in Resume \cup {Nobody} : ConfirmDirect(r, c, m, round)
  \/ IntakeInsert(r) \/ Find(r) \/ MailUpdate(r) \/ MailInsert(r)
  \/ SubmittedEvent(r) \/ MailEvent(r) \/ ConfirmLost(r)

=============================================================================
