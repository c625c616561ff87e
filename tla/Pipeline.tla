-------------------------------- MODULE Pipeline --------------------------------
(***************************************************************************)
(* All the handlers of the hiring pipeline together: any of them may run   *)
(* between two statements of any other.                                    *)
(*                                                                         *)
(* The code has no transactions and no unique key on applications, so two  *)
(* handlers can leave what neither of them would.  The variable slipped    *)
(* records each such window at the statement where it bites, and the       *)
(* properties say that there are no others.                                *)
(***************************************************************************)
EXTENDS Intake

Next ==
  \E r \in Request :
    OpeningHandlers(r) \/ ResumeHandlers(r) \/ ApplicationHandlers(r) \/ IntakeHandlers(r)

Spec == Init /\ [][Next]_vars

-----------------------------------------------------------------------------

(* The types of the variables, and the foreign keys: no row refers to one  *)
(* that was deleted, which the cascades and the refused INSERTs ensure.    *)
TypeOK ==
  /\ opening \in [Opening -> OpeningRow]
  /\ resume \in [Resume -> ResumeRow]
  /\ application \in [Application -> ApplicationRow]
  /\ timeline \in [Application -> Seq(Event)]
  /\ intake \in [Mail -> Client \cup {Nobody}]
  /\ request \in [Request -> Local]
  /\ started \in Nat
  /\ \A m \in Resume : Refers(opening, resume[m].opening)
  /\ \A a \in Application :
       Refers(resume, application[a].resume) /\ Refers(opening, application[a].opening)

(* "Find or Create Application" (ai.ts:555): a confirmation does not make  *)
(* a second application for a resume and a client.  The windows: one is    *)
(* created directly, which looks for nothing; another one was inserted     *)
(* after the confirmation had looked; there is no client to look for.      *)
OneApplication ==
  \A a, b \in Application :
    /\ a # b /\ Kept(application, a) /\ Kept(application, b)
    /\ application[a].resume = application[b].resume /\ application[a].resume # Nobody
    /\ application[a].client = application[b].client
    => <<"twin", application[a].resume, application[a].client>> \in slipped

(* A confirmation of the mail n is on its way to record it.                *)
Recording(n) == \E r \in Request : request[r].mail = n

(* "Audit in email_intake" (ai.ts:546): the mail is marked as processed    *)
(* before anything else is written; it is on the timeline of an            *)
(* application, unless the confirmation is under way or was stopped, or    *)
(* the application was deleted or went with its resume.                    *)
MailOnTimeline ==
  \A n \in Mail :
    intake[n] # Nobody =>
      \/ \E a \in Application : \E i \in DOMAIN timeline[a] : timeline[a][i].mail = n
      \/ Recording(n)
      \/ <<"mail", n>> \in slipped
      \/ <<"lost", n>> \in slipped

(* The timeline of an application that follows the mails names its round.  *)
(* The windows: two confirmations whose updates and events are in opposite *)
(* orders, or with those of the creation; a round set by the status        *)
(* handler; a handler under way or stopped.                                *)
Told(a) ==
  \A i \in DOMAIN timeline[a] :
    LET last == timeline[a][i] IN
      /\ last.kind # "status"
      /\ \A j \in DOMAIN timeline[a] : j > i => timeline[a][j].kind = "status"
      => \/ last.round = application[a].round
         \/ last.kind = "submitted" /\ application[a].round = "screening"

TimelineTellsRound ==
  \A a \in Application :
    Kept(application, a) =>
      \/ Told(a)
      \/ <<"round", a>> \in slipped
      \/ \E r \in Request :
           \/ Unrecorded(r, a)
           \/ request[r].application = a /\ request[r].step = "no_application"

(* A mail that was confirmed for a client is on the timeline of one of its *)
(* applications.  The window: the preview found an application of another  *)
(* client, or the client was changed in the form.                          *)
MailsOfClient ==
  \A a \in Application :
    \A i \in DOMAIN timeline[a] :
      LET n == timeline[a][i].mail IN
        n # 0 => intake[n] = application[a].client \/ <<"elsewhere", n>> \in slipped

(* A confirmed mail is accounted for: it made no second application, it is *)
(* on a timeline, and on that of its client (ai.ts:546-690).               *)
MailsAccounted == TypeOK /\ OneApplication /\ MailOnTimeline /\ MailsOfClient

(* "Cannot be deleted because ... are linked" (requirements.ts:610): an    *)
(* opening goes only without links.  The window: a link made after the     *)
(* deletion has counted.                                                   *)
NoLinkLost ==
  [][\A o \in Opening :
       Kept(opening, o) /\ ~Kept(opening', o) =>
         ResumesOf(o) \cup ApplicationsOf(o) = {} \/ <<"link", o>> \in slipped]_vars

(* An opening has been completed by somebody when it is done, and not when *)
(* it is active.  The window: the status is written by an update, which    *)
(* leaves completed_by as it is, or by the creation.                       *)
CompletedIffDone ==
  \A o \in Opening :
    Kept(opening, o) =>
      \/ opening[o].status = "active" /\ ~opening[o].completed
      \/ opening[o].status = "done" /\ opening[o].completed
      \/ opening[o].status = "archived"
      \/ <<"status", o>> \in slipped

(* An opening that has a status and links keeps both in order: who         *)
(* completed it follows its status, and it goes only without links.        *)
OpeningsKept == []CompletedIffDone /\ NoLinkLost

(* What a list shows is what the endpoints of a single row serve to the    *)
(* same caller, the inbox and the statistics are about the applications of *)
(* the list, the filter of companies about the resumes of the list, and the*)
(* openings that a room offers are those of the list: the copies of the    *)
(* scope, and the ways they are applied, agree.                            *)
ScopesAgree ==
  \A by \in User :
    LET openings == ListedOpenings(by)
        resumes == ListedResumes(by)
        applications == ListedApplications(by) IN
    /\ openings = {o \in Opening : ServedOpening(by, o)}
    /\ \A c \in Client :
         Global(by) \/ c \in ScopeOf(by) =>
           RoomJobs(by, c) =
             {o \in openings : opening[o].client = c /\ opening[o].status = "active"}
    /\ resumes = {m \in Resume : ServedResume(by, m)}
    /\ resumes = {m \in Resume : ServedFile(by, m)}
    /\ resumes = CompanySources(by)
    /\ applications = {a \in Application : ServedTimeline(by, a)}
    /\ applications = Inbox(by)
    /\ applications = StatsOf(by, "closed") \cup StatsOf(by, "submitted")

(* "Timeline events preserve the chronological record of ... closure and   *)
(* archive actions" (applyflowfullidea.md:116).                            *)
ClosureOnTimeline ==
  \A a \in Application :
    Kept(application, a) /\ application[a].status # "open" =>
      \E i \in DOMAIN timeline[a] : timeline[a][i].kind = "status"

=============================================================================
