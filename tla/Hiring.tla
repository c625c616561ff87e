--------------------------------- MODULE Hiring ---------------------------------
(***************************************************************************)
(* The tables of the hiring pipeline: requirements (openings), resumes,    *)
(* applications with their application_events, and email_intake; and what  *)
(* a handler of the Workers has in its local variables between two         *)
(* statements.  Openings, ResumeRows, Applications and Intake add the      *)
(* handlers of their routes to it, and Pipeline composes them.             *)
(*                                                                         *)
(* There is no transaction: each awaited statement is a step, but the      *)
(* SELECTs at the head of a handler are one.  A statement that violates a  *)
(* foreign key throws, and the handler answers 500 and stops.              *)
(*                                                                         *)
(* Abstracted: names, dates, notes and files (see ResumeStore); who works  *)
(* for whom does not change here (see Organisation).                       *)
(***************************************************************************)
EXTENDS Naturals, Sequences

CONSTANTS
  Admin,         \* the administrator
  Client,        \* ids of clients; also stands for the portal user of each
  ActiveClient,  \* those of them that are active
  Opening,       \* ids of job openings
  Resume,        \* ids of resumes
  MaxApplication,\* bound: applications ever created
  Nobody,        \* NULL
  Request,       \* handlers that may be in progress at the same time
  MaxRequest,    \* bound: requests that write, ever started
  RoundAsked,    \* bound: the rounds that a request may ask for
  Fault          \* the faults that this instance exercises

ASSUME BoundAssumption == MaxRequest \in Nat /\ MaxApplication \in Nat

ASSUME IdAssumption ==
  /\ ActiveClient \subseteq Client
  /\ {Admin, Nobody} \cap (Client \cup Opening \cup Resume) = {} /\ Nobody # Admin

VARIABLES
  opening,      \* requirements
  resume,       \* resumes
  application,  \* applications
  timeline,     \* application_events of each application, oldest first
  intake,       \* email_intake: the client of each mail, a number
  request,      \* request[r]: where the handler r is, with its local variables
  started,      \* number of requests that write, so far; numbers the mails
  slipped       \* history: windows the code leaves open, see Pipeline

tables == <<opening, resume, application, timeline, intake>>
control == <<request, started>>
vars == <<tables, control, slipped>>

(* As the handlers see one, a recruiter is the set of clients that it is   *)
(* assigned.                                                               *)
Recruiter == SUBSET Client
User == {Admin} \cup Recruiter \cup Client

Application == 1 .. MaxApplication
Mail == 1 .. MaxRequest

(* A row that does not exist yet, exists, or was deleted: ids are fresh.   *)
Life == {"none", "kept", "gone"}

(* completed: completed_by and completed_at are set.                       *)
OpeningRow == [life : Life, status : {"active", "done", "archived"}, completed : BOOLEAN,
               client : Client \cup {Nobody}]

ResumeRow == [life : Life, client : Client \cup {Nobody}, opening : Opening \cup {Nobody}]

(* The rounds are those a mail may tell, and the one of a new application. *)
Round == {"initial", "screening", "round 1", "round 2"}

ASSUME RoundAssumption == RoundAsked \subseteq Round

ApplicationRow == [life : Life, status : {"open", "Closed", "Archived"}, round : Round,
                   resume : Resume \cup {Nobody}, client : Client \cup {Nobody},
                   opening : Opening \cup {Nobody}]

(* What an event is about, the round it names and the mail it refers to.   *)
Event == [kind : {"created", "status", "submitted", "round"}, round : Round \cup {"none"},
          mail : Mail \cup {0}]

(* The local variables: the opening, resume, application and client of the *)
(* request or of the row that was read, the status and round asked for,    *)
(* the number of the mail, the counts or rows still to come, whether a     *)
(* count found links.                                                      *)
Step == {"idle", "opening_update", "done", "count", "resume_update", "erase",
         "application_insert", "created_event", "status_update", "status_event",
         "no_events", "no_application", "review", "client", "find", "mail_update",
         "mail_insert", "submitted_event", "mail_event"}

Local == [step : Step, opening : Opening \cup {Nobody}, resume : Resume \cup {Nobody},
          application : Application \cup {0}, client : Client \cup {Nobody, "same"},
          status : {"open", "active", "done", "archived"},
          round : Round \cup {"same"}, mail : Mail \cup {0},
          todo : SUBSET (Resume \cup {"resumes", "applications"}), linked : BOOLEAN]

Idle == [step |-> "idle", opening |-> Nobody, resume |-> Nobody,
         application |-> 0, client |-> Nobody, status |-> "open", round |-> "same",
         mail |-> 0, todo |-> {}, linked |-> FALSE]

NoOpening == [life |-> "none", status |-> "active", completed |-> FALSE, client |-> Nobody]
NoResume == [life |-> "none", client |-> Nobody, opening |-> Nobody]
NoApplication == [life |-> "none", status |-> "open", round |-> "initial", resume |-> Nobody,
                  client |-> Nobody, opening |-> Nobody]

(* There may be an opening and a resume of a client, and an application for*)
(* the resume, which an earlier mail moved to round 1.                     *)
Init ==
  /\ \E o \in Opening, m \in Resume, d \in Client, life \in {"none", "kept"},
        rlife \in {"none", "kept"}, alife \in {"none", "kept"} :
       /\ rlife = "none" => alife = "none"
       /\ opening = [p \in Opening |->
            IF p # o \/ life = "none" THEN NoOpening
            ELSE [NoOpening EXCEPT !.life = "kept", !.client = d]]
       /\ resume = [n \in Resume |->
            IF n # m \/ rlife = "none" THEN NoResume
            ELSE [NoResume EXCEPT !.life = "kept", !.client = d]]
       /\ application = [a \in Application |->
            IF a # 1 \/ alife = "none" THEN NoApplication
            ELSE [NoApplication EXCEPT !.life = "kept", !.round = "round 1",
                                       !.resume = m, !.client = d]]
       /\ timeline = [a \in Application |->
            IF a # 1 \/ alife = "none" THEN <<>>
            ELSE <<[kind |-> "round", round |-> "round 1", mail |-> 0]>>]
  /\ intake = [n \in Mail |-> Nobody]
  /\ request = [r \in Request |-> Idle]
  /\ started = 0
  /\ slipped = {}

-----------------------------------------------------------------------------
(* Whose data a caller sees.                                               *)

(* getScopedClientIdsForReqs, ...ForApps, ...ForAI and getAllowedClientIds *)
(* are four copies of one function: everything for an administrator; the   *)
(* assigned clients for a recruiter, all active ones when there are none;  *)
(* its own client for a portal user.                                       *)
ScopeOf(by) ==
  CASE by = Admin -> Client
    [] by \in Client -> {by}
    [] OTHER -> IF by # {} THEN by ELSE ActiveClient

Global(by) == by = Admin

-----------------------------------------------------------------------------
(* The course of a handler.                                                *)

Start == started < MaxRequest /\ started' = started + 1

Begin(r, local) ==
  /\ request[r] = Idle
  /\ Start
  /\ request' = [request EXCEPT ![r] = local]

Goto(r, step) ==
  /\ request' = [request EXCEPT ![r].step = step]
  /\ UNCHANGED started

Answer(r) ==
  /\ request' = [request EXCEPT ![r] = Idle]
  /\ UNCHANGED started

Kept(rows, x) == rows[x].life = "kept"

(* A foreign key that may be NULL.                                         *)
Refers(rows, x) == x # Nobody => Kept(rows, x)

(* The round of a was written by a handler that has not recorded it yet.   *)
Unrecorded(r, a) ==
  /\ request[r].application = a
  /\ request[r].step \in {"created_event", "submitted_event", "mail_event"}

(* The handler stops in the middle.                                        *)
Half(r) == {<<"round", a>> : a \in {b \in Application : Unrecorded(r, b)}}

Abort(r) ==
  /\ Answer(r)
  /\ slipped' = slipped \cup Half(r)
  /\ UNCHANGED tables

=============================================================================
