----------------------------- MODULE PipelineProofs -----------------------------
(***************************************************************************)
(* Proofs about Pipeline: the types and foreign keys, what becomes of a    *)
(* confirmed mail, what a timeline tells, when an opening goes, and that   *)
(* the copies of the scope agree; for any clients, openings, resumes,      *)
(* applications and handlers.                                              *)
(***************************************************************************)
EXTENDS Pipeline, SequenceTheorems, TLAPS

-----------------------------------------------------------------------------
(* The local variables of a handler, by its step.                          *)

(* The steps after a confirmation has chosen its application.              *)
Telling == {"mail_update", "submitted_event", "mail_event"}

(* The steps of a confirmation, from its answer to a review on.            *)
MailStep == {"client", "find", "mail_insert"} \cup Telling

OpeningStep == {"opening_update", "done", "count"}

RowStep == {"created_event", "status_update", "status_event", "no_events", "no_application"}

Sound(q) ==
  /\ q.step \in OpeningStep => q.opening \in Opening
  /\ q.step = "opening_update" =>
       q.client \in Client \cup {Nobody} /\ q.status \in {"active", "done", "archived"}
  /\ q.step \in {"resume_update", "application_insert"} => q.resume \in Resume
  /\ q.step = "resume_update" => q.client \in Client \cup {"same"}
  /\ q.step = "erase" => q.todo \subseteq Resume
  /\ q.step = "application_insert" => q.client \in Client \cup {Nobody}
  /\ q.step \in RowStep \cup Telling => q.application \in Application
  /\ q.step = "status_update" => q.status = "open" /\ q.round \in Round
  /\ q.step \in MailStep => q.mail \in Mail /\ q.round \in Round
  /\ q.step \in MailStep \cup {"review"} => q.client \in Client \cup {Nobody}
  /\ q.step \notin MailStep => q.mail = 0

Locals == \A r \in Request : Sound(request[r])

(* An application that a handler knows exists or was deleted: its id is    *)
(* not given again; and events go with their application.                  *)
Rows ==
  /\ \A r \in Request :
       request[r].application # 0 => application[request[r].application].life # "none"
  /\ \A a \in Application : ~Kept(application, a) => timeline[a] = <<>>

IInv == TypeOK /\ Locals /\ Rows

-----------------------------------------------------------------------------
(* How the local variables move.                                           *)

Others(r) == \A q \in Request \ {r} : request'[q] = request[q]

Moved(r) ==
  /\ request' \in [Request -> Local] /\ Locals' /\ Others(r)
  /\ started' \in Nat /\ started <= started'

LEMMA Values ==
  /\ Admin \notin Client /\ Nobody \notin Client /\ Nobody \notin Opening /\ Nobody \notin Resume
  /\ Nobody # Admin /\ ActiveClient \subseteq Client
  /\ \A a \in Application : a # 0 /\ a \in Nat
  /\ \A n \in Mail : n # 0 /\ n \in Nat
  BY IdAssumption, BoundAssumption DEF Application, Mail

LEMMA IdleSound == Idle \in Local /\ Sound(Idle) /\ Idle.step = "idle"
  BY DEF Idle, Local, Step, Sound, MailStep, Telling, OpeningStep, RowStep

LEMMA Becomes ==
  ASSUME TypeOK, Locals, NEW r \in Request, NEW new \in Local, Sound(new),
         request' = [request EXCEPT ![r] = new], started' \in Nat, started <= started'
  PROVE  Moved(r) /\ request'[r] = new
  <1>1. \A q \in Request : request'[q] = IF q = r THEN new ELSE request[q]
    BY DEF TypeOK
  <1>2. request' \in [Request -> Local]
    BY DEF TypeOK
  <1> QED
    BY <1>1, <1>2 DEF Moved, Others, Locals

LEMMA Starts ==
  ASSUME TypeOK, Start
  PROVE  /\ started' \in Nat /\ started <= started' /\ started' = started + 1
         /\ started + 1 \in Mail
  <1>1. started \in Nat /\ MaxRequest \in Nat /\ started < MaxRequest /\ started' = started + 1
    BY BoundAssumption DEF Start, TypeOK
  <1> QED
    BY <1>1 DEF Mail

LEMMA Begins ==
  ASSUME TypeOK, Locals, NEW r \in Request, NEW new \in Local, Sound(new), Begin(r, new)
  PROVE  Moved(r) /\ request'[r] = new /\ request[r] = Idle
  BY Starts, Becomes DEF Begin

LEMMA Answers ==
  ASSUME TypeOK, Locals, NEW r \in Request, Answer(r)
  PROVE  Moved(r) /\ request'[r] = Idle
  <1>1. request' = [request EXCEPT ![r] = Idle] /\ started' = started
    BY DEF Answer
  <1>2. started' \in Nat /\ started <= started'
    BY <1>1 DEF TypeOK
  <1> QED
    BY <1>1, <1>2, IdleSound, Becomes

LEMMA Stops ==
  ASSUME TypeOK, Locals, NEW r \in Request, Abort(r)
  PROVE  /\ Moved(r) /\ request'[r] = Idle /\ slipped' = slipped \cup Half(r)
         /\ UNCHANGED tables
  BY Answers DEF Abort

(* The steps that follow without new local variables.                      *)
LEMMA GoesOn ==
  ASSUME TypeOK, Locals, NEW r \in Request, NEW step, Goto(r, step),
         \/ request[r].step = "status_update" /\ step = "status_event"
         \/ request[r].step = "no_events" /\ step = "no_application"
         \/ request[r].step \in {"mail_update", "submitted_event"} /\ step = "mail_event"
  PROVE  Moved(r) /\ request'[r] = [request[r] EXCEPT !.step = step]
  <1> DEFINE new == [request[r] EXCEPT !.step = step]
  <1>1. PICK q \in Local : q = request[r] /\ Sound(q)
    BY DEF TypeOK, Locals
  <1>2. [q EXCEPT !.step = step] \in Local
    BY DEF Local, Step
  <1>3. Sound([q EXCEPT !.step = step])
    BY <1>1 DEF Sound, Local, MailStep, Telling, OpeningStep, RowStep
  <1>4. new \in Local /\ Sound(new)
    BY <1>1, <1>2, <1>3
  <1>5. request' = [request EXCEPT ![r] = new] /\ started' \in Nat /\ started <= started'
    BY DEF Goto, TypeOK
  <1> HIDE DEF new
  <1>6. Moved(r) /\ request'[r] = new
    BY <1>4, <1>5, Becomes
  <1> QED
    BY <1>6 DEF new

LEMMA Unmoved ==
  ASSUME TypeOK, Locals, NEW r \in Request, request' = request, Start \/ started' = started
  PROVE  Moved(r)
  <1>1. started' \in Nat /\ started <= started'
    BY Starts DEF TypeOK
  <1> QED
    BY <1>1 DEF Moved, Others, Locals, TypeOK

LEMMA RowsRead ==
  ASSUME TypeOK
  PROVE  /\ \A o \in Opening : /\ opening[o] \in OpeningRow
                               /\ opening[o].status \in {"active", "done", "archived"}
                               /\ opening[o].client \in Client \cup {Nobody}
         /\ \A m \in Resume : /\ resume[m] \in ResumeRow
                              /\ resume[m].client \in Client \cup {Nobody}
                              /\ resume[m].opening \in Opening \cup {Nobody}
         /\ \A a \in Application : /\ application[a] \in ApplicationRow
                                   /\ application[a].round \in Round
                                   /\ application[a].resume \in Resume \cup {Nobody}
                                   /\ application[a].client \in Client \cup {Nobody}
                                   /\ application[a].opening \in Opening \cup {Nobody}
  BY DEF TypeOK, OpeningRow, ResumeRow, ApplicationRow

-----------------------------------------------------------------------------
(* Every handler keeps its local variables sound.                          *)

LEMMA OpeningMoves ==
  ASSUME TypeOK, Locals, NEW r \in Request, OpeningHandlers(r)
  PROVE  Moved(r)
  <1>1. ASSUME NEW o \in Opening, NEW c \in Client \cup {Nobody},
               NEW status \in {"active", "done"} \cup {opening[o].status},
               OpeningSelect(r, o, c, status)
        PROVE  Moved(r)
    <2> DEFINE new == [Idle EXCEPT !.step = "opening_update", !.opening = o,
                           !.client = c, !.status = status]
    <2>0. status \in {"active", "done", "archived"}
      BY RowsRead
    <2>1. new \in Local
      BY <2>0, IdleSound DEF Local, Step
    <2>2. Sound(new)
      BY <2>0 DEF Idle, Sound, MailStep, Telling, OpeningStep, RowStep
    <2>3. Begin(r, new)
      BY <1>1 DEF OpeningSelect
    <2> HIDE DEF new
    <2> QED
      BY <2>1, <2>2, <2>3, Begins
  <1>2. ASSUME NEW o \in Opening, DoneSelect(r, o) PROVE Moved(r)
    <2> DEFINE new == [Idle EXCEPT !.step = "done", !.opening = o]
    <2>1. new \in Local
      BY IdleSound DEF Local, Step
    <2>2. Sound(new)
      BY DEF Idle, Sound, MailStep, Telling, OpeningStep, RowStep
    <2>3. Begin(r, new)
      BY <1>2 DEF DoneSelect
    <2> HIDE DEF new
    <2> QED
      BY <2>1, <2>2, <2>3, Begins
  <1>3. ASSUME NEW o \in Opening, OpeningDeleteSelect(r, o) PROVE Moved(r)
    <2> DEFINE new == [Idle EXCEPT !.step = "count", !.opening = o,
                                   !.todo = {"resumes", "applications"}]
    <2>1. new \in Local
      BY IdleSound DEF Local, Step
    <2>2. Sound(new)
      BY DEF Idle, Sound, MailStep, Telling, OpeningStep, RowStep
    <2>3. Begin(r, new)
      BY <1>3 DEF OpeningDeleteSelect
    <2> HIDE DEF new
    <2> QED
      BY <2>1, <2>2, <2>3, Begins
  <1>4. ASSUME NEW o, NEW c, NEW status,
               OpeningCreate(o, c, status) \/ Reopen(o) \/ ArchiveOpening(o)
        PROVE  Moved(r)
    BY <1>4, Unmoved DEF OpeningCreate, Reopen, ArchiveOpening
  <1>5. CASE OpeningUpdate(r) \/ DoneUpdate(r) \/ OpeningRefused(r) \/ OpeningDelete(r)
    BY <1>5, Answers DEF OpeningUpdate, DoneUpdate, OpeningRefused, OpeningDelete
  <1>6. ASSUME NEW what, Count(r, what) PROVE Moved(r)
    <2>1. PICK q \in Local : q = request[r] /\ Sound(q) /\ q.step = "count"
      BY <1>6 DEF TypeOK, Locals, Count
    <2>2. PICK linked \in BOOLEAN : linked = (q.linked \/ HasLinks(q.opening, what))
      OBVIOUS
    <2> DEFINE new == [q EXCEPT !.todo = @ \ {what}, !.linked = linked]
    <2>3. new \in Local
      BY DEF Local
    <2>4. Sound(new)
      BY <2>1 DEF Local, Sound, MailStep, Telling, OpeningStep, RowStep
    <2>5. request' = [request EXCEPT ![r] = new] /\ started' = started
      BY <1>6, <2>1, <2>2 DEF Count
    <2>6. started' \in Nat /\ started <= started'
      BY <2>5 DEF TypeOK
    <2> HIDE DEF new
    <2> QED
      BY <2>3, <2>4, <2>5, <2>6, Becomes
  <1>7. CASE \E o \in Opening :
       \/ \E c \in Client \cup {Nobody}, status \in {"active", "done"} \cup {opening[o].status} :
            OpeningSelect(r, o, c, status)
       \/ DoneSelect(r, o) \/ OpeningDeleteSelect(r, o)
       \/ \E c \in Client \cup {Nobody}, status \in {"active", "done"} : OpeningCreate(o, c, status)
       \/ Reopen(o) \/ ArchiveOpening(o)
    BY <1>1, <1>2, <1>3, <1>4, <1>7
  <1> QED
    BY <1>5, <1>6, <1>7 DEF OpeningHandlers

LEMMA ResumeMoves ==
  ASSUME TypeOK, Locals, NEW r \in Request, ResumeHandlers(r)
  PROVE  Moved(r)
  <1>1. ASSUME NEW m \in Resume, NEW c \in Client \cup {"same"}, NEW o \in Opening \cup {Nobody},
               ResumeSelect(r, m, c, o)
        PROVE  Moved(r)
    <2> DEFINE new == [Idle EXCEPT !.step = "resume_update", !.resume = m, !.client = c,
                                   !.opening = o]
    <2>1. new \in Local
      BY IdleSound DEF Local, Step
    <2>2. Sound(new)
      BY DEF Idle, Sound, MailStep, Telling, OpeningStep, RowStep
    <2>3. Begin(r, new)
      BY <1>1 DEF ResumeSelect
    <2> HIDE DEF new
    <2> QED
      BY <2>1, <2>2, <2>3, Begins
  <1>2. ASSUME NEW erased \in SUBSET Resume,
               Begin(r, [Idle EXCEPT !.step = "erase", !.todo = erased])
        PROVE  Moved(r)
    <2> DEFINE new == [Idle EXCEPT !.step = "erase", !.todo = erased]
    <2>1. new \in Local
      BY IdleSound DEF Local, Step
    <2>2. Sound(new)
      BY DEF Idle, Sound, MailStep, Telling, OpeningStep, RowStep
    <2> HIDE DEF new
    <2>3. Begin(r, new)
      BY <1>2 DEF new
    <2> QED
      BY <2>1, <2>2, <2>3, Begins
  <1>3. ASSUME NEW m \in Resume, ResumeDeleteSelect(r, m) PROVE Moved(r)
    BY <1>2, <1>3 DEF ResumeDeleteSelect
  <1>4. ASSUME NEW erased \in SUBSET Resume, CleanupSelect(r, erased) PROVE Moved(r)
    BY <1>2, <1>4 DEF CleanupSelect
  <1>5. ASSUME NEW m, NEW c, NEW o, ResumeInsert(m, c, o) PROVE Moved(r)
    BY <1>5, Unmoved DEF ResumeInsert
  <1>6. CASE ResumeUpdate(r) \/ Erase(r)
    BY <1>6, Answers, Stops DEF ResumeUpdate, Erase
  <1> QED
    BY <1>1, <1>3, <1>4, <1>5, <1>6 DEF ResumeHandlers

LEMMA ApplicationMoves ==
  ASSUME TypeOK, Locals, NEW r \in Request, ApplicationHandlers(r)
  PROVE  Moved(r)
  <1>1. ASSUME NEW m \in Resume, NEW c \in Client \cup {Nobody}, NEW o \in Opening \cup {Nobody},
               ApplicationSelect(r, m, c, o)
        PROVE  Moved(r)
    <2>1. PICK d \in Client \cup {Nobody} : d = IF c = Nobody THEN resume[m].client ELSE c
      BY RowsRead
    <2> DEFINE new == [Idle EXCEPT !.step = "application_insert", !.resume = m, !.opening = o,
                                   !.client = d]
    <2>2. new \in Local
      BY IdleSound DEF Local, Step
    <2>3. Sound(new)
      BY DEF Idle, Sound, MailStep, Telling, OpeningStep, RowStep
    <2>4. Begin(r, new)
      BY <1>1, <2>1 DEF ApplicationSelect
    <2> HIDE DEF new
    <2> QED
      BY <2>2, <2>3, <2>4, Begins
  <1>2. CASE ApplicationInsert(r)
    <2>1. PICK q \in Local : q = request[r] /\ Sound(q) /\ q.step = "application_insert"
      BY <1>2 DEF TypeOK, Locals, ApplicationInsert
    <2>2. CASE Abort(r)
      BY <2>2, Stops
    <2>3. CASE ~Abort(r)
      <3>1. PICK a \in Application :
              /\ request' = [request EXCEPT ![r].step = "created_event", ![r].application = a]
              /\ started' = started
        BY <1>2, <2>3 DEF ApplicationInsert
      <3> DEFINE new == [q EXCEPT !.step = "created_event", !.application = a]
      <3>2. new \in Local
        BY DEF Local, Step
      <3>3. Sound(new)
        BY <2>1 DEF Local, Sound, MailStep, Telling, OpeningStep, RowStep
      <3>4. request' = [request EXCEPT ![r] = new]
        BY <2>1, <3>1
      <3>5. started' \in Nat /\ started <= started'
        BY <3>1 DEF TypeOK
      <3> HIDE DEF new
      <3> QED
        BY <3>2, <3>3, <3>4, <3>5, Becomes
    <2> QED
      BY <2>2, <2>3
  <1>3. CASE CreatedEvent(r) \/ StatusEvent(r) \/ DeleteApplication(r)
    BY <1>3, Answers, Stops DEF CreatedEvent, StatusEvent, DeleteApplication
  <1>4. ASSUME NEW a \in Application, NEW round \in RoundAsked \cup {"same"},
               StatusSelect(r, a, "open", round)
        PROVE  Moved(r)
    <2>1. PICK told \in Round : told = IF round = "same" THEN application[a].round ELSE round
      BY RowsRead, RoundAssumption
    <2> DEFINE new == [Idle EXCEPT !.step = "status_update", !.application = a, !.status = "open",
                                   !.round = told]
    <2>2. new \in Local
      BY IdleSound DEF Local, Step
    <2>3. Sound(new)
      BY DEF Idle, Sound, MailStep, Telling, OpeningStep, RowStep
    <2>4. Begin(r, new)
      BY <1>4, <2>1 DEF StatusSelect
    <2> HIDE DEF new
    <2> QED
      BY <2>2, <2>3, <2>4, Begins
  <1>5. ASSUME NEW a \in Application, ApplicationDeleteSelect(r, a) PROVE Moved(r)
    <2> DEFINE new == [Idle EXCEPT !.step = "no_events", !.application = a]
    <2>1. new \in Local
      BY IdleSound DEF Local, Step
    <2>2. Sound(new)
      BY DEF Idle, Sound, MailStep, Telling, OpeningStep, RowStep
    <2>3. Begin(r, new)
      BY <1>5 DEF ApplicationDeleteSelect
    <2> HIDE DEF new
    <2> QED
      BY <2>1, <2>2, <2>3, Begins
  <1>6. CASE StatusUpdate(r) \/ DeleteEvents(r)
    BY <1>6, GoesOn DEF StatusUpdate, DeleteEvents
  <1>7. ASSUME NEW a, CloseApplication(a) \/ ArchiveApplication(a) PROVE Moved(r)
    BY <1>7, Unmoved DEF CloseApplication, ArchiveApplication, SetStatus
  <1> QED
    BY <1>1, <1>2, <1>3, <1>4, <1>5, <1>6, <1>7 DEF ApplicationHandlers

(* A confirmation that fails keeps the form.                               *)
LEMMA Fails ==
  ASSUME TypeOK, Locals, NEW r \in Request, request[r].step \in MailStep, ConfirmFails(r)
  PROVE  /\ Moved(r)
         /\ request'[r] = [request[r] EXCEPT !.step = "review", !.mail = 0, !.round = "same"]
         /\ slipped' = slipped \cup {<<"lost", request[r].mail>>} \cup Half(r)
         /\ UNCHANGED tables /\ started' = started
  <1>1. PICK q \in Local : q = request[r] /\ Sound(q) /\ q.step \in MailStep
    BY DEF TypeOK, Locals
  <1> DEFINE new == [q EXCEPT !.step = "review", !.mail = 0, !.round = "same"]
  <1>2. new \in Local
    BY DEF Local, Step
  <1>3. Sound(new)
    BY <1>1 DEF Local, Sound, MailStep, Telling, OpeningStep, RowStep
  <1>4. request' = [request EXCEPT ![r] = new] /\ started' = started
    BY <1>1 DEF ConfirmFails
  <1>5. started' \in Nat /\ started <= started'
    BY <1>4 DEF TypeOK
  <1> HIDE DEF new
  <1>6. Moved(r) /\ request'[r] = new
    BY <1>2, <1>3, <1>4, <1>5, Becomes
  <1> QED
    BY <1>1, <1>6 DEF ConfirmFails, new

LEMMA IntakeMoves ==
  ASSUME TypeOK, Locals, NEW r \in Request, IntakeHandlers(r)
  PROVE  Moved(r)
  <1>0. PICK q \in Local : q = request[r] /\ Sound(q)
    BY DEF TypeOK, Locals
  <1>a. ASSUME NEW new \in Local, Sound(new), request' = [request EXCEPT ![r] = new],
               started' = started
        PROVE  Moved(r)
    <2>1. started' \in Nat /\ started <= started'
      BY <1>a DEF TypeOK
    <2> QED
      BY <1>a, <2>1, Becomes
  <1>1. ASSUME NEW c \in Client \cup {Nobody}, NEW m \in Resume \cup {Nobody}, NEW form \in Client,
               NEW a \in Application \cup {0}, Analyze(r, c, m, a, form)
        PROVE  Moved(r)
    <2> DEFINE new == [Idle EXCEPT !.step = "review", !.resume = m,
                                   !.application = a, !.client = form]
    <2>1. new \in Local
      BY DEF Idle, Local, Step
    <2>2. Sound(new)
      BY DEF Idle, Sound, MailStep, Telling, OpeningStep, RowStep
    <2>3. request' = [request EXCEPT ![r] = new] /\ started' = started
      BY <1>1 DEF Analyze
    <2> HIDE DEF new
    <2> QED
      BY <1>a, <2>1, <2>2, <2>3
  <1>2. ASSUME NEW c \in Client \cup {Nobody}, NEW m \in Resume \cup {Nobody}, NEW form \in Client,
               AnalyzeFile(r, c, m, form)
        PROVE  Moved(r)
    <2> DEFINE new == [Idle EXCEPT !.step = "review", !.resume = m, !.client = form]
    <2>1. new \in Local
      BY DEF Idle, Local, Step
    <2>2. Sound(new)
      BY DEF Idle, Sound, MailStep, Telling, OpeningStep, RowStep
    <2>3. request' = [request EXCEPT ![r] = new] /\ started' = started
      BY <1>2 DEF AnalyzeFile
    <2> HIDE DEF new
    <2> QED
      BY <1>a, <2>1, <2>2, <2>3
  <1>3. ASSUME NEW c \in Client, NEW m \in Resume \cup {Nobody}, Edit(r, c, m) PROVE Moved(r)
    <2> DEFINE new == [q EXCEPT !.client = c, !.resume = m]
    <2>1. q.step = "review"
      BY <1>0, <1>3 DEF Edit
    <2>2. new \in Local
      BY DEF Local
    <2>3. Sound(new)
      BY <1>0, <2>1 DEF Local, Sound, MailStep, Telling, OpeningStep, RowStep
    <2>4. request' = [request EXCEPT ![r] = new] /\ started' = started
      BY <1>0, <1>3 DEF Edit
    <2> HIDE DEF new
    <2> QED
      BY <1>a, <2>2, <2>3, <2>4
  <1>4. CASE Discard(r)
    BY <1>4, Answers DEF Discard
  <1>5. ASSUME NEW round \in RoundAsked, Confirm(r, round) PROVE Moved(r)
    <2>1. /\ round \in Round /\ started + 1 \in Mail /\ started' \in Nat /\ started <= started'
      BY <1>5, Starts, RoundAssumption DEF Confirm
    <2>2. PICK n \in Mail : n = started + 1
      BY <2>1
    <2> DEFINE new == [q EXCEPT !.step = "client", !.round = round, !.mail = n]
    <2>3. q.step = "review"
      BY <1>0, <1>5 DEF Confirm
    <2>4. new \in Local
      BY <2>1 DEF Local, Step
    <2>5. Sound(new)
      BY <1>0, <2>1, <2>3 DEF Local, Sound, MailStep, Telling, OpeningStep, RowStep
    <2>6. request' = [request EXCEPT ![r] = new]
      BY <1>0, <1>5, <2>2 DEF Confirm
    <2> HIDE DEF new
    <2> QED
      BY <2>1, <2>4, <2>5, <2>6, Becomes
  <1>6. ASSUME NEW c \in Client \cup {Nobody}, NEW m \in Resume \cup {Nobody}, NEW round \in RoundAsked,
               ConfirmDirect(r, c, m, round)
        PROVE  Moved(r)
    <2>1. round \in Round /\ started + 1 \in Mail
      BY <1>6, Starts, RoundAssumption DEF ConfirmDirect, Begin
    <2>2. PICK n \in Mail : n = started + 1
      BY <2>1
    <2> DEFINE new == [Idle EXCEPT !.step = "client", !.client = c, !.resume = m,
                           !.round = round, !.mail = n]
    <2>3. new \in Local
      BY <2>1 DEF Idle, Local, Step
    <2>4. Sound(new)
      BY <2>1 DEF Idle, Sound, MailStep, Telling, OpeningStep, RowStep
    <2>5. Begin(r, new)
      BY <1>6, <2>2 DEF ConfirmDirect
    <2> HIDE DEF new
    <2> QED
      BY <2>3, <2>4, <2>5, Begins
  <1>7. CASE IntakeInsert(r)
    <2>1. PICK c \in Client \cup {Nobody} :
            request' = [request EXCEPT ![r].client = c, ![r].step = "find"]
      <3>1. \A c : c \in (IF q.client # Nobody THEN {q.client} ELSE OneOf(ActiveClient, Nobody)) =>
              c \in Client \cup {Nobody}
        <4>1. q.client \in Client \cup {Nobody}
          BY <1>0, <1>7 DEF IntakeInsert, Sound, MailStep
        <4> QED
          BY <4>1, Values DEF OneOf
      <3> QED
        BY <1>0, <1>7, <3>1 DEF IntakeInsert
    <2> DEFINE new == [q EXCEPT !.client = c, !.step = "find"]
    <2>2. q.step = "client" /\ started' = started
      BY <1>0, <1>7 DEF IntakeInsert
    <2>3. new \in Local
      BY DEF Local, Step
    <2>4. Sound(new)
      BY <1>0, <2>2 DEF Local, Sound, MailStep, Telling, OpeningStep, RowStep
    <2>5. request' = [request EXCEPT ![r] = new]
      BY <1>0, <2>1
    <2> HIDE DEF new
    <2> QED
      BY <1>a, <2>2, <2>3, <2>4, <2>5
  <1>8. CASE Find(r)
    <2>1. PICK a \in Application \cup {0} :
            request' = [request EXCEPT ![r].application = a,
                                       ![r].step = IF a = 0 THEN "mail_insert" ELSE "mail_update"]
      <3>1. q.application \in Application \cup {0}
        BY DEF Local
      <3>2. \A a : a \in OneOf(Candidates(q), 0) => a \in Application \cup {0}
        BY <3>1 DEF OneOf, Candidates, Twins
      <3> QED
        BY <1>0, <1>8, <3>2 DEF Find
    <2>2. PICK step \in {"mail_insert", "mail_update"} :
            /\ step = IF a = 0 THEN "mail_insert" ELSE "mail_update"
            /\ step = "mail_update" => a \in Application
      OBVIOUS
    <2> DEFINE new == [q EXCEPT !.application = a, !.step = step]
    <2>3. q.step = "find" /\ started' = started
      BY <1>0, <1>8 DEF Find
    <2>4. new \in Local
      BY DEF Local, Step
    <2>5. Sound(new)
      BY <1>0, <2>2, <2>3 DEF Local, Sound, MailStep, Telling, OpeningStep, RowStep
    <2>6. request' = [request EXCEPT ![r] = new]
      BY <1>0, <2>1, <2>2
    <2> HIDE DEF new
    <2> QED
      BY <1>a, <2>3, <2>4, <2>5, <2>6
  <1>9. CASE ConfirmFails(r) /\ request[r].step \in MailStep
    BY <1>9, Fails
  <1>10. CASE MailUpdate(r) \/ SubmittedEvent(r) \/ MailEvent(r)
    BY <1>9, <1>10, GoesOn, Answers DEF MailUpdate, SubmittedEvent, MailEvent, MailStep, Telling
  <1>11. CASE MailInsert(r)
    <2>1. CASE ConfirmFails(r)
      BY <1>9, <1>11, <2>1 DEF MailInsert, MailStep
    <2>2. CASE ~ConfirmFails(r)
      <3>1. PICK a \in Application :
              /\ request' = [request EXCEPT ![r].step = "submitted_event", ![r].application = a]
              /\ started' = started /\ q.step = "mail_insert"
        BY <1>0, <1>11, <2>2 DEF MailInsert
      <3> DEFINE new == [q EXCEPT !.step = "submitted_event", !.application = a]
      <3>2. new \in Local
        BY DEF Local, Step
      <3>3. Sound(new)
        BY <1>0, <3>1 DEF Local, Sound, MailStep, Telling, OpeningStep, RowStep
      <3>4. request' = [request EXCEPT ![r] = new]
        BY <1>0, <3>1
      <3> HIDE DEF new
      <3> QED
        BY <1>a, <3>1, <3>2, <3>3, <3>4
    <2> QED
      BY <2>1, <2>2
  <1>12. CASE ConfirmLost(r)
    BY <1>9, <1>12 DEF ConfirmLost, MailStep, Telling
  <1>13. CASE \E c \in Client \cup {Nobody}, m \in Resume \cup {Nobody}, form \in Client :
       AnalyzeFile(r, c, m, form) \/ \E a \in Application \cup {0} : Analyze(r, c, m, a, form)
    BY <1>1, <1>2, <1>13
  <1> QED
    BY <1>3, <1>4, <1>5, <1>6, <1>7, <1>8, <1>10, <1>11, <1>12, <1>13 DEF IntakeHandlers

LEMMA HandlersMove ==
  ASSUME TypeOK, Locals, NEW r \in Request,
         OpeningHandlers(r) \/ ResumeHandlers(r) \/ ApplicationHandlers(r) \/ IntakeHandlers(r)
  PROVE  Moved(r)
  BY OpeningMoves, ResumeMoves, ApplicationMoves, IntakeMoves

-----------------------------------------------------------------------------
(* The tables keep their types, and no row refers to one that is gone.     *)

Foreign ==
  /\ \A m \in Resume : Refers(opening, resume[m].opening)
  /\ \A a \in Application :
       Refers(resume, application[a].resume) /\ Refers(opening, application[a].opening)

Tables ==
  /\ opening \in [Opening -> OpeningRow]
  /\ resume \in [Resume -> ResumeRow]
  /\ application \in [Application -> ApplicationRow]
  /\ timeline \in [Application -> Seq(Event)]
  /\ intake \in [Mail -> Client \cup {Nobody}]
  /\ Foreign

LEMMA TypeSplit ==
  TypeOK <=> Tables /\ request \in [Request -> Local] /\ started \in Nat
  BY DEF TypeOK, Tables, Foreign

LEMMA OpeningWritten ==
  ASSUME TypeOK, NEW o \in Opening, NEW row \in OpeningRow,
         opening' = [opening EXCEPT ![o] = row], row.life = "kept" \/ ~Kept(opening, o),
         UNCHANGED <<resume, application, timeline, intake>>
  PROVE  Tables'
  <1>1. \A p : Refers(opening, p) /\ (p = Nobody \/ p \in Opening) => Refers(opening, p)'
    BY DEF TypeOK, Refers, Kept
  <1>2. Foreign'
    BY <1>1, RowsRead DEF TypeOK, Foreign, Refers, Kept
  <1> QED
    BY <1>2 DEF TypeOK, Tables

LEMMA ResumeWritten ==
  ASSUME TypeOK, NEW m \in Resume, NEW row \in ResumeRow,
         resume' = [resume EXCEPT ![m] = row], row.life = "kept" \/ ~Kept(resume, m),
         Refers(opening, row.opening),
         UNCHANGED <<opening, application, timeline, intake>>
  PROVE  Tables'
  <1>1. \A n : Refers(resume, n) /\ (n = Nobody \/ n \in Resume) => Refers(resume, n)'
    BY DEF TypeOK, Refers, Kept
  <1>2. \A n \in Resume : Refers(opening, resume'[n].opening)
    BY DEF TypeOK
  <1>3. Foreign'
    BY <1>1, <1>2, RowsRead DEF TypeOK, Foreign, Refers, Kept
  <1> QED
    BY <1>3 DEF TypeOK, Tables

LEMMA ApplicationWritten ==
  ASSUME TypeOK, NEW a \in Application, NEW row \in ApplicationRow,
         application' = [application EXCEPT ![a] = row],
         Refers(resume, row.resume), Refers(opening, row.opening),
         timeline' \in [Application -> Seq(Event)], UNCHANGED <<opening, resume, intake>>
  PROVE  Tables'
  <1>1. \A b \in Application : /\ Refers(resume, application'[b].resume)
                               /\ Refers(opening, application'[b].opening)
    BY DEF TypeOK
  <1>2. Foreign'
    BY <1>1 DEF TypeOK, Foreign, Refers, Kept
  <1> QED
    BY <1>2 DEF TypeOK, Tables

LEMMA TimelineWritten ==
  ASSUME TypeOK, timeline' \in [Application -> Seq(Event)],
         UNCHANGED <<opening, resume, application, intake>>
  PROVE  Tables'
  BY DEF TypeOK, Tables, Foreign, Refers, Kept

LEMMA TablesStay ==
  ASSUME TypeOK, UNCHANGED tables
  PROVE  Tables'
  BY TimelineWritten DEF tables, TypeOK

LEMMA OpeningTables ==
  ASSUME TypeOK, Locals, NEW r \in Request, OpeningHandlers(r)
  PROVE  Tables'
  <1>0. /\ opening \in [Opening -> OpeningRow]
        /\ \A o \in Opening : Kept(opening, o) => opening[o].life = "kept"
    BY DEF TypeOK, Kept
  <1>1. ASSUME NEW o \in Opening, NEW c \in Client \cup {Nobody}, NEW status \in {"active", "done"},
               OpeningCreate(o, c, status)
        PROVE  Tables'
    <2> DEFINE row == [life |-> "kept", status |-> status, completed |-> FALSE, client |-> c]
    <2>1. row \in OpeningRow /\ row.life = "kept"
      BY DEF OpeningRow, Life
    <2>2. opening' = [opening EXCEPT ![o] = row] /\ UNCHANGED <<resume, application, timeline, intake>>
      BY <1>1 DEF OpeningCreate
    <2> HIDE DEF row
    <2> QED
      BY <2>1, <2>2, OpeningWritten
  <1>2. CASE OpeningUpdate(r)
    <2>1. PICK q \in Local : q = request[r] /\ Sound(q) /\ q.step = "opening_update"
      BY <1>2 DEF TypeOK, Locals, OpeningUpdate
    <2>2. PICK o \in Opening : o = q.opening
      BY <2>1 DEF Sound, OpeningStep
    <2>3. PICK row : row = (IF opening[o].life = "kept"
                            THEN [opening[o] EXCEPT !.client = q.client, !.status = q.status]
                            ELSE opening[o])
      OBVIOUS
    <2>4. row \in OpeningRow /\ row.life = opening[o].life
      BY <1>0, <2>1, <2>3 DEF Sound, OpeningRow
    <2>5. opening' = [opening EXCEPT ![o] = row] /\ UNCHANGED <<resume, application, timeline, intake>>
      BY <1>2, <2>1, <2>2, <2>3 DEF OpeningUpdate
    <2> QED
      BY <2>4, <2>5, OpeningWritten DEF Kept
  <1>3. CASE DoneUpdate(r)
    <2>1. PICK o \in Opening : o = request[r].opening
      BY <1>3 DEF DoneUpdate, Locals, Sound, OpeningStep
    <2>2. PICK row : row = (IF opening[o].life = "kept"
                            THEN [opening[o] EXCEPT !.status = "done", !.completed = TRUE]
                            ELSE opening[o])
      OBVIOUS
    <2>3. row \in OpeningRow /\ row.life = opening[o].life
      BY <1>0, <2>2 DEF OpeningRow
    <2>4. opening' = [opening EXCEPT ![o] = row] /\ UNCHANGED <<resume, application, timeline, intake>>
      BY <1>3, <2>1, <2>2 DEF DoneUpdate
    <2> QED
      BY <2>3, <2>4, OpeningWritten DEF Kept
  <1>4. ASSUME NEW o \in Opening, Reopen(o) \/ ArchiveOpening(o) PROVE Tables'
    <2>1. PICK row : \/ row = [opening[o] EXCEPT !.status = "active", !.completed = FALSE] /\ Reopen(o)
                     \/ row = [opening[o] EXCEPT !.status = "archived"] /\ ArchiveOpening(o)
      BY <1>4
    <2>2. row \in OpeningRow /\ row.life = opening[o].life
      BY <1>0, <2>1 DEF OpeningRow
    <2>3. opening' = [opening EXCEPT ![o] = row] /\ UNCHANGED <<resume, application, timeline, intake>>
      BY <2>1 DEF Reopen, ArchiveOpening
    <2> QED
      BY <2>2, <2>3, OpeningWritten DEF Kept
  <1>5. CASE OpeningDelete(r)
    <2>1. PICK o \in Opening : o = request[r].opening
      BY <1>5 DEF OpeningDelete, Locals, Sound, OpeningStep
    <2>2. PICK row : row = (IF opening[o].life = "kept" THEN [NoOpening EXCEPT !.life = "gone"]
                            ELSE opening[o])
      OBVIOUS
    <2>3. row \in OpeningRow
      BY <1>0, <2>2 DEF OpeningRow, NoOpening, Life
    <2>4. /\ opening' = [opening EXCEPT ![o] = row]
          /\ resume' = [m \in Resume |-> IF resume[m].opening = o
                                         THEN [resume[m] EXCEPT !.opening = Nobody] ELSE resume[m]]
          /\ application' = [a \in Application |->
               IF application[a].opening = o
               THEN [application[a] EXCEPT !.opening = Nobody] ELSE application[a]]
          /\ UNCHANGED <<timeline, intake>>
      BY <1>5, <2>1, <2>2 DEF OpeningDelete
    <2>5. opening' \in [Opening -> OpeningRow]
      BY <1>0, <2>3, <2>4
    <2>6. /\ resume' \in [Resume -> ResumeRow]
          /\ \A m \in Resume : /\ resume'[m].life = resume[m].life
                               /\ \/ /\ resume'[m].opening = resume[m].opening
                                     /\ resume[m].opening # o
                                  \/ resume'[m].opening = Nobody
      BY <2>4, RowsRead DEF ResumeRow
    <2>7. /\ application' \in [Application -> ApplicationRow]
          /\ \A a \in Application :
               /\ application'[a].resume = application[a].resume
               /\ \/ /\ application'[a].opening = application[a].opening
                     /\ application[a].opening # o
                  \/ application'[a].opening = Nobody
      BY <2>4, RowsRead DEF ApplicationRow
    <2>8. \A p : Refers(opening, p) /\ p \in Opening \cup {Nobody} /\ p # o => Refers(opening, p)'
      BY <1>0, <2>4 DEF Refers, Kept
    <2>9. Refers(opening, Nobody)'
      BY DEF Refers
    <2>10. \A m \in Resume : Refers(opening, resume[m].opening)'
      BY <2>6, <2>8, <2>9, RowsRead DEF TypeOK, Refers
    <2>11. \A a \in Application : Refers(opening, application[a].opening)'
      BY <2>7, <2>8, <2>9, RowsRead DEF TypeOK, Refers
    <2>12. \A a \in Application : Refers(resume, application[a].resume)'
      BY <2>6, <2>7, RowsRead DEF TypeOK, Refers, Kept
    <2> QED
      BY <2>4, <2>5, <2>6, <2>7, <2>10, <2>11, <2>12 DEF Tables, Foreign, TypeOK
  <1>6. CASE OpeningRefused(r)
    BY <1>6, TablesStay DEF OpeningRefused
  <1>7. ASSUME NEW o, NEW c, NEW status,
               OpeningSelect(r, o, c, status) \/ DoneSelect(r, o) \/ OpeningDeleteSelect(r, o)
        PROVE  Tables'
    BY <1>7, TablesStay DEF OpeningSelect, DoneSelect, OpeningDeleteSelect
  <1>8. ASSUME NEW what, Count(r, what) PROVE Tables'
    BY <1>8, TablesStay DEF Count
  <1>9. CASE \E o \in Opening :
       \/ \E c \in Client \cup {Nobody}, status \in {"active", "done"} \cup {opening[o].status} :
            OpeningSelect(r, o, c, status)
       \/ DoneSelect(r, o) \/ OpeningDeleteSelect(r, o)
       \/ \E c \in Client \cup {Nobody}, status \in {"active", "done"} : OpeningCreate(o, c, status)
       \/ Reopen(o) \/ ArchiveOpening(o)
    BY <1>1, <1>4, <1>7, <1>9
  <1> QED
    BY <1>2, <1>3, <1>5, <1>6, <1>8, <1>9 DEF OpeningHandlers

LEMMA ResumeTables ==
  ASSUME TypeOK, Locals, NEW r \in Request, ResumeHandlers(r)
  PROVE  Tables'
  <1>1. ASSUME NEW m \in Resume, NEW c \in Client, NEW o \in Opening \cup {Nobody}, ResumeInsert(m, c, o)
        PROVE  Tables'
    <2> DEFINE row == [life |-> "kept", client |-> c, opening |-> o]
    <2>1. row \in ResumeRow /\ row.life = "kept" /\ row.opening = o
      BY DEF ResumeRow, Life
    <2>2. /\ resume' = [resume EXCEPT ![m] = row] /\ UNCHANGED <<opening, application, timeline, intake>>
          /\ Refers(opening, o)
      BY <1>1 DEF ResumeInsert
    <2> HIDE DEF row
    <2> QED
      BY <2>1, <2>2, ResumeWritten
  <1>2. CASE ResumeUpdate(r)
    <2>1. CASE Abort(r)
      BY <2>1, TablesStay DEF Abort
    <2>2. CASE ~Abort(r)
      <3>1. PICK q \in Local : q = request[r] /\ Sound(q) /\ q.step = "resume_update"
        BY <1>2 DEF TypeOK, Locals, ResumeUpdate
      <3>2. PICK m \in Resume : m = q.resume
        BY <3>1 DEF Sound
      <3>3. PICK c \in Client \cup {Nobody} : c = IF q.client = "same" THEN resume[m].client ELSE q.client
        BY <3>1, RowsRead DEF Sound
      <3>4. PICK row : row = (IF resume[m].life # "kept" THEN resume[m]
                              ELSE [resume[m] EXCEPT !.opening = q.opening, !.client = c])
        OBVIOUS
      <3>5. /\ resume' = [resume EXCEPT ![m] = row] /\ UNCHANGED <<opening, application, timeline, intake>>
            /\ Kept(resume, m) => Refers(opening, q.opening)
        BY <1>2, <2>2, <3>1, <3>2, <3>3, <3>4 DEF ResumeUpdate
      <3>b. q.opening \in Opening \cup {Nobody}
        BY DEF Local
      <3>6. row \in ResumeRow /\ row.life = resume[m].life
        BY <3>b, <3>3, <3>4, RowsRead DEF ResumeRow
      <3>7. row.opening = IF Kept(resume, m) THEN q.opening ELSE resume[m].opening
        BY <3>4, RowsRead DEF Kept, ResumeRow
      <3>8. Refers(opening, row.opening)
        BY <3>5, <3>7 DEF TypeOK
      <3> QED
        BY <3>5, <3>6, <3>8, ResumeWritten DEF Kept
    <2> QED
      BY <2>1, <2>2
  <1>3. CASE Erase(r)
    <2>1. PICK erased \in SUBSET Resume : erased = request[r].todo
      BY <1>3 DEF Erase, Locals, Sound
    <2>2. /\ resume' = [m \in Resume |-> IF m \in erased
                                         THEN [NoResume EXCEPT !.life = "gone"] ELSE resume[m]]
          /\ application' = [a \in Application |->
               IF a \in Cascade(erased) THEN [NoApplication EXCEPT !.life = "gone"] ELSE application[a]]
          /\ timeline' = [a \in Application |-> IF a \in Cascade(erased) THEN <<>> ELSE timeline[a]]
          /\ UNCHANGED <<opening, intake>>
      BY <1>3, <2>1 DEF Erase
    <2>3. /\ resume' \in [Resume -> ResumeRow]
          /\ \A m \in Resume : resume'[m].opening = resume[m].opening \/ resume'[m].opening = Nobody
      BY <2>2, RowsRead DEF ResumeRow, NoResume, Life
    <2>4. /\ application' \in [Application -> ApplicationRow]
          /\ \A a \in Application :
               \/ application'[a] = application[a] /\ application[a].resume \notin erased
               \/ application'[a].resume = Nobody /\ application'[a].opening = Nobody
      BY <2>2, RowsRead DEF ApplicationRow, NoApplication, Life, Cascade, Round
    <2>5. timeline' \in [Application -> Seq(Event)]
      BY <2>2 DEF TypeOK
    <2>6. \A m \in Resume : Refers(opening, resume[m].opening)'
      BY <2>2, <2>3 DEF TypeOK, Refers, Kept
    <2>7. \A m \in Resume : m \notin erased => resume'[m] = resume[m]
      BY <2>2
    <2>8. \A a \in Application : Refers(resume, application[a].resume)'
      BY <2>4, <2>7, RowsRead DEF TypeOK, Refers, Kept
    <2>9. \A a \in Application : Refers(opening, application[a].opening)'
      BY <2>2, <2>4 DEF TypeOK, Refers, Kept
    <2> QED
      BY <2>2, <2>3, <2>4, <2>5, <2>6, <2>8, <2>9 DEF Tables, Foreign, TypeOK
  <1>4. ASSUME NEW m, NEW c, NEW o, NEW erased,
               ResumeSelect(r, m, c, o) \/ ResumeDeleteSelect(r, m) \/ CleanupSelect(r, erased)
        PROVE  Tables'
    BY <1>4, TablesStay DEF ResumeSelect, ResumeDeleteSelect, CleanupSelect
  <1> QED
    BY <1>1, <1>2, <1>3, <1>4 DEF ResumeHandlers

(* An event that is recorded, of an application that is there.             *)
LEMMA Records ==
  ASSUME TypeOK, NEW a \in Application, NEW e \in Event,
         timeline' = [timeline EXCEPT ![a] = Append(@, e)]
  PROVE  /\ timeline' \in [Application -> Seq(Event)]
         /\ \A b \in Application : b # a => timeline'[b] = timeline[b]
         /\ Len(timeline[a]) \in Nat /\ DOMAIN timeline[a] = 1 .. Len(timeline[a])
         /\ DOMAIN timeline'[a] = 1 .. (Len(timeline[a]) + 1)
         /\ \A i \in 1 .. Len(timeline[a]) : timeline'[a][i] = timeline[a][i]
         /\ timeline'[a][Len(timeline[a]) + 1] = e
  <1>1. PICK s \in Seq(Event) : s = timeline[a]
    BY DEF TypeOK
  <1>2. PICK t : t = Append(s, e)
    OBVIOUS
  <1>3. timeline' = [timeline EXCEPT ![a] = t] /\ timeline \in [Application -> Seq(Event)]
    BY <1>1, <1>2 DEF TypeOK
  <1>4. t \in Seq(Event)
    BY <1>2
  <1>5. timeline'[a] = t
    BY <1>3
  <1>6. /\ Len(s) \in Nat /\ DOMAIN s = 1 .. Len(s) /\ DOMAIN t = 1 .. (Len(s) + 1)
        /\ \A i \in 1 .. Len(s) : t[i] = s[i]
        /\ t[Len(s) + 1] = e
    BY <1>2
  <1> QED
    BY <1>1, <1>3, <1>4, <1>5, <1>6

NewRow(m, c, o, round) ==
  [life |-> "kept", status |-> "open", round |-> round, resume |-> m, client |-> c, opening |-> o]

LEMMA ApplicationTables ==
  ASSUME TypeOK, Locals, NEW r \in Request, ApplicationHandlers(r)
  PROVE  Tables'
  <1>0. PICK q \in Local : q = request[r] /\ Sound(q)
    BY DEF TypeOK, Locals
  <1>a. CASE Abort(r)
    BY <1>a, TablesStay DEF Abort
  <1>b. timeline \in [Application -> Seq(Event)] /\ application \in [Application -> ApplicationRow]
    BY DEF TypeOK
  <1>1. CASE ApplicationInsert(r)
    <2>1. CASE ~Abort(r)
      <3>1. /\ q.resume \in Resume /\ q.client \in Client \cup {Nobody} /\ q.opening \in Opening \cup {Nobody}
            /\ "initial" \in Round
        BY <1>0, <1>1 DEF ApplicationInsert, Sound, Local, Round
      <3>2. PICK a \in Application : InsertApplication(a, q.resume, q.client, q.opening, "initial")
        BY <1>0, <1>1, <2>1 DEF ApplicationInsert
      <3>b. PICK row : row = NewRow(q.resume, q.client, q.opening, "initial")
        OBVIOUS
      <3>c. q.resume \in Resume \cup {Nobody} /\ q.opening \in Opening \cup {Nobody}
        BY <3>1
      <3>a. /\ row \in ApplicationRow /\ row.life = "kept" /\ row.resume = q.resume
            /\ row.client = q.client /\ row.opening = q.opening /\ row.round = "initial"
        BY <3>1, <3>b, <3>c DEF ApplicationRow, Life, NewRow
      <3>3. application' = [application EXCEPT ![a] = row]
        BY <3>2, <3>b DEF InsertApplication, NewRow
      <3>4. /\ Refers(resume, q.resume) /\ Refers(opening, q.opening)
            /\ UNCHANGED <<opening, resume, timeline, intake>>
        BY <1>0, <1>1, <2>1 DEF ApplicationInsert, Refers
      <3> QED
        BY <1>b, <3>a, <3>3, <3>4, ApplicationWritten
    <2> QED
      BY <1>a, <2>1
  <1>2. CASE CreatedEvent(r) \/ StatusEvent(r)
    <2>1. CASE ~Abort(r)
      <3>1. PICK a \in Application, e \in Event : timeline' = [timeline EXCEPT ![a] = Append(@, e)]
        <4>1. /\ [kind |-> "created", round |-> "initial", mail |-> 0] \in Event
              /\ [kind |-> "status", round |-> "none", mail |-> 0] \in Event
          BY DEF Event, Round
        <4>2. q.application \in Application
          BY <1>0, <1>2 DEF CreatedEvent, StatusEvent, Sound, RowStep
        <4> QED
          BY <1>0, <1>2, <2>1, <4>1, <4>2 DEF CreatedEvent, StatusEvent, Record
      <3> QED
        BY <1>2, <2>1, <3>1, Records, TimelineWritten DEF CreatedEvent, StatusEvent
    <2> QED
      BY <1>a, <2>1
  <1>3. CASE StatusUpdate(r)
    <2>1. PICK a \in Application : a = q.application
      BY <1>0, <1>3 DEF StatusUpdate, Sound, RowStep
    <2>2. PICK row : row = (IF application[a].life = "kept"
                            THEN [application[a] EXCEPT !.status = q.status, !.round = q.round]
                            ELSE application[a])
      OBVIOUS
    <2>3. row \in ApplicationRow /\ row.resume = application[a].resume /\ row.opening = application[a].opening
      BY <1>0, <1>3, <2>2, RowsRead DEF StatusUpdate, Sound, ApplicationRow
    <2>4. /\ application' = [application EXCEPT ![a] = row]
          /\ UNCHANGED <<opening, resume, timeline, intake>>
      BY <1>0, <1>3, <2>1, <2>2 DEF StatusUpdate
    <2>5. Refers(resume, row.resume) /\ Refers(opening, row.opening)
      BY <2>3 DEF TypeOK
    <2> QED
      BY <1>b, <2>3, <2>4, <2>5, ApplicationWritten
  <1>4. ASSUME NEW a \in Application, NEW status \in {"Closed", "Archived"}, SetStatus(a, status)
        PROVE  Tables'
    <2>1. PICK row : row = [application[a] EXCEPT !.status = status]
      OBVIOUS
    <2>2. row \in ApplicationRow /\ row.resume = application[a].resume /\ row.opening = application[a].opening
      BY <2>1, RowsRead DEF ApplicationRow
    <2>3. /\ application' = [application EXCEPT ![a] = row]
          /\ UNCHANGED <<opening, resume, timeline, intake>>
      BY <1>4, <2>1 DEF SetStatus
    <2>4. Refers(resume, row.resume) /\ Refers(opening, row.opening)
      BY <2>2 DEF TypeOK
    <2> QED
      BY <1>b, <2>2, <2>3, <2>4, ApplicationWritten
  <1>5. CASE DeleteEvents(r)
    <2>1. timeline' \in [Application -> Seq(Event)]
      <3>1. PICK a : timeline' = [timeline EXCEPT ![a] = <<>>]
        BY <1>5 DEF DeleteEvents
      <3>2. <<>> \in Seq(Event)
        OBVIOUS
      <3> QED
        BY <1>b, <3>1, <3>2
    <2> QED
      BY <1>5, <2>1, TimelineWritten DEF DeleteEvents
  <1>6. CASE DeleteApplication(r)
    <2>1. PICK a \in Application : a = q.application
      BY <1>0, <1>6 DEF DeleteApplication, Sound, RowStep
    <2>2. PICK row \in ApplicationRow : /\ row = [NoApplication EXCEPT !.life = "gone"]
                                        /\ row.resume = Nobody /\ row.opening = Nobody
      <3> DEFINE gone == [NoApplication EXCEPT !.life = "gone"]
      <3>1. gone \in ApplicationRow /\ gone.resume = Nobody /\ gone.opening = Nobody
        BY DEF NoApplication, ApplicationRow, Life, Round
      <3> QED
        BY <3>1
    <2>3. /\ application' = [application EXCEPT ![a] = row]
          /\ timeline' = [timeline EXCEPT ![a] = <<>>] /\ UNCHANGED <<opening, resume, intake>>
      BY <1>0, <1>6, <2>1, <2>2 DEF DeleteApplication
    <2>4. timeline' \in [Application -> Seq(Event)]
      BY <1>b, <2>3
    <2>5. Refers(resume, row.resume) /\ Refers(opening, row.opening)
      BY <2>2 DEF Refers
    <2> QED
      BY <2>3, <2>4, <2>5, ApplicationWritten
  <1>7. ASSUME NEW m, NEW c, NEW o, NEW a, NEW round,
               \/ ApplicationSelect(r, m, c, o) \/ StatusSelect(r, a, "open", round)
               \/ ApplicationDeleteSelect(r, a)
        PROVE  Tables'
    BY <1>7, TablesStay DEF ApplicationSelect, StatusSelect, ApplicationDeleteSelect
  <1> QED
    BY <1>1, <1>2, <1>3, <1>4, <1>5, <1>6, <1>7
       DEF ApplicationHandlers, CloseApplication, ArchiveApplication

LEMMA IntakeTables ==
  ASSUME TypeOK, Locals, NEW r \in Request, IntakeHandlers(r)
  PROVE  Tables'
  <1>0. PICK q \in Local : q = request[r] /\ Sound(q)
    BY DEF TypeOK, Locals
  <1>a. CASE ConfirmFails(r)
    BY <1>a, TablesStay DEF ConfirmFails
  <1>b. timeline \in [Application -> Seq(Event)] /\ application \in [Application -> ApplicationRow]
    BY DEF TypeOK
  <1>1. CASE IntakeInsert(r)
    <2>1. PICK c \in Client \cup {Nobody} : intake' = [intake EXCEPT ![q.mail] = c]
      <3>1. \A c : c \in (IF q.client # Nobody THEN {q.client} ELSE OneOf(ActiveClient, Nobody)) =>
              c \in Client \cup {Nobody}
        <4>1. q.client \in Client \cup {Nobody}
          BY <1>0, <1>1 DEF IntakeInsert, Sound, MailStep
        <4> QED
          BY <4>1, Values DEF OneOf
      <3> QED
        BY <1>0, <1>1, <3>1 DEF IntakeInsert
    <2>2. intake' \in [Mail -> Client \cup {Nobody}]
      BY <2>1 DEF TypeOK
    <2>3. UNCHANGED <<opening, resume, application, timeline>>
      BY <1>1 DEF IntakeInsert
    <2>4. Foreign'
      BY <2>3 DEF TypeOK, Foreign, Refers, Kept
    <2> QED
      BY <2>2, <2>3, <2>4 DEF TypeOK, Tables
  <1>2. CASE MailUpdate(r)
    <2>1. CASE ~ConfirmFails(r)
      <3>1. PICK a \in Application : a = q.application
        BY <1>0, <1>2 DEF MailUpdate, Sound, Telling
      <3>2. PICK row : row = [application[a] EXCEPT !.status = "open", !.round = q.round]
        OBVIOUS
      <3>3. q.round \in Round
        BY <1>0, <1>2 DEF MailUpdate, Sound, Telling, MailStep
      <3>4. row \in ApplicationRow /\ row.resume = application[a].resume /\ row.opening = application[a].opening
        BY <3>2, <3>3, RowsRead DEF ApplicationRow
      <3>5. /\ application' = [application EXCEPT ![a] = row]
            /\ UNCHANGED <<opening, resume, timeline, intake>>
        BY <1>0, <1>2, <2>1, <3>1, <3>2 DEF MailUpdate
      <3>6. Refers(resume, row.resume) /\ Refers(opening, row.opening)
        BY <3>4 DEF TypeOK
      <3> QED
        BY <1>b, <3>4, <3>5, <3>6, ApplicationWritten
    <2> QED
      BY <1>a, <2>1
  <1>3. CASE MailInsert(r)
    <2>1. CASE ~ConfirmFails(r)
      <3>1. /\ q.resume \in Resume \cup {Nobody} /\ q.client \in Client \cup {Nobody} /\ q.round \in Round
        BY <1>0, <1>3 DEF MailInsert, Sound, Local, MailStep
      <3>2. PICK a \in Application : InsertApplication(a, q.resume, q.client, Nobody, q.round)
        BY <1>0, <1>3, <2>1 DEF MailInsert
      <3>b. PICK row : row = NewRow(q.resume, q.client, Nobody, q.round)
        OBVIOUS
      <3>c. q.resume \in Resume \cup {Nobody} /\ Nobody \in Opening \cup {Nobody}
        BY <3>1
      <3>a. /\ row \in ApplicationRow /\ row.life = "kept" /\ row.resume = q.resume
            /\ row.client = q.client /\ row.opening = Nobody /\ row.round = q.round
        BY <3>1, <3>b, <3>c DEF ApplicationRow, Life, NewRow
      <3>3. application' = [application EXCEPT ![a] = row]
        BY <3>2, <3>b DEF InsertApplication, NewRow
      <3>4. /\ Refers(resume, q.resume) /\ Refers(opening, Nobody)
            /\ UNCHANGED <<opening, resume, timeline, intake>>
        BY <1>0, <1>3, <2>1 DEF MailInsert, Refers
      <3> QED
        BY <1>b, <3>a, <3>3, <3>4, ApplicationWritten
    <2> QED
      BY <1>a, <2>1
  <1>4. CASE SubmittedEvent(r) \/ MailEvent(r)
    <2>1. CASE ~ConfirmFails(r)
      <3>1. PICK a \in Application, e \in Event : timeline' = [timeline EXCEPT ![a] = Append(@, e)]
        <4>1. q.application \in Application /\ q.mail \in Mail /\ q.round \in Round
          BY <1>0, <1>4 DEF SubmittedEvent, MailEvent, Sound, Telling, MailStep
        <4>2. /\ [kind |-> "submitted", round |-> "initial", mail |-> q.mail] \in Event
              /\ [kind |-> "round", round |-> q.round, mail |-> q.mail] \in Event
          BY <4>1 DEF Event, Round
        <4> QED
          BY <1>0, <1>4, <2>1, <4>1, <4>2 DEF SubmittedEvent, MailEvent, Record
      <3> QED
        BY <1>4, <2>1, <3>1, Records, TimelineWritten DEF SubmittedEvent, MailEvent
    <2> QED
      BY <1>a, <2>1
  <1>5. CASE Find(r) \/ Discard(r) \/ ConfirmLost(r)
    BY <1>a, <1>5, TablesStay DEF Find, Discard, ConfirmLost
  <1>6. ASSUME NEW c, NEW m, NEW form, NEW a, NEW round,
               \/ Analyze(r, c, m, a, form) \/ AnalyzeFile(r, c, m, form) \/ Edit(r, c, m)
               \/ Confirm(r, round) \/ ConfirmDirect(r, c, m, round)
        PROVE  Tables'
    BY <1>6, TablesStay DEF Analyze, AnalyzeFile, Edit, Confirm, ConfirmDirect
  <1>7. CASE \E c \in Client \cup {Nobody}, m \in Resume \cup {Nobody}, form \in Client :
       AnalyzeFile(r, c, m, form) \/ \E a \in Application \cup {0} : Analyze(r, c, m, a, form)
    BY <1>6, <1>7
  <1> QED
    BY <1>1, <1>2, <1>3, <1>4, <1>5, <1>6, <1>7 DEF IntakeHandlers

LEMMA TypeStep ==
  ASSUME TypeOK, Locals, [Next]_vars
  PROVE  TypeOK' /\ Locals'
  <1>1. ASSUME NEW r \in Request,
               OpeningHandlers(r) \/ ResumeHandlers(r) \/ ApplicationHandlers(r) \/ IntakeHandlers(r)
        PROVE  TypeOK' /\ Locals'
    <2>1. Moved(r)
      BY <1>1, HandlersMove
    <2>2. Tables'
      BY <1>1, OpeningTables, ResumeTables, ApplicationTables, IntakeTables
    <2> QED
      BY <2>1, <2>2 DEF Moved, TypeOK, Tables, Foreign
  <1>2. CASE UNCHANGED vars
    <2>1. Tables'
      BY <1>2, TablesStay DEF vars
    <2> QED
      BY <1>2, <2>1 DEF vars, control, Locals, TypeOK, Tables, Foreign
  <1> QED
    BY <1>1, <1>2 DEF Next

-----------------------------------------------------------------------------
(* What a step is to the applications and their timelines.                 *)

(* Nothing that matters to a mail, a round or a twin is written, except a  *)
(* round whose window is marked.                                           *)
SameApps ==
  \A a \in Application :
    /\ application'[a].life = application[a].life
    /\ application'[a].resume = application[a].resume
    /\ application'[a].client = application[a].client
    /\ application'[a].round = application[a].round \/ <<"round", a>> \in slipped'

Quiet == SameApps /\ timeline' = timeline /\ intake' = intake /\ slipped \subseteq slipped'

(* A deletion of an opening begins to count its links, or counts some.     *)
Counts(r) ==
  \/ request'[r].todo = {"resumes", "applications"}
  \/ \E what \in {"resumes", "applications"} : Count(r, what)

(* The handler r is, after the step, not confirming and not creating; what *)
(* it was doing is recorded as lost.                                       *)
Drops(r) ==
  /\ request'[r].mail = 0 /\ request'[r].step \notin MailStep \cup {"created_event"}
  /\ request'[r].application # 0 => application'[request'[r].application].life # "none"
  /\ request[r].step # "no_application"
  /\ request[r].mail # 0 => <<"lost", request[r].mail>> \in slipped'
  /\ Half(r) \subseteq slipped'
  /\ request'[r].step = "count" => Counts(r)

Stays(r) == Quiet /\ (request' = request \/ Drops(r))

(* Every variable of the handler but its step and its application.         *)
Carries(r) ==
  /\ request'[r].client = request[r].client /\ request'[r].resume = request[r].resume
  /\ request'[r].round = request[r].round /\ request'[r].mail = request[r].mail

LEMMA Takes ==
  ASSUME TypeOK, NEW r \in Request, NEW new, Begin(r, new)
  PROVE  request'[r] = new /\ request[r] = Idle
  BY DEF Begin, TypeOK

LEMMA Steps ==
  ASSUME TypeOK, NEW r \in Request, NEW step, Goto(r, step)
  PROVE  /\ request'[r].step = step /\ request'[r].application = request[r].application
         /\ Carries(r)
  <1>1. PICK q \in Local : q = request[r]
    BY DEF TypeOK
  <1>2. request'[r] = [q EXCEPT !.step = step]
    BY <1>1 DEF TypeOK, Goto
  <1>3. /\ [q EXCEPT !.step = step].step = step /\ [q EXCEPT !.step = step].application = q.application
        /\ [q EXCEPT !.step = step].client = q.client /\ [q EXCEPT !.step = step].resume = q.resume
        /\ [q EXCEPT !.step = step].round = q.round /\ [q EXCEPT !.step = step].mail = q.mail
    BY DEF Local
  <1> QED
    BY <1>1, <1>2, <1>3 DEF Carries

LEMMA Ends ==
  ASSUME TypeOK, NEW r \in Request, Answer(r)
  PROVE  /\ request'[r] = Idle
         /\ request'[r].mail = 0 /\ request'[r].step = "idle" /\ request'[r].application = 0
  <1>1. request'[r] = Idle
    BY DEF Answer, TypeOK
  <1>2. Idle.mail = 0 /\ Idle.step = "idle" /\ Idle.application = 0
    BY DEF Idle
  <1> QED
    BY <1>1, <1>2

(* A handler with nothing half done may do anything that is quiet.         *)
LEMMA Harmless ==
  ASSUME TypeOK, Locals, NEW r \in Request,
         request[r].step \notin MailStep \cup {"created_event", "no_application"},
         request'[r].mail = 0, request'[r].step \notin MailStep \cup {"created_event"},
         request'[r].application # 0 => application'[request'[r].application].life # "none",
         request'[r].step = "count" => Counts(r)
  PROVE  Drops(r)
  <1>1. request[r].mail = 0
    BY DEF Locals, Sound
  <1>2. Half(r) = {}
    BY DEF Half, Unrecorded, MailStep, Telling
  <1> QED
    BY <1>1, <1>2 DEF Drops

LEMMA StopsQuietly ==
  ASSUME TypeOK, Locals, NEW r \in Request, Abort(r),
         request[r].step \notin MailStep \cup {"no_application"}
  PROVE  Stays(r)
  <1>1. request[r].mail = 0
    BY DEF Locals, Sound
  <1>2. Quiet /\ Half(r) \subseteq slipped'
    BY DEF Abort, Quiet, SameApps, tables
  <1>3. Answer(r)
    BY DEF Abort
  <1> QED
    BY <1>1, <1>2, <1>3, Ends DEF Stays, Drops, MailStep, Telling

LEMMA FailsQuietly ==
  ASSUME TypeOK, Locals, NEW r \in Request, ConfirmFails(r), request[r].step \in MailStep,
         request[r].application # 0 => application[request[r].application].life # "none"
  PROVE  Stays(r)
  <1>1. PICK q \in Local : q = request[r]
    BY DEF TypeOK
  <1>2. request'[r] = [q EXCEPT !.step = "review", !.mail = 0, !.round = "same"]
    BY <1>1 DEF TypeOK, ConfirmFails
  <1>3. request'[r].mail = 0 /\ request'[r].step = "review" /\ request'[r].application = q.application
    BY <1>2 DEF Local
  <1>4. Quiet /\ Half(r) \subseteq slipped' /\ <<"lost", q.mail>> \in slipped'
    BY <1>1 DEF ConfirmFails, Quiet, SameApps, tables
  <1>5. application' = application
    BY DEF ConfirmFails, tables
  <1> QED
    BY <1>1, <1>3, <1>4, <1>5 DEF Stays, Drops, MailStep, Telling

LEMMA OpeningStays ==
  ASSUME TypeOK, Locals, Rows, NEW r \in Request, OpeningHandlers(r)
  PROVE  Stays(r)
  <1>0. Idle.step = "idle" /\ Idle.mail = 0 /\ Idle.application = 0
    BY DEF Idle
  <1>1. ASSUME NEW o, NEW c, NEW status, OpeningSelect(r, o, c, status) PROVE Stays(r)
    <2>1. request[r] = Idle /\ request'[r] = [Idle EXCEPT !.step = "opening_update", !.opening = o,
                                                          !.client = c, !.status = status]
      BY <1>1, Takes DEF OpeningSelect
    <2>2. request'[r].step = "opening_update" /\ request'[r].mail = 0 /\ request'[r].application = 0
      BY <2>1 DEF Idle
    <2>3. Quiet
      BY <1>1 DEF OpeningSelect, Quiet, SameApps, tables
    <2> QED
      BY <1>0, <2>1, <2>2, <2>3, Harmless DEF Stays, MailStep, Telling
  <1>2. ASSUME NEW o, DoneSelect(r, o) PROVE Stays(r)
    <2>1. request[r] = Idle /\ request'[r] = [Idle EXCEPT !.step = "done", !.opening = o]
      BY <1>2, Takes DEF DoneSelect
    <2>2. request'[r].step = "done" /\ request'[r].mail = 0 /\ request'[r].application = 0
      BY <2>1 DEF Idle
    <2>3. Quiet
      BY <1>2 DEF DoneSelect, Quiet, SameApps, tables
    <2> QED
      BY <1>0, <2>1, <2>2, <2>3, Harmless DEF Stays, MailStep, Telling
  <1>3. ASSUME NEW o, OpeningDeleteSelect(r, o) PROVE Stays(r)
    <2>1. request[r] = Idle /\ request'[r] = [Idle EXCEPT !.step = "count", !.opening = o,
                                                          !.todo = {"resumes", "applications"}]
      BY <1>3, Takes DEF OpeningDeleteSelect
    <2>2. request'[r].step = "count" /\ request'[r].mail = 0 /\ request'[r].application = 0
      BY <2>1 DEF Idle
    <2>3. Quiet
      BY <1>3 DEF OpeningDeleteSelect, Quiet, SameApps, tables
    <2>4. Counts(r)
      BY <2>1 DEF Idle, Counts
    <2> QED
      BY <1>0, <2>1, <2>2, <2>3, <2>4, Harmless DEF Stays, MailStep, Telling
  <1>4. ASSUME NEW o, NEW c, NEW status,
               OpeningCreate(o, c, status) \/ Reopen(o) \/ ArchiveOpening(o)
        PROVE  Stays(r)
    BY <1>4 DEF OpeningCreate, Reopen, ArchiveOpening, Stays, Quiet, SameApps
  <1>5. CASE OpeningUpdate(r) \/ DoneUpdate(r) \/ OpeningRefused(r)
    <2>1. Quiet /\ Answer(r)
      BY <1>5 DEF OpeningUpdate, DoneUpdate, OpeningRefused, Quiet, SameApps, tables
    <2>2. request[r].step \in OpeningStep
      BY <1>5 DEF OpeningUpdate, DoneUpdate, OpeningRefused, OpeningStep
    <2> QED
      BY <2>1, <2>2, Ends, Harmless DEF Stays, MailStep, Telling, OpeningStep
  <1>6. CASE OpeningDelete(r)
    <2>1. PICK o : application' = [a \in Application |->
                     IF application[a].opening = o
                     THEN [application[a] EXCEPT !.opening = Nobody] ELSE application[a]]
      BY <1>6 DEF OpeningDelete
    <2>2. SameApps
      BY <2>1, RowsRead DEF SameApps, ApplicationRow
    <2>3. Quiet /\ Answer(r) /\ request[r].step = "count"
      BY <1>6, <2>2 DEF OpeningDelete, Quiet
    <2> QED
      BY <2>3, Ends, Harmless DEF Stays, MailStep, Telling
  <1>7. ASSUME NEW what \in {"resumes", "applications"}, Count(r, what) PROVE Stays(r)
    <2>1. PICK q \in Local : q = request[r] /\ q.step = "count" /\ Sound(q)
      BY <1>7 DEF Count, TypeOK, Locals
    <2>2. PICK linked : request'[r] = [q EXCEPT !.todo = @ \ {what}, !.linked = linked]
      BY <1>7, <2>1 DEF Count, TypeOK
    <2>3. /\ request'[r].step = "count" /\ request'[r].mail = q.mail
          /\ request'[r].application = q.application
      BY <2>1, <2>2 DEF Local
    <2>4. q.mail = 0
      BY <2>1 DEF Sound, MailStep, Telling
    <2>5. Quiet /\ application' = application
      BY <1>7 DEF Count, Quiet, SameApps, tables
    <2> QED
      BY <1>7, <2>1, <2>3, <2>4, <2>5, Harmless DEF Stays, MailStep, Telling, Rows, Counts
  <1>8. CASE \E o \in Opening :
       \/ \E c \in Client \cup {Nobody}, status \in {"active", "done"} \cup {opening[o].status} :
            OpeningSelect(r, o, c, status)
       \/ DoneSelect(r, o) \/ OpeningDeleteSelect(r, o)
       \/ \E c \in Client \cup {Nobody}, status \in {"active", "done"} : OpeningCreate(o, c, status)
       \/ Reopen(o) \/ ArchiveOpening(o)
    BY <1>1, <1>2, <1>3, <1>4, <1>8
  <1> QED
    BY <1>5, <1>6, <1>7, <1>8 DEF OpeningHandlers

(* Applications lose their events, which is marked, or go with them.       *)
EventsMarked ==
  \A a \in Application :
    timeline'[a] = <<>> =>
      \A i \in DOMAIN timeline[a] : <<"mail", timeline[a][i].mail>> \in slipped'

Clears(r) ==
  /\ EventsMarked
  /\ \A a \in Application :
       /\ timeline'[a] = timeline[a] \/ timeline'[a] = <<>>
       /\ application'[a] = application[a] \/ (application'[a].life = "gone" /\ timeline'[a] = <<>>)
  /\ intake' = intake /\ slipped \subseteq slipped'
  /\ request[r].step \notin MailStep \cup {"created_event"} /\ request[r].mail = 0
  /\ request'[r].step \in {"no_application", "idle"} /\ request'[r].mail = 0
  /\ request'[r].application \in {0, request[r].application}
  /\ request[r].step = "no_application" => application'[request[r].application].life = "gone"

LEMMA Marked ==
  ASSUME NEW S, NEW a \in S, NEW i \in DOMAIN timeline[a], slipped' = slipped \cup EventMails(S)
  PROVE  <<"mail", timeline[a][i].mail>> \in slipped'
  <1>1. <<"mail", timeline[a][i].mail>> \in {<<"mail", timeline[a][j].mail>> : j \in DOMAIN timeline[a]}
    OBVIOUS
  <1>2. <<"mail", timeline[a][i].mail>> \in EventMails(S)
    BY <1>1 DEF EventMails
  <1> QED
    BY <1>2

LEMMA ResumeCourse ==
  ASSUME TypeOK, Locals, Rows, NEW r \in Request, ResumeHandlers(r)
  PROVE  Stays(r) \/ Clears(r)
  <1>0. Idle.step = "idle" /\ Idle.mail = 0 /\ Idle.application = 0
    BY DEF Idle
  <1>1. ASSUME NEW m, NEW c, NEW o, ResumeInsert(m, c, o) PROVE Stays(r)
    BY <1>1 DEF ResumeInsert, Stays, Quiet, SameApps
  <1>2. ASSUME NEW m, NEW c, NEW o, ResumeSelect(r, m, c, o) PROVE Stays(r)
    <2>1. request[r] = Idle /\ request'[r] = [Idle EXCEPT !.step = "resume_update", !.resume = m,
                                                          !.client = c, !.opening = o]
      BY <1>2, Takes DEF ResumeSelect
    <2>2. request'[r].step = "resume_update" /\ request'[r].mail = 0 /\ request'[r].application = 0
      BY <2>1 DEF Idle
    <2>3. Quiet
      BY <1>2 DEF ResumeSelect, Quiet, SameApps, tables
    <2> QED
      BY <1>0, <2>1, <2>2, <2>3, Harmless DEF Stays, MailStep, Telling
  <1>3. ASSUME NEW erased, Begin(r, [Idle EXCEPT !.step = "erase", !.todo = erased]),
               UNCHANGED <<tables, slipped>>
        PROVE  Stays(r)
    <2>1. request[r] = Idle /\ request'[r] = [Idle EXCEPT !.step = "erase", !.todo = erased]
      BY <1>3, Takes
    <2>2. request'[r].step = "erase" /\ request'[r].mail = 0 /\ request'[r].application = 0
      BY <2>1 DEF Idle
    <2>3. Quiet
      BY <1>3 DEF Quiet, SameApps, tables
    <2> QED
      BY <1>0, <2>1, <2>2, <2>3, Harmless DEF Stays, MailStep, Telling
  <1>4. ASSUME NEW m, ResumeDeleteSelect(r, m) PROVE Stays(r)
    BY <1>3, <1>4 DEF ResumeDeleteSelect
  <1>5. ASSUME NEW erased, CleanupSelect(r, erased) PROVE Stays(r)
    BY <1>3, <1>5 DEF CleanupSelect
  <1>6. CASE ResumeUpdate(r)
    <2>1. request[r].step = "resume_update"
      BY <1>6 DEF ResumeUpdate
    <2>2. CASE Abort(r)
      BY <2>1, <2>2, StopsQuietly DEF MailStep, Telling
    <2>3. CASE ~Abort(r)
      <3>1. Quiet /\ Answer(r)
        BY <1>6, <2>3 DEF ResumeUpdate, Quiet, SameApps
      <3> QED
        BY <2>1, <3>1, Ends, Harmless DEF Stays, MailStep, Telling
    <2> QED
      BY <2>2, <2>3
  <1>7. CASE Erase(r)
    <2>1. PICK S : S = Cascade(request[r].todo)
      OBVIOUS
    <2>2. /\ application' = [a \in Application |->
               IF a \in S THEN [NoApplication EXCEPT !.life = "gone"] ELSE application[a]]
          /\ timeline' = [a \in Application |-> IF a \in S THEN <<>> ELSE timeline[a]]
          /\ slipped' = slipped \cup EventMails(S)
          /\ request[r].step = "erase" /\ Answer(r) /\ intake' = intake
      BY <1>7, <2>1 DEF Erase
    <2>3. [NoApplication EXCEPT !.life = "gone"].life = "gone"
      BY DEF NoApplication
    <2>4. \A a \in Application :
            IF a \in S THEN application'[a].life = "gone" /\ timeline'[a] = <<>>
            ELSE application'[a] = application[a] /\ timeline'[a] = timeline[a]
      BY <2>2, <2>3
    <2>5. EventsMarked
      <3>1. SUFFICES ASSUME NEW a \in Application, timeline'[a] = <<>>, NEW i \in DOMAIN timeline[a]
                     PROVE  <<"mail", timeline[a][i].mail>> \in slipped'
        BY DEF EventsMarked
      <3>2. a \in S
        BY <2>4, <3>1
      <3> QED
        BY <2>2, <3>2, Marked
    <2>6. request[r].mail = 0
      BY <2>2 DEF Locals, Sound, MailStep, Telling
    <2>7. \A a \in Application :
            /\ timeline'[a] = timeline[a] \/ timeline'[a] = <<>>
            /\ application'[a] = application[a] \/ (application'[a].life = "gone" /\ timeline'[a] = <<>>)
      BY <2>4
    <2>8. /\ request[r].step \notin MailStep \cup {"created_event"} /\ request[r].step # "no_application"
          /\ request'[r].step = "idle" /\ request'[r].mail = 0
          /\ request'[r].application \in {0, request[r].application}
      BY <2>2, Ends DEF MailStep, Telling
    <2>9. intake' = intake /\ slipped \subseteq slipped'
      BY <2>2
    <2> QED
      BY <2>5, <2>6, <2>7, <2>8, <2>9 DEF Clears
  <1> QED
    BY <1>1, <1>2, <1>4, <1>5, <1>6, <1>7 DEF ResumeHandlers

(* A new application, created or found missing.                            *)
Inserts(r) ==
  \E a \in Application, row \in ApplicationRow :
    /\ application[a].life = "none"
    /\ application' = [application EXCEPT ![a] = row] /\ row.life = "kept"
    /\ row.resume = request[r].resume /\ row.client = request[r].client
    /\ UNCHANGED <<timeline, intake, started>> /\ slipped \subseteq slipped'
    /\ request'[r].application = a /\ Carries(r)
    /\ \/ /\ request[r].step = "application_insert" /\ request'[r].step = "created_event"
          /\ row.round = "initial"
          /\ Twins(row.resume, row.client) # {} \/ Looked(r, row.resume, row.client) =>
               <<"twin", row.resume, row.client>> \in slipped'
       \/ /\ request[r].step = "mail_insert" /\ request'[r].step = "submitted_event"
          /\ row.round = request[r].round
          /\ row.resume # Nobody /\ (row.client = Nobody \/ Looked(r, row.resume, row.client)) =>
               <<"twin", row.resume, row.client>> \in slipped'

(* A confirmation moves an application to the round of its mail.           *)
Rounds(r) ==
  \E a \in Application, row \in ApplicationRow :
    /\ request[r].application = a /\ Kept(application, a)
    /\ application' = [application EXCEPT ![a] = row] /\ row.life = "kept"
    /\ row.resume = application[a].resume /\ row.client = application[a].client
    /\ row.round = request[r].round
    /\ UNCHANGED <<timeline, intake, started>> /\ slipped \subseteq slipped'
    /\ Untold(r, a) => <<"round", a>> \in slipped'
    /\ request[r].step = "mail_update" /\ request'[r].step = "mail_event"
    /\ request'[r].application = a /\ Carries(r)

(* An event is recorded; its mail is that of the handler.                  *)
Tells(r) ==
  \E a \in Application, e \in Event :
    /\ request[r].application = a /\ Kept(application, a)
    /\ timeline' = [timeline EXCEPT ![a] = Append(@, e)]
    /\ UNCHANGED <<application, intake, started, slipped>>
    /\ e.mail = request[r].mail
    /\ \/ request[r].step = "status_event" /\ e.kind = "status"
       \/ request[r].step = "created_event" /\ e.kind = "created" /\ e.round = "initial"
       \/ request[r].step = "submitted_event" /\ e.kind = "submitted" /\ e.round = "initial"
       \/ request[r].step = "mail_event" /\ e.kind = "round" /\ e.round = request[r].round
    /\ \/ /\ request'[r] = Idle
          /\ request[r].step = "submitted_event" => request[r].round = "screening"
       \/ /\ request[r].step = "submitted_event" /\ request'[r].step = "mail_event"
          /\ request'[r].application = a /\ Carries(r)

LEMMA ApplicationCourse ==
  ASSUME TypeOK, Locals, Rows, NEW r \in Request, ApplicationHandlers(r)
  PROVE  Stays(r) \/ Clears(r) \/ Inserts(r) \/ Tells(r)
  <1>0. Idle.step = "idle" /\ Idle.mail = 0 /\ Idle.application = 0
    BY DEF Idle
  <1>a. PICK q \in Local : q = request[r] /\ Sound(q)
    BY DEF TypeOK, Locals
  <1>1. ASSUME NEW m, NEW c, NEW o, ApplicationSelect(r, m, c, o) PROVE Stays(r)
    <2>1. PICK d : d = IF c = Nobody THEN resume[m].client ELSE c
      OBVIOUS
    <2>2. request[r] = Idle /\ request'[r] = [Idle EXCEPT !.step = "application_insert", !.resume = m,
                                                          !.opening = o, !.client = d]
      BY <1>1, <2>1, Takes DEF ApplicationSelect
    <2>3. /\ request'[r].step = "application_insert" /\ request'[r].mail = 0
          /\ request'[r].application = 0
      BY <2>2 DEF Idle
    <2>4. Quiet
      BY <1>1 DEF ApplicationSelect, Quiet, SameApps, tables
    <2> QED
      BY <1>0, <2>2, <2>3, <2>4, Harmless DEF Stays, MailStep, Telling
  <1>2. ASSUME NEW a \in Application, NEW status, NEW round, StatusSelect(r, a, status, round)
        PROVE  Stays(r)
    <2>1. PICK told : told = IF round = "same" THEN application[a].round ELSE round
      OBVIOUS
    <2>2. request[r] = Idle /\ request'[r] = [Idle EXCEPT !.step = "status_update",
                                     !.application = a, !.status = status, !.round = told]
      BY <1>2, <2>1, Takes DEF StatusSelect
    <2>3. /\ request'[r].step = "status_update" /\ request'[r].mail = 0
          /\ request'[r].application = a
      BY <2>2 DEF Idle
    <2>4. Quiet /\ application' = application /\ application[a].life # "none"
      BY <1>2 DEF StatusSelect, Quiet, SameApps, tables, Kept
    <2> QED
      BY <1>0, <2>2, <2>3, <2>4, Harmless DEF Stays, MailStep, Telling
  <1>3. ASSUME NEW a \in Application, ApplicationDeleteSelect(r, a) PROVE Stays(r)
    <2>1. request[r] = Idle /\ request'[r] = [Idle EXCEPT !.step = "no_events", !.application = a]
      BY <1>3, Takes DEF ApplicationDeleteSelect
    <2>2. request'[r].step = "no_events" /\ request'[r].mail = 0 /\ request'[r].application = a
      BY <2>1 DEF Idle
    <2>3. Quiet /\ application' = application /\ application[a].life # "none"
      BY <1>3 DEF ApplicationDeleteSelect, Quiet, SameApps, tables, Kept
    <2> QED
      BY <1>0, <2>1, <2>2, <2>3, Harmless DEF Stays, MailStep, Telling
  <1>4. ASSUME NEW a \in Application, NEW status, SetStatus(a, status) PROVE Stays(r)
    <2>1. PICK row : row = [application[a] EXCEPT !.status = status]
      OBVIOUS
    <2>2. /\ row.life = application[a].life /\ row.resume = application[a].resume
          /\ row.client = application[a].client /\ row.round = application[a].round
      BY <2>1, RowsRead DEF ApplicationRow
    <2>3. application' = [application EXCEPT ![a] = row]
      BY <1>4, <2>1 DEF SetStatus
    <2>4. SameApps
      BY <2>2, <2>3 DEF SameApps, TypeOK
    <2> QED
      BY <1>4, <2>4 DEF SetStatus, Stays, Quiet
  <1>5. CASE StatusUpdate(r)
    <2>1. PICK a \in Application : a = q.application
      BY <1>a, <1>5 DEF StatusUpdate, Sound, RowStep
    <2>2. PICK row : row = (IF application[a].life = "kept"
                            THEN [application[a] EXCEPT !.status = q.status, !.round = q.round]
                            ELSE application[a])
      OBVIOUS
    <2>3. /\ row.life = application[a].life /\ row.resume = application[a].resume
          /\ row.client = application[a].client
          /\ row.round = application[a].round \/ row.round = q.round
      BY <2>2, RowsRead DEF ApplicationRow
    <2>4. /\ application' = [application EXCEPT ![a] = row] /\ Goto(r, "status_event")
          /\ q.round # application[a].round => <<"round", a>> \in slipped'
          /\ slipped \subseteq slipped' /\ UNCHANGED <<timeline, intake>>
          /\ request[r].step = "status_update"
      BY <1>a, <1>5, <2>1, <2>2 DEF StatusUpdate
    <2>5. SameApps
      BY <2>3, <2>4 DEF SameApps, TypeOK
    <2>6. request'[r].step = "status_event" /\ request'[r].mail = 0 /\ request'[r].application = a
      BY <1>a, <2>1, <2>4, Steps DEF Carries, Sound, MailStep, Telling
    <2>7. application'[a].life # "none"
      BY <1>a, <2>1, <2>5, Values DEF SameApps, Rows
    <2> QED
      BY <2>4, <2>5, <2>6, <2>7, Harmless DEF Stays, Quiet, MailStep, Telling
  <1>6. CASE ApplicationInsert(r)
    <2>1. request[r].step = "application_insert"
      BY <1>6 DEF ApplicationInsert
    <2>2. CASE Abort(r)
      BY <2>1, <2>2, StopsQuietly DEF MailStep, Telling
    <2>3. CASE ~Abort(r)
      <3>1. /\ q.resume \in Resume /\ q.client \in Client \cup {Nobody}
            /\ q.opening \in Opening \cup {Nobody} /\ "initial" \in Round
        BY <1>a, <2>1 DEF Sound, Local, Round
      <3>2. PICK a \in Application :
              /\ InsertApplication(a, q.resume, q.client, q.opening, "initial")
              /\ request' = [request EXCEPT ![r].step = "created_event", ![r].application = a]
        BY <1>a, <1>6, <2>3 DEF ApplicationInsert
      <3>3. PICK row : row = NewRow(q.resume, q.client, q.opening, "initial")
        OBVIOUS
      <3>4. /\ row \in ApplicationRow /\ row.life = "kept" /\ row.resume = q.resume
            /\ row.client = q.client /\ row.round = "initial"
        BY <3>1, <3>3 DEF ApplicationRow, Life, NewRow
      <3>5. application' = [application EXCEPT ![a] = row] /\ application[a].life = "none"
        BY <3>2, <3>3 DEF InsertApplication, NewRow, Fresh
      <3>6. request'[r] = [q EXCEPT !.step = "created_event", !.application = a]
        BY <1>a, <3>2 DEF TypeOK
      <3>7. request'[r].step = "created_event" /\ request'[r].application = a /\ Carries(r)
        BY <1>a, <3>6 DEF Local, Carries
      <3>8. /\ UNCHANGED <<timeline, intake, started>> /\ slipped \subseteq slipped'
            /\ Twins(q.resume, q.client) # {} \/ Looked(r, q.resume, q.client) =>
                 <<"twin", q.resume, q.client>> \in slipped'
        BY <1>a, <1>6, <2>3 DEF ApplicationInsert
      <3> QED
        BY <1>a, <2>1, <3>4, <3>5, <3>7, <3>8 DEF Inserts
    <2> QED
      BY <2>2, <2>3
  <1>7. CASE CreatedEvent(r)
    <2>1. request[r].step = "created_event"
      BY <1>7 DEF CreatedEvent
    <2>2. CASE Abort(r)
      BY <2>1, <2>2, StopsQuietly DEF MailStep, Telling
    <2>3. CASE ~Abort(r)
      <3>1. PICK a \in Application : a = q.application /\ q.mail = 0
        BY <1>a, <2>1 DEF Sound, RowStep, MailStep, Telling
      <3>2. PICK e \in Event : /\ e = [kind |-> "created", round |-> "initial", mail |-> 0]
                               /\ e.kind = "created" /\ e.round = "initial" /\ e.mail = 0
        <4>1. [kind |-> "created", round |-> "initial", mail |-> 0] \in Event
          BY DEF Event, Round
        <4> QED
          BY <4>1
      <3>3. /\ timeline' = [timeline EXCEPT ![a] = Append(@, e)] /\ Answer(r) /\ Kept(application, a)
            /\ UNCHANGED <<application, intake, slipped>>
        BY <1>a, <1>7, <2>3, <3>1, <3>2 DEF CreatedEvent, Record
      <3>4. request'[r] = Idle /\ started' = started
        BY <3>3, Ends DEF Answer
      <3> QED
        BY <1>a, <2>1, <3>1, <3>2, <3>3, <3>4 DEF Tells
    <2> QED
      BY <2>2, <2>3
  <1>8. CASE StatusEvent(r)
    <2>1. request[r].step = "status_event"
      BY <1>8 DEF StatusEvent
    <2>2. CASE Abort(r)
      BY <2>1, <2>2, StopsQuietly DEF MailStep, Telling
    <2>3. CASE ~Abort(r)
      <3>1. PICK a \in Application : a = q.application /\ q.mail = 0
        BY <1>a, <2>1 DEF Sound, RowStep, MailStep, Telling
      <3>2. PICK e \in Event : /\ e = [kind |-> "status", round |-> "none", mail |-> 0]
                               /\ e.kind = "status" /\ e.mail = 0
        <4>1. [kind |-> "status", round |-> "none", mail |-> 0] \in Event
          BY DEF Event, Round
        <4> QED
          BY <4>1
      <3>3. /\ timeline' = [timeline EXCEPT ![a] = Append(@, e)] /\ Answer(r) /\ Kept(application, a)
            /\ UNCHANGED <<application, intake, slipped>>
        BY <1>a, <1>8, <2>3, <3>1, <3>2 DEF StatusEvent, Record
      <3>4. request'[r] = Idle /\ started' = started
        BY <3>3, Ends DEF Answer
      <3> QED
        BY <1>a, <2>1, <3>1, <3>2, <3>3, <3>4 DEF Tells
    <2> QED
      BY <2>2, <2>3
  <1>9. CASE DeleteEvents(r) \/ DeleteApplication(r)
    <2>1. PICK a \in Application : a = q.application /\ q.mail = 0
      BY <1>a, <1>9 DEF DeleteEvents, DeleteApplication, Sound, RowStep, MailStep, Telling
    <2>2. PICK gone \in {[NoApplication EXCEPT !.life = "gone"]} : gone.life = "gone"
      BY DEF NoApplication
    <2>3. /\ timeline' = [timeline EXCEPT ![a] = <<>>] /\ slipped' = slipped \cup EventMails({a})
          /\ intake' = intake
          /\ \/ application' = application /\ q.step = "no_events" /\ Goto(r, "no_application")
             \/ application' = [application EXCEPT ![a] = gone] /\ q.step = "no_application" /\ Answer(r)
      BY <1>a, <1>9, <2>1, <2>2 DEF DeleteEvents, DeleteApplication
    <2>4. \A b \in Application :
            /\ b # a => timeline'[b] = timeline[b] /\ application'[b] = application[b]
            /\ timeline'[a] = <<>>
      BY <2>3 DEF TypeOK
    <2>5. EventsMarked
      <3>1. SUFFICES ASSUME NEW b \in Application, timeline'[b] = <<>>, NEW i \in DOMAIN timeline[b]
                     PROVE  <<"mail", timeline[b][i].mail>> \in slipped'
        BY DEF EventsMarked
      <3>2. b = a
        BY <2>4, <3>1
      <3> QED
        BY <2>3, <3>2, Marked
    <2>6. \/ application'[a] = application[a] /\ q.step = "no_events"
          \/ application'[a].life = "gone" /\ q.step = "no_application"
      BY <2>2, <2>3 DEF TypeOK
    <2>7. /\ request'[r].step \in {"no_application", "idle"} /\ request'[r].mail = 0
          /\ request'[r].application \in {0, a}
      BY <1>a, <2>1, <2>3, Ends, Steps DEF Carries
    <2>8. request[r].step \notin MailStep \cup {"created_event"}
      BY <1>a, <2>3 DEF MailStep, Telling
    <2>9. slipped \subseteq slipped'
      BY <2>3
    <2>b. \A b \in Application :
            /\ timeline'[b] = timeline[b] \/ timeline'[b] = <<>>
            /\ application'[b] = application[b] \/ (application'[b].life = "gone" /\ timeline'[b] = <<>>)
      BY <2>4, <2>6
    <2> QED
      BY <1>a, <2>1, <2>3, <2>5, <2>6, <2>7, <2>8, <2>9, <2>b DEF Clears
  <1> QED
    BY <1>1, <1>2, <1>3, <1>4, <1>5, <1>6, <1>7, <1>8, <1>9
       DEF ApplicationHandlers, CloseApplication, ArchiveApplication

(* A confirmation begins, under a number of its own.                       *)
Confirms(r) ==
  /\ UNCHANGED <<application, timeline, intake, slipped>>
  /\ request[r].step \in {"idle", "review"} /\ request[r].mail = 0
  /\ started' = started + 1
  /\ request'[r].step = "client" /\ request'[r].mail = started + 1
  /\ request'[r].application \in {0, request[r].application}

(* Its mail is stored under its client.                                    *)
Files(r) ==
  /\ UNCHANGED <<application, timeline, started, slipped>>
  /\ request[r].step = "client" /\ request'[r].step = "find"
  /\ request'[r].application = request[r].application /\ request'[r].mail = request[r].mail
  /\ intake' = [intake EXCEPT ![request[r].mail] = request'[r].client]

(* It has found an application, or none.                                   *)
Finds(r) ==
  /\ UNCHANGED <<application, timeline, intake, started>> /\ slipped \subseteq slipped'
  /\ request[r].step = "find" /\ Carries(r)
  /\ \/ /\ request'[r].step = "mail_insert" /\ request'[r].application = 0
        /\ \/ request[r].resume = Nobody \/ request[r].client = Nobody
           \/ Twins(request[r].resume, request[r].client) = {}
     \/ \E a \in Application :
          /\ request'[r].step = "mail_update" /\ request'[r].application = a
          /\ Kept(application, a)
          /\ \/ application[a].client = request[r].client
             \/ <<"elsewhere", request[r].mail>> \in slipped'

LEMMA Searched ==
  ASSUME TypeOK, NEW q \in Local
  PROVE  /\ \A a \in Candidates(q) :
              /\ a \in Application /\ Kept(application, a)
              /\ application[a].client = q.client \/ Elsewhere(q)
         /\ Candidates(q) = {} =>
              q.resume = Nobody \/ q.client = Nobody \/ Twins(q.resume, q.client) = {}
  <1>1. q.application \in Application \cup {0}
    BY DEF Local
  <1>2. CASE q.application # 0 /\ Kept(application, q.application)
    BY <1>1, <1>2 DEF Candidates, Elsewhere
  <1>3. CASE ~(q.application # 0 /\ Kept(application, q.application))
    BY <1>3 DEF Candidates, Twins
  <1> QED
    BY <1>2, <1>3

LEMMA FindCourse ==
  ASSUME TypeOK, NEW r \in Request, Find(r)
  PROVE  Finds(r)
  <1>1. PICK q \in Local : q = request[r] /\ q.step = "find"
    BY DEF TypeOK, Find
  <1>2. PICK a \in OneOf(Candidates(q), 0) :
          /\ request' = [request EXCEPT ![r].application = a,
                                        ![r].step = IF a = 0 THEN "mail_insert" ELSE "mail_update"]
          /\ slipped' = IF Elsewhere(q) THEN slipped \cup {<<"elsewhere", q.mail>>} ELSE slipped
          /\ UNCHANGED <<tables, started>>
    BY <1>1 DEF Find
  <1>3. PICK step : step = IF a = 0 THEN "mail_insert" ELSE "mail_update"
    OBVIOUS
  <1>4. request'[r] = [q EXCEPT !.application = a, !.step = step]
    BY <1>1, <1>2, <1>3 DEF TypeOK
  <1>5. /\ request'[r].application = a /\ request'[r].step = step
        /\ Carries(r)
    BY <1>1, <1>4 DEF Local, Carries
  <1>6. UNCHANGED <<application, timeline, intake, started>> /\ slipped \subseteq slipped'
    BY <1>2 DEF tables
  <1>7. CASE Candidates(q) = {}
    <2>1. a = 0 /\ step = "mail_insert"
      BY <1>2, <1>3, <1>7 DEF OneOf
    <2>2. q.resume = Nobody \/ q.client = Nobody \/ Twins(q.resume, q.client) = {}
      BY <1>7, Searched
    <2> QED
      BY <1>1, <1>5, <1>6, <2>1, <2>2 DEF Finds
  <1>8. CASE Candidates(q) # {}
    <2>1. a \in Candidates(q)
      BY <1>2, <1>8 DEF OneOf
    <2>2. /\ a \in Application /\ Kept(application, a)
          /\ application[a].client = q.client \/ Elsewhere(q)
      BY <2>1, Searched
    <2>3. a # 0 /\ step = "mail_update"
      BY <1>3, <2>2, Values
    <2>4. Elsewhere(q) => <<"elsewhere", q.mail>> \in slipped'
      BY <1>2
    <2> QED
      BY <1>1, <1>5, <1>6, <2>2, <2>3, <2>4 DEF Finds
  <1> QED
    BY <1>7, <1>8

LEMMA IntakeCourse ==
  ASSUME TypeOK, Locals, Rows, NEW r \in Request, IntakeHandlers(r)
  PROVE  \/ Stays(r) \/ Confirms(r) \/ Files(r) \/ Finds(r)
         \/ Inserts(r) \/ Rounds(r) \/ Tells(r)
  <1>0. Idle.step = "idle" /\ Idle.mail = 0 /\ Idle.application = 0
    BY DEF Idle
  <1>a. PICK q \in Local : q = request[r] /\ Sound(q)
    BY DEF TypeOK, Locals
  <1>b. request[r].application # 0 => application[request[r].application].life # "none"
    BY DEF Rows
  <1>1. ASSUME NEW c, NEW m, NEW a \in Application \cup {0}, NEW form, Analyze(r, c, m, a, form)
        PROVE  Stays(r)
    <2>1. request[r] = Idle /\ request'[r] = [Idle EXCEPT !.step = "review", !.resume = m,
                                                          !.application = a, !.client = form]
      BY <1>1 DEF Analyze, TypeOK
    <2>2. request'[r].step = "review" /\ request'[r].mail = 0 /\ request'[r].application = a
      BY <2>1 DEF Idle
    <2>3. Quiet /\ application' = application
      BY <1>1 DEF Analyze, Quiet, SameApps, tables
    <2>4. a # 0 => application[a].life # "none"
      <3>1. \A b \in MatchedApplications(m) : Kept(application, b)
        BY DEF MatchedApplications
      <3>2. a \in MatchedApplications(m) \cup {0}
        BY <1>1 DEF Analyze, OneOf
      <3> QED
        BY <3>1, <3>2 DEF Kept
    <2> QED
      BY <1>0, <2>1, <2>2, <2>3, <2>4, Harmless DEF Stays, MailStep, Telling
  <1>2. ASSUME NEW c, NEW m, NEW form, AnalyzeFile(r, c, m, form)
        PROVE  Stays(r)
    <2>1. request[r] = Idle /\ request'[r] = [Idle EXCEPT !.step = "review", !.resume = m,
                                                          !.client = form]
      BY <1>2 DEF AnalyzeFile, TypeOK
    <2>2. request'[r].step = "review" /\ request'[r].mail = 0 /\ request'[r].application = 0
      BY <2>1 DEF Idle
    <2>3. Quiet
      BY <1>2 DEF AnalyzeFile, Quiet, SameApps, tables
    <2> QED
      BY <1>0, <2>1, <2>2, <2>3, Harmless DEF Stays, MailStep, Telling
  <1>3. ASSUME NEW c, NEW m, Edit(r, c, m)
        PROVE  Stays(r)
    <2>1. q.step = "review" /\ request'[r] = [q EXCEPT !.client = c, !.resume = m]
      BY <1>3, <1>a DEF Edit, TypeOK
    <2>2. /\ request'[r].step = "review" /\ request'[r].mail = q.mail
          /\ request'[r].application = q.application
      BY <2>1 DEF Local
    <2>3. Quiet /\ application' = application
      BY <1>3 DEF Edit, Quiet, SameApps, tables
    <2>4. q.mail = 0
      BY <1>a, <2>1 DEF Sound, MailStep, Telling
    <2> QED
      BY <1>a, <1>b, <2>1, <2>2, <2>3, <2>4, Harmless DEF Stays, MailStep, Telling
  <1>4. CASE Discard(r)
    <2>1. request[r].step = "review" /\ Answer(r) /\ Quiet
      BY <1>4 DEF Discard, Quiet, SameApps, tables
    <2> QED
      BY <2>1, Ends, Harmless DEF Stays, MailStep, Telling
  <1>5. ASSUME NEW round, Confirm(r, round)
        PROVE  Confirms(r)
    <2>1. q.step = "review" /\ request'[r] = [q EXCEPT !.step = "client", !.round = round,
                                                       !.mail = started + 1]
      BY <1>5, <1>a DEF Confirm, TypeOK
    <2>2. /\ request'[r].step = "client" /\ request'[r].mail = started + 1
          /\ request'[r].application = q.application
      BY <2>1 DEF Local
    <2>3. UNCHANGED <<application, timeline, intake, slipped>> /\ started' = started + 1
      BY <1>5 DEF Confirm, tables, Start
    <2>4. q.mail = 0
      BY <1>a, <2>1 DEF Sound, MailStep, Telling
    <2> QED
      BY <1>a, <2>1, <2>2, <2>3, <2>4 DEF Confirms
  <1>6. ASSUME NEW c, NEW m, NEW round, ConfirmDirect(r, c, m, round)
        PROVE  Confirms(r)
    <2>1. request[r] = Idle /\ request'[r] = [Idle EXCEPT !.step = "client", !.client = c,
                             !.resume = m, !.round = round, !.mail = started + 1]
      BY <1>6, Takes DEF ConfirmDirect
    <2>2. /\ request'[r].step = "client" /\ request'[r].mail = started + 1
          /\ request'[r].application = 0
      BY <2>1 DEF Idle
    <2>3. UNCHANGED <<application, timeline, intake, slipped>> /\ started' = started + 1
      BY <1>6 DEF ConfirmDirect, tables, Begin, Start
    <2> QED
      BY <1>0, <2>1, <2>2, <2>3 DEF Confirms
  <1>7. CASE IntakeInsert(r)
    <2>1. PICK c : /\ intake' = [intake EXCEPT ![q.mail] = c]
                   /\ request' = [request EXCEPT ![r].client = c, ![r].step = "find"]
      BY <1>7, <1>a DEF IntakeInsert
    <2>2. request'[r] = [q EXCEPT !.client = c, !.step = "find"]
      BY <1>a, <2>1 DEF TypeOK
    <2>3. /\ request'[r].step = "find" /\ request'[r].mail = q.mail
          /\ request'[r].application = q.application /\ request'[r].client = c
      BY <2>2 DEF Local
    <2>4. UNCHANGED <<application, timeline, started, slipped>> /\ request[r].step = "client"
      BY <1>7 DEF IntakeInsert
    <2> QED
      BY <1>a, <2>1, <2>3, <2>4 DEF Files
  <1>8. CASE MailUpdate(r)
    <2>0. q.step = "mail_update"
      BY <1>8, <1>a DEF MailUpdate
    <2>1. CASE ConfirmFails(r)
      BY <1>a, <1>b, <2>0, <2>1, FailsQuietly DEF MailStep, Telling
    <2>2. CASE ~ConfirmFails(r)
      <3>1. PICK a \in Application : a = q.application
        BY <1>a, <2>0 DEF Sound, Telling
      <3>2. PICK row : row = [application[a] EXCEPT !.status = "open", !.round = q.round]
        OBVIOUS
      <3>3. q.round \in Round
        BY <1>a, <2>0 DEF Sound, Telling, MailStep
      <3>4. /\ row \in ApplicationRow /\ row.resume = application[a].resume
            /\ row.client = application[a].client /\ row.round = q.round
            /\ row.life = application[a].life
        BY <3>2, <3>3, RowsRead DEF ApplicationRow
      <3>5. /\ application' = [application EXCEPT ![a] = row] /\ Kept(application, a)
            /\ slipped' = slipped \cup (IF Untold(r, a) THEN {<<"round", a>>} ELSE {})
            /\ Goto(r, "mail_event") /\ UNCHANGED <<timeline, intake>>
        BY <1>a, <1>8, <2>2, <3>1, <3>2 DEF MailUpdate
      <3>6. /\ request'[r].step = "mail_event" /\ request'[r].application = a /\ Carries(r)
            /\ started' = started
        BY <1>a, <3>1, <3>5, Steps DEF Goto
      <3>7. row.life = "kept"
        BY <3>4, <3>5 DEF Kept
      <3>8. slipped \subseteq slipped' /\ (Untold(r, a) => <<"round", a>> \in slipped')
        BY <3>5
      <3> QED
        BY <1>a, <2>0, <3>1, <3>4, <3>5, <3>6, <3>7, <3>8 DEF Rounds
    <2> QED
      BY <2>1, <2>2
  <1>9. CASE MailInsert(r)
    <2>0. q.step = "mail_insert"
      BY <1>9, <1>a DEF MailInsert
    <2>1. CASE ConfirmFails(r)
      BY <1>a, <1>b, <2>0, <2>1, FailsQuietly DEF MailStep, Telling
    <2>2. CASE ~ConfirmFails(r)
      <3>1. q.resume \in Resume \cup {Nobody} /\ q.client \in Client \cup {Nobody} /\ q.round \in Round
        BY <1>a, <2>0 DEF Sound, Local, MailStep
      <3>2. PICK a \in Application :
              /\ InsertApplication(a, q.resume, q.client, Nobody, q.round)
              /\ request' = [request EXCEPT ![r].step = "submitted_event", ![r].application = a]
        BY <1>a, <1>9, <2>2 DEF MailInsert
      <3>3. PICK row : row = NewRow(q.resume, q.client, Nobody, q.round)
        OBVIOUS
      <3>4. /\ row \in ApplicationRow /\ row.life = "kept" /\ row.resume = q.resume
            /\ row.client = q.client /\ row.round = q.round
        BY <3>1, <3>3 DEF ApplicationRow, Life, NewRow
      <3>5. application' = [application EXCEPT ![a] = row] /\ application[a].life = "none"
        BY <3>2, <3>3 DEF InsertApplication, NewRow, Fresh
      <3>6. request'[r] = [q EXCEPT !.step = "submitted_event", !.application = a]
        BY <1>a, <3>2 DEF TypeOK
      <3>7. request'[r].step = "submitted_event" /\ request'[r].application = a /\ Carries(r)
        BY <1>a, <3>6 DEF Local, Carries
      <3>8. /\ UNCHANGED <<timeline, intake, started>>
            /\ slipped' = slipped \cup
                 (IF q.resume # Nobody /\ (q.client = Nobody \/ Looked(r, q.resume, q.client))
                  THEN {<<"twin", q.resume, q.client>>} ELSE {})
        BY <1>a, <1>9, <2>2 DEF MailInsert
      <3>9. /\ slipped \subseteq slipped'
            /\ q.resume # Nobody /\ (q.client = Nobody \/ Looked(r, q.resume, q.client)) =>
                 <<"twin", q.resume, q.client>> \in slipped'
        BY <3>8
      <3> QED
        BY <1>a, <2>0, <3>4, <3>5, <3>7, <3>8, <3>9 DEF Inserts
    <2> QED
      BY <2>1, <2>2
  <1>10. CASE SubmittedEvent(r)
    <2>0. q.step = "submitted_event"
      BY <1>10, <1>a DEF SubmittedEvent
    <2>1. CASE ConfirmFails(r)
      BY <1>a, <1>b, <2>0, <2>1, FailsQuietly DEF MailStep, Telling
    <2>2. CASE ~ConfirmFails(r)
      <3>1. PICK a \in Application : a = q.application /\ q.mail \in Mail
        BY <1>a, <2>0 DEF Sound, Telling, MailStep
      <3>2. PICK e \in Event : /\ e = [kind |-> "submitted", round |-> "initial", mail |-> q.mail]
                               /\ e.kind = "submitted" /\ e.round = "initial" /\ e.mail = q.mail
        <4>1. [kind |-> "submitted", round |-> "initial", mail |-> q.mail] \in Event
          BY <3>1 DEF Event, Round
        <4> QED
          BY <4>1
      <3>3. /\ timeline' = [timeline EXCEPT ![a] = Append(@, e)] /\ Kept(application, a)
            /\ IF q.round = "screening" THEN Answer(r) ELSE Goto(r, "mail_event")
            /\ UNCHANGED <<application, intake, slipped>>
        BY <1>a, <1>10, <2>2, <3>1, <3>2 DEF SubmittedEvent, Record, Recordable
      <3>4. /\ started' = started
            /\ \/ q.round = "screening" /\ request'[r] = Idle
               \/ request'[r].step = "mail_event" /\ request'[r].application = a /\ Carries(r)
        BY <1>a, <3>1, <3>3, Ends, Steps DEF Answer, Goto
      <3> QED
        BY <1>a, <2>0, <3>1, <3>2, <3>3, <3>4 DEF Tells
    <2> QED
      BY <2>1, <2>2
  <1>11. CASE MailEvent(r)
    <2>0. q.step = "mail_event"
      BY <1>11, <1>a DEF MailEvent
    <2>1. CASE ConfirmFails(r)
      BY <1>a, <1>b, <2>0, <2>1, FailsQuietly DEF MailStep, Telling
    <2>2. CASE ~ConfirmFails(r)
      <3>1. PICK a \in Application : a = q.application /\ q.mail \in Mail /\ q.round \in Round
        BY <1>a, <2>0 DEF Sound, Telling, MailStep
      <3>2. PICK e \in Event : /\ e = [kind |-> "round", round |-> q.round, mail |-> q.mail]
                               /\ e.kind = "round" /\ e.round = q.round /\ e.mail = q.mail
        <4>1. [kind |-> "round", round |-> q.round, mail |-> q.mail] \in Event
          BY <3>1 DEF Event
        <4> QED
          BY <4>1
      <3>3. /\ timeline' = [timeline EXCEPT ![a] = Append(@, e)] /\ Kept(application, a)
            /\ Answer(r) /\ UNCHANGED <<application, intake, slipped>>
        BY <1>a, <1>11, <2>2, <3>1, <3>2 DEF MailEvent, Record, Recordable
      <3>4. started' = started /\ request'[r] = Idle
        BY <3>3, Ends DEF Answer
      <3> QED
        BY <1>a, <2>0, <3>1, <3>2, <3>3, <3>4 DEF Tells
    <2> QED
      BY <2>1, <2>2
  <1>12. CASE ConfirmLost(r)
    <2>1. ConfirmFails(r) /\ request[r].step \in MailStep
      BY <1>12 DEF ConfirmLost, MailStep, Telling
    <2> QED
      BY <1>b, <2>1, FailsQuietly
  <1>13. CASE Find(r)
    BY <1>13, FindCourse
  <1>14. CASE \E c \in Client \cup {Nobody}, m \in Resume \cup {Nobody}, form \in Client :
       AnalyzeFile(r, c, m, form) \/ \E a \in Application \cup {0} : Analyze(r, c, m, a, form)
    BY <1>1, <1>2, <1>14
  <1> QED
    BY <1>3, <1>4, <1>5, <1>6, <1>7, <1>8, <1>9, <1>10, <1>11, <1>12, <1>13, <1>14
       DEF IntakeHandlers

(* What a step of a handler is.                                            *)
Course(r) ==
  \/ Stays(r) \/ Clears(r) \/ Confirms(r) \/ Files(r) \/ Finds(r)
  \/ Inserts(r) \/ Rounds(r) \/ Tells(r)

LEMMA Courses ==
  ASSUME TypeOK, Locals, Rows, NEW r \in Request,
         OpeningHandlers(r) \/ ResumeHandlers(r) \/ ApplicationHandlers(r) \/ IntakeHandlers(r)
  PROVE  Course(r)
  BY OpeningStays, ResumeCourse, ApplicationCourse, IntakeCourse DEF Course

-----------------------------------------------------------------------------
(* Rows that a handler knows, and the events of rows that are gone.        *)

LEMMA RowsFrom ==
  ASSUME TypeOK, Rows, NEW r \in Request, Moved(r),
         \A a \in Application : application[a].life # "none" => application'[a].life # "none",
         request'[r].application # 0 => application'[request'[r].application].life # "none",
         \A a \in Application : application'[a].life # "kept" => timeline'[a] = <<>>
  PROVE  Rows'
  <1>1. ASSUME NEW q \in Request, request'[q].application # 0
        PROVE  application'[request'[q].application].life # "none"
    <2>1. CASE q = r
      BY <1>1, <2>1
    <2>2. CASE q # r
      <3>1. PICK local \in Local : local = request[q] /\ request'[q] = local
        BY <2>2 DEF TypeOK, Moved, Others
      <3>2. local.application \in Application
        BY <1>1, <3>1 DEF Local
      <3>3. application[local.application].life # "none"
        BY <1>1, <3>1 DEF Rows
      <3> QED
        BY <3>1, <3>2, <3>3
    <2> QED
      BY <2>1, <2>2
  <1> QED
    BY <1>1 DEF Rows, Kept

LEMMA RowsStep ==
  ASSUME TypeOK, Locals, Rows, NEW r \in Request, Moved(r), Course(r)
  PROVE  Rows'
  <1>0. /\ request[r].application \in Application \cup {0}
        /\ request[r].application # 0 => application[request[r].application].life # "none"
        /\ \A a \in Application : application[a].life # "kept" => timeline[a] = <<>>
    BY DEF TypeOK, Local, Rows, Kept
  <1>1. CASE Stays(r)
    BY <1>0, <1>1, RowsFrom DEF Stays, Quiet, SameApps, Drops
  <1>2. CASE Clears(r)
    BY <1>0, <1>2, RowsFrom DEF Clears
  <1>3. CASE Confirms(r)
    BY <1>0, <1>3, RowsFrom DEF Confirms
  <1>4. CASE Files(r) 
    BY <1>0, <1>4, RowsFrom DEF Files
  <1>5. CASE Finds(r)
    BY <1>0, <1>5, RowsFrom DEF Finds, Kept
  <1>6. CASE Inserts(r)
    <2>1. PICK a \in Application, row \in ApplicationRow :
            /\ application' = [application EXCEPT ![a] = row] /\ row.life = "kept"
            /\ timeline' = timeline /\ request'[r].application = a
      BY <1>6 DEF Inserts
    <2>2. \A b \in Application : application'[b] = IF b = a THEN row ELSE application[b]
      BY <2>1 DEF TypeOK
    <2> QED
      BY <1>0, <2>1, <2>2, RowsFrom
  <1>7. CASE Rounds(r)
    <2>1. PICK a \in Application, row \in ApplicationRow :
            /\ application' = [application EXCEPT ![a] = row] /\ row.life = "kept"
            /\ timeline' = timeline /\ request'[r].application = a
      BY <1>7 DEF Rounds
    <2>2. \A b \in Application : application'[b] = IF b = a THEN row ELSE application[b]
      BY <2>1 DEF TypeOK
    <2> QED
      BY <1>0, <2>1, <2>2, RowsFrom
  <1>8. CASE Tells(r)
    <2>1. PICK a \in Application, e \in Event :
            /\ request[r].application = a /\ Kept(application, a)
            /\ timeline' = [timeline EXCEPT ![a] = Append(@, e)] /\ application' = application
            /\ request'[r] = Idle \/ request'[r].application = a
      BY <1>8 DEF Tells
    <2>2. \A b \in Application : b # a => timeline'[b] = timeline[b]
      BY <2>1 DEF TypeOK
    <2>3. request'[r].application \in {0, a} /\ a # 0
      BY <2>1, Values DEF Idle
    <2> QED
      BY <1>0, <2>1, <2>2, <2>3, RowsFrom DEF Kept
  <1> QED
    BY <1>1, <1>2, <1>3, <1>4, <1>5, <1>6, <1>7, <1>8 DEF Course

LEMMA Started ==
  ASSUME Init
  PROVE  TypeOK /\ Locals /\ Rows
  <1>1. PICK o \in Opening, m \in Resume, d \in Client, life \in {"none", "kept"},
             rlife \in {"none", "kept"}, alife \in {"none", "kept"} :
          /\ rlife = "none" => alife = "none"
          /\ opening = [p \in Opening |->
               IF p # o \/ life = "none" THEN NoOpening
               ELSE [NoOpening EXCEPT !.life = "kept", !.client = d]]
          /\ resume = [n \in Resume |->
               IF n # m \/ rlife = "none" THEN NoResume
               ELSE [NoResume EXCEPT !.life = "kept", !.client = d]]
          /\ application = [a \in Application |->
               IF a # 1 \/ alife = "none" THEN NoApplication
               ELSE [NoApplication EXCEPT !.life = "kept", !.round = "round 1",
                                          !.resume = m, !.client = d]]
          /\ timeline = [a \in Application |->
               IF a # 1 \/ alife = "none" THEN <<>>
               ELSE <<[kind |-> "round", round |-> "round 1", mail |-> 0]>>]
    BY Zenon DEF Init
  <1>2. /\ intake = [n \in Mail |-> Nobody] /\ request = [r \in Request |-> Idle]
        /\ started = 0 /\ slipped = {}
    BY DEF Init
  <1>3. opening \in [Opening -> OpeningRow]
    BY <1>1 DEF OpeningRow, NoOpening, Life
  <1>4. /\ resume \in [Resume -> ResumeRow]
        /\ \A n \in Resume : resume[n].opening = Nobody
        /\ rlife = "kept" => resume[m].life = "kept"
    BY <1>1 DEF ResumeRow, NoResume, Life
  <1>5. /\ application \in [Application -> ApplicationRow]
        /\ \A a \in Application : /\ application[a].opening = Nobody
                                  /\ \/ application[a].resume = Nobody
                                     \/ application[a].resume = m /\ alife = "kept"
        /\ \A a \in Application : application[a].life = "kept" \/ a # 1 \/ alife = "none"
    BY <1>1 DEF ApplicationRow, NoApplication, Life, Round
  <1>6. timeline \in [Application -> Seq(Event)]
    <2>1. <<[kind |-> "round", round |-> "round 1", mail |-> 0]>> \in Seq(Event)
      BY DEF Event, Round
    <2>2. <<>> \in Seq(Event)
      OBVIOUS
    <2> QED
      BY <1>1, <2>1, <2>2
  <1>7. \A r \in Request : request[r] \in Local /\ Sound(request[r]) /\ request[r].application = 0
    <2>1. Idle.application = 0
      BY DEF Idle
    <2> QED
      BY <1>2, <2>1, IdleSound
  <1>8. intake \in [Mail -> Client \cup {Nobody}] /\ request \in [Request -> Local] /\ started \in Nat
    BY <1>2, <1>7
  <1>9. /\ \A n \in Resume : Refers(opening, resume[n].opening)
        /\ \A a \in Application :
             Refers(resume, application[a].resume) /\ Refers(opening, application[a].opening)
    BY <1>1, <1>4, <1>5 DEF Refers, Kept
  <1>10. Rows
    BY <1>1, <1>5, <1>7 DEF Rows, Kept
  <1> QED
    BY <1>3, <1>4, <1>5, <1>6, <1>7, <1>8, <1>9, <1>10 DEF TypeOK, Locals

LEMMA WellFormedStep ==
  ASSUME IInv, [Next]_vars
  PROVE  IInv'
  <1>1. TypeOK /\ Locals /\ Rows
    BY DEF IInv
  <1>2. TypeOK' /\ Locals'
    BY <1>1, TypeStep
  <1>3. Rows'
    <2>1. CASE UNCHANGED vars
      BY <1>1, <2>1 DEF vars, tables, control, Rows, Kept
    <2>2. ASSUME NEW r \in Request,
                 \/ OpeningHandlers(r) \/ ResumeHandlers(r)
                 \/ ApplicationHandlers(r) \/ IntakeHandlers(r)
          PROVE  Rows'
      BY <1>1, <2>2, HandlersMove, Courses, RowsStep
    <2> QED
      BY <2>1, <2>2 DEF Next
  <1> QED
    BY <1>2, <1>3 DEF IInv

(* The variables keep their types, no row refers to one that is gone, the  *)
(* handlers know what they need at each step, and an application that is   *)
(* gone leaves no events: the cascades and the refused INSERTs ensure it.  *)
THEOREM WellFormed == Spec => []IInv
  <1>1. Init => IInv
    BY Started DEF IInv
  <1>2. IInv /\ [Next]_vars => IInv'
    BY WellFormedStep
  <1> QED
    BY <1>1, <1>2, PTL DEF Spec

-----------------------------------------------------------------------------
(* What every step does to rows, timelines and mails.                      *)

(* The numbers of the mails on the timeline of a.                          *)
Logged(a) == {timeline[a][i].mail : i \in DOMAIN timeline[a]}

(* A row that there was before is still of the same client and resume.     *)
RowsStay ==
  \A a \in Application :
    application[a].life # "none" /\ application'[a].life = "kept" =>
      /\ application[a].life = "kept"
      /\ application'[a].resume = application[a].resume
      /\ application'[a].client = application[a].client

LEMMA RowsStayStep ==
  ASSUME TypeOK, NEW r \in Request, Course(r)
  PROVE  RowsStay /\ slipped \subseteq slipped'
  <1>1. CASE Stays(r)
    BY <1>1 DEF Stays, Quiet, SameApps, RowsStay
  <1>2. CASE Clears(r)
    BY <1>2 DEF Clears, RowsStay
  <1>3. CASE Confirms(r) \/ Files(r) \/ Finds(r)
    BY <1>3 DEF Confirms, Files, Finds, RowsStay
  <1>4. CASE Inserts(r)
    <2>1. PICK a \in Application, row \in ApplicationRow :
            /\ application' = [application EXCEPT ![a] = row] /\ application[a].life = "none"
            /\ slipped \subseteq slipped'
      BY <1>4 DEF Inserts
    <2>2. \A b \in Application : application'[b] = IF b = a THEN row ELSE application[b]
      BY <2>1 DEF TypeOK
    <2> QED
      BY <2>1, <2>2 DEF RowsStay
  <1>5. CASE Rounds(r)
    <2>1. PICK a \in Application, row \in ApplicationRow :
            /\ application' = [application EXCEPT ![a] = row] /\ Kept(application, a)
            /\ row.resume = application[a].resume /\ row.client = application[a].client
            /\ slipped \subseteq slipped'
      BY <1>5 DEF Rounds
    <2>2. \A b \in Application : application'[b] = IF b = a THEN row ELSE application[b]
      BY <2>1 DEF TypeOK
    <2> QED
      BY <2>1, <2>2 DEF RowsStay, Kept
  <1>6. CASE Tells(r)
    <2>1. UNCHANGED <<application, slipped>>
      BY <1>6 DEF Tells
    <2> QED
      BY <2>1 DEF RowsStay
  <1> QED
    BY <1>1, <1>2, <1>3, <1>4, <1>5, <1>6 DEF Course

LEMMA TellsLogged ==
  ASSUME TypeOK, NEW r \in Request, Tells(r)
  PROVE  \E a \in Application :
           /\ request[r].application = a /\ Kept(application, a)
           /\ Logged(a)' = Logged(a) \cup {request[r].mail}
           /\ \A b \in Application : b # a => Logged(b)' = Logged(b)
  <1>1. PICK a \in Application, e \in Event :
          /\ request[r].application = a /\ Kept(application, a)
          /\ timeline' = [timeline EXCEPT ![a] = Append(@, e)] /\ e.mail = request[r].mail
    BY DEF Tells
  <1>2. /\ \A b \in Application : b # a => timeline'[b] = timeline[b]
        /\ Len(timeline[a]) \in Nat /\ DOMAIN timeline[a] = 1 .. Len(timeline[a])
        /\ DOMAIN timeline'[a] = 1 .. (Len(timeline[a]) + 1)
        /\ \A i \in 1 .. Len(timeline[a]) : timeline'[a][i] = timeline[a][i]
        /\ timeline'[a][Len(timeline[a]) + 1] = e
    BY <1>1, Records
  <1>3. \A b \in Application : b # a => Logged(b)' = Logged(b)
    BY <1>2 DEF Logged
  <1>4. Logged(a)' = Logged(a) \cup {e.mail}
    <2>1. ASSUME NEW n, n \in Logged(a)' PROVE n \in Logged(a) \cup {e.mail}
      <3>1. PICK i \in DOMAIN timeline'[a] : n = timeline'[a][i].mail
        BY <2>1 DEF Logged
      <3>2. CASE i = Len(timeline[a]) + 1
        BY <1>2, <3>1, <3>2
      <3>3. CASE i # Len(timeline[a]) + 1
        <4>1. i \in 1 .. Len(timeline[a])
          BY <1>2, <3>3
        <4>2. i \in DOMAIN timeline[a] /\ n = timeline[a][i].mail
          BY <1>2, <3>1, <4>1
        <4> QED
          BY <4>2 DEF Logged
      <3> QED
        BY <3>2, <3>3
    <2>2. ASSUME NEW n, n \in Logged(a) PROVE n \in Logged(a)'
      <3>1. PICK i \in DOMAIN timeline[a] : n = timeline[a][i].mail
        BY <2>2 DEF Logged
      <3>2. i \in DOMAIN timeline'[a] /\ n = timeline'[a][i].mail
        BY <1>2, <3>1
      <3> QED
        BY <3>2 DEF Logged
    <2>3. e.mail \in Logged(a)'
      <3>1. Len(timeline[a]) + 1 \in DOMAIN timeline'[a]
        BY <1>2
      <3> QED
        BY <1>2, <3>1 DEF Logged
    <2> QED
      BY <2>1, <2>2, <2>3
  <1> QED
    BY <1>1, <1>3, <1>4

(* Mails come to a timeline by the handler, and leave one with a mark.     *)
LEMMA LogStep ==
  ASSUME TypeOK, NEW r \in Request, Course(r)
  PROVE  \A a \in Application :
           /\ ~Tells(r) => Logged(a)' \subseteq Logged(a)
           /\ Logged(a)' \subseteq Logged(a) \cup {request[r].mail}
           /\ \A n \in Logged(a) : n \in Logged(a)' \/ <<"mail", n>> \in slipped'
  <1>1. CASE UNCHANGED timeline
    BY <1>1 DEF Logged
  <1>2. CASE Clears(r)
    <2>1. SUFFICES ASSUME NEW a \in Application
                   PROVE  /\ Logged(a)' \subseteq Logged(a)
                          /\ \A n \in Logged(a) : n \in Logged(a)' \/ <<"mail", n>> \in slipped'
      OBVIOUS
    <2>2. CASE timeline'[a] = timeline[a]
      BY <2>2 DEF Logged
    <2>3. CASE timeline'[a] = <<>>
      <3>1. Logged(a)' = {}
        BY <2>3 DEF Logged
      <3>2. ASSUME NEW n \in Logged(a) PROVE <<"mail", n>> \in slipped'
        <4>1. PICK i \in DOMAIN timeline[a] : n = timeline[a][i].mail
          BY <3>2 DEF Logged
        <4> QED
          BY <1>2, <2>3, <4>1 DEF Clears, EventsMarked
      <3> QED
        BY <3>1, <3>2
    <2> QED
      BY <1>2, <2>2, <2>3 DEF Clears
  <1>3. CASE Tells(r)
    BY <1>3, TellsLogged
  <1> QED
    BY <1>1, <1>2, <1>3
       DEF Course, Stays, Quiet, Confirms, Files, Finds, Inserts, Rounds

(* The number of a handler's mail.                                         *)
LEMMA MailStays ==
  ASSUME TypeOK, NEW r \in Request, Course(r)
  PROVE  /\ request'[r].mail = 0 \/ request'[r].mail = request[r].mail \/ Confirms(r)
         /\ request'[r].step = "client" => Confirms(r) \/ (Stays(r) /\ request' = request)
  <1>1. Idle.mail = 0 /\ Idle.step = "idle"
    BY DEF Idle
  <1>2. CASE Stays(r) \/ Clears(r)
    BY <1>2 DEF Stays, Drops, Clears, MailStep
  <1>3. CASE Files(r) \/ Finds(r)
    BY <1>3 DEF Files, Finds, Carries
  <1>4. CASE Inserts(r) \/ Rounds(r)
    BY <1>4 DEF Inserts, Rounds, Carries
  <1>5. CASE Tells(r)
    BY <1>1, <1>5 DEF Tells, Carries
  <1> QED
    BY <1>2, <1>3, <1>4, <1>5 DEF Course

-----------------------------------------------------------------------------
(* What becomes of a confirmed mail.                                       *)

(* Every mail has a number of its own, which nothing has before it is      *)
(* confirmed, and it is on no timeline before it is stored.                *)
Numbered ==
  /\ \A r \in Request : request[r].mail <= started
  /\ \A a \in Application : \A n \in Logged(a) : n <= started
  /\ \A r, q \in Request : r # q /\ request[r].mail = request[q].mail => request[r].mail = 0
  /\ \A r \in Request : request[r].step = "client" =>
       \A a \in Application : request[r].mail \notin Logged(a)

(* The mail of a handler is stored under its client, and the application   *)
(* that it has chosen is of that client, or its window is marked.          *)
Aimed ==
  \A r \in Request :
    /\ request[r].step \in {"find", "mail_insert"} \cup Telling =>
         intake[request[r].mail] = request[r].client
    /\ request[r].step \in Telling /\ Kept(application, request[r].application) =>
         \/ application[request[r].application].client = request[r].client
         \/ <<"elsewhere", request[r].mail>> \in slipped

(* There is still nothing where a confirmation has found nothing, or the   *)
(* window is marked.                                                       *)
FoundNone ==
  \A r \in Request :
    LET m == request[r].resume
        c == request[r].client IN
    request[r].step = "mail_insert" /\ m # Nobody /\ c # Nobody =>
      Twins(m, c) = {} \/ <<"twin", m, c>> \in slipped

LEMMA Naturals ==
  ASSUME TypeOK
  PROVE  /\ started \in Nat
         /\ \A r \in Request : request[r].mail \in Nat /\ request[r].mail \in Mail \cup {0}
         /\ \A a \in Application : \A n \in Logged(a) : n \in Nat
  <1>1. \A r \in Request : request[r].mail \in Nat /\ request[r].mail \in Mail \cup {0}
    BY Values DEF TypeOK, Local
  <1>2. ASSUME NEW a \in Application, NEW n \in Logged(a) PROVE n \in Nat
    <2>1. PICK i \in DOMAIN timeline[a] : n = timeline[a][i].mail
      BY <1>2 DEF Logged
    <2>2. PICK s \in Seq(Event) : s = timeline[a]
      BY DEF TypeOK
    <2>3. s[i] \in Event
      BY <2>1, <2>2
    <2>4. n \in Mail \cup {0}
      BY <2>1, <2>2, <2>3 DEF Event
    <2> QED
      BY <2>4, Values
  <1> QED
    BY <1>1, <1>2 DEF TypeOK

LEMMA NumberedStep ==
  ASSUME TypeOK, Locals, Rows, Numbered, NEW r \in Request, Moved(r), Course(r)
  PROVE  Numbered'
  <1>0. /\ started' \in Nat /\ started <= started' /\ started \in Nat
        /\ \A q \in Request : q # r => request'[q] = request[q]
        /\ Confirms(r) => /\ request'[r].mail = started + 1 /\ started' = started + 1
                          /\ timeline' = timeline
    BY Naturals DEF Moved, Others, Confirms
  <1>1. ASSUME NEW q \in Request PROVE request'[q].mail <= started'
    <2>1. request[q].mail \in Nat /\ request[q].mail <= started /\ request[r].mail <= started
      BY Naturals DEF Numbered
    <2> QED
      BY <1>0, <2>1, MailStays, Naturals
  <1>2. ASSUME NEW a \in Application, NEW n \in Logged(a)' PROVE n <= started'
    <2>1. n \in Logged(a) \/ n = request[r].mail
      BY <1>2, LogStep
    <2>2. n \in Nat /\ n <= started
      BY <2>1, Naturals DEF Numbered
    <2> QED
      BY <1>0, <2>2
  <1>3. ASSUME NEW p \in Request, NEW q \in Request, p # q, request'[p].mail = request'[q].mail
        PROVE  request'[p].mail = 0
    <2>1. ASSUME NEW d \in Request, d # r, request'[d].mail = request'[r].mail
          PROVE  request'[d].mail = 0
      <3>1. request'[d].mail = request[d].mail /\ request[d].mail \in Nat /\ request[d].mail <= started
        BY <1>0, <2>1, Naturals DEF Numbered
      <3>2. CASE Confirms(r)
        BY <1>0, <2>1, <3>1, <3>2
      <3>3. CASE ~Confirms(r)
        BY <2>1, <3>1, <3>3, MailStays DEF Numbered
      <3> QED
        BY <3>2, <3>3
    <2> QED
      BY <1>0, <1>3, <2>1 DEF Numbered
  <1>4. ASSUME NEW q \in Request, request'[q].step = "client", NEW a \in Application
        PROVE  request'[q].mail \notin Logged(a)'
    <2>1. CASE q # r
      <3>1. request'[q] = request[q] /\ request[q].step = "client" /\ request[q].mail # 0
        BY <1>0, <1>4, <2>1, Values DEF Locals, Sound, MailStep
      <3>2. request[q].mail # request[r].mail /\ request[q].mail \notin Logged(a)
        BY <2>1, <3>1 DEF Numbered
      <3> QED
        BY <3>1, <3>2, LogStep
    <2>2. CASE q = r /\ Confirms(r)
      <3>1. Logged(a)' = Logged(a) /\ request'[q].mail = started + 1
        BY <1>0, <2>2 DEF Logged
      <3>2. \A n \in Logged(a) : n \in Nat /\ n <= started
        BY Naturals DEF Numbered
      <3> QED
        BY <1>0, <3>1, <3>2
    <2>3. CASE q = r /\ Stays(r) /\ request' = request
      <3>1. Logged(a)' = Logged(a)
        BY <2>3 DEF Stays, Quiet, Logged
      <3> QED
        BY <1>4, <2>3, <3>1 DEF Numbered
    <2> QED
      BY <1>4, <2>1, <2>2, <2>3, MailStays
  <1> QED
    BY <1>1, <1>2, <1>3, <1>4 DEF Numbered

(* A mail keeps its client once it is stored.                              *)
LEMMA IntakeStays ==
  ASSUME TypeOK, Locals, Numbered, NEW r \in Request, Course(r)
  PROVE  /\ ~Files(r) => intake' = intake
         /\ Files(r) => /\ \A n \in Mail : n # request[r].mail => intake'[n] = intake[n]
                        /\ intake'[request[r].mail] = request'[r].client
                        /\ request[r].mail \in Mail
                        /\ request'[r].mail = request[r].mail
  <1>1. CASE Files(r)
    <2>1. request[r].mail \in Mail
      BY <1>1 DEF Files, Locals, Sound, MailStep
    <2> QED
      BY <1>1, <2>1 DEF Files, TypeOK
  <1>2. CASE ~Files(r)
    BY <1>2 DEF Course, Stays, Quiet, Clears, Confirms, Finds, Inserts, Rounds, Tells
  <1> QED
    BY <1>1, <1>2

LEMMA AimedStep ==
  ASSUME TypeOK, Locals, Rows, Numbered, Aimed, NEW r \in Request, Moved(r), Course(r)
  PROVE  Aimed'
  <1>0. RowsStay /\ slipped \subseteq slipped'
    BY RowsStayStep
  <1>a. Idle.step = "idle"
    BY DEF Idle
  <1>1. ASSUME NEW q \in Request, q # r
        PROVE  /\ request'[q].step \in {"find", "mail_insert"} \cup Telling =>
                    intake'[request'[q].mail] = request'[q].client
               /\ request'[q].step \in Telling /\ application'[request'[q].application].life = "kept" =>
                    \/ application'[request'[q].application].client = request'[q].client
                    \/ <<"elsewhere", request'[q].mail>> \in slipped'
    <2>1. PICK d : d = request[q] /\ request'[q] = d /\ Sound(d) /\ d \in Local
      BY <1>1 DEF Moved, Others, Locals, TypeOK
    <2>2. d.step \in {"find", "mail_insert"} \cup Telling => d.mail \in Mail /\ intake[d.mail] = d.client
      BY <2>1 DEF Aimed, Sound, MailStep, Telling
    <2>3. d.mail \in Mail => intake'[d.mail] = intake[d.mail]
      BY <1>1, <2>1, IntakeStays, Values DEF Numbered
    <2>4. ASSUME d.step \in Telling, application'[d.application].life = "kept"
          PROVE  application'[d.application].client = d.client \/ <<"elsewhere", d.mail>> \in slipped'
      <3>1. d.application \in Application /\ application[d.application].life # "none"
        BY <2>1, <2>4, Values DEF Sound, Rows
      <3>2. /\ application[d.application].life = "kept"
            /\ application'[d.application].client = application[d.application].client
        BY <1>0, <2>4, <3>1 DEF RowsStay
      <3>3. application[d.application].client = d.client \/ <<"elsewhere", d.mail>> \in slipped
        BY <2>1, <2>4, <3>2 DEF Aimed, Kept
      <3> QED
        BY <1>0, <3>2, <3>3
    <2> QED
      BY <2>1, <2>2, <2>3, <2>4
  <1>2. /\ request'[r].step \in {"find", "mail_insert"} \cup Telling =>
             intake'[request'[r].mail] = request'[r].client
        /\ request'[r].step \in Telling /\ application'[request'[r].application].life = "kept" =>
             \/ application'[request'[r].application].client = request'[r].client
             \/ <<"elsewhere", request'[r].mail>> \in slipped'
    <2>1. CASE Stays(r) /\ request' = request
      <3>1. PICK d : d = request[r] /\ request'[r] = d /\ Sound(d)
        BY <2>1 DEF Locals
      <3>2. intake' = intake /\ slipped \subseteq slipped'
        BY <2>1 DEF Stays, Quiet
      <3>3. ASSUME d.step \in Telling
            PROVE  /\ d.application \in Application
                   /\ application'[d.application].life = application[d.application].life
                   /\ application'[d.application].client = application[d.application].client
        BY <2>1, <3>1, <3>3 DEF Stays, Quiet, SameApps, Sound
      <3> QED
        BY <3>1, <3>2, <3>3 DEF Aimed, Kept
    <2>2. CASE Drops(r) \/ Clears(r) \/ Confirms(r)
      BY <2>2 DEF Drops, Clears, Confirms, MailStep, Telling
    <2>3. CASE Files(r)
      BY <2>3, IntakeStays DEF Files, Telling
    <2>4. CASE Finds(r)
      BY <2>4 DEF Finds, Carries, Aimed, Telling
    <2>5. CASE Inserts(r)
      <3>1. PICK a \in Application, row \in ApplicationRow :
              /\ application' = [application EXCEPT ![a] = row] /\ row.client = request[r].client
              /\ intake' = intake /\ request'[r].application = a /\ Carries(r)
              /\ \/ request'[r].step = "created_event"
                 \/ request[r].step = "mail_insert" /\ request'[r].step = "submitted_event"
        BY <2>5 DEF Inserts
      <3>2. application'[a] = row
        BY <3>1 DEF TypeOK
      <3> QED
        BY <3>1, <3>2 DEF Carries, Aimed, Telling
    <2>6. CASE Rounds(r)
      <3>1. PICK a \in Application, row \in ApplicationRow :
              /\ request[r].application = a /\ Kept(application, a)
              /\ application' = [application EXCEPT ![a] = row]
              /\ row.client = application[a].client
              /\ intake' = intake /\ slipped \subseteq slipped'
              /\ request[r].step = "mail_update" /\ request'[r].step = "mail_event"
              /\ request'[r].application = a /\ Carries(r)
        BY <2>6 DEF Rounds
      <3>2. application'[a] = row
        BY <3>1 DEF TypeOK
      <3> QED
        BY <3>1, <3>2 DEF Carries, Aimed, Telling
    <2>7. CASE Tells(r)
      BY <1>a, <2>7 DEF Tells, Carries, Aimed, Telling, Kept
    <2> QED
      BY <2>1, <2>2, <2>3, <2>4, <2>5, <2>6, <2>7 DEF Course, Stays
  <1> QED
    BY <1>1, <1>2 DEF Aimed, Kept, Telling

(* The applications of a resume and a client that are new.                 *)
LEMMA TwinsStep ==
  ASSUME TypeOK, NEW r \in Request, Course(r), NEW m, NEW c,
         NEW a \in Application, a \in Twins(m, c)', a \notin Twins(m, c)
  PROVE  /\ Inserts(r) /\ request[r].resume = m /\ request[r].client = c
         /\ \A b \in Application : b \in Twins(m, c)' => b \in Twins(m, c) \/ b = a
         /\ request[r].step = "application_insert" =>
              (Twins(m, c) # {} \/ Looked(r, m, c) => <<"twin", m, c>> \in slipped')
         /\ request[r].step = "mail_insert" =>
              (m # Nobody /\ (c = Nobody \/ Looked(r, m, c)) => <<"twin", m, c>> \in slipped')
         /\ request[r].step \in {"application_insert", "mail_insert"}
  <1>0. /\ application'[a].life = "kept" /\ application'[a].resume = m /\ application'[a].client = c
        /\ ~(application[a].life = "kept" /\ application[a].resume = m /\ application[a].client = c)
    BY DEF Twins, Kept
  <1>1. Inserts(r)
    <2>1. application[a].life = "none"
      BY <1>0, RowsStayStep DEF RowsStay
    <2>2. CASE Stays(r)
      BY <1>0, <2>1, <2>2 DEF Stays, Quiet, SameApps
    <2>3. CASE Clears(r)
      BY <1>0, <2>1, <2>3 DEF Clears
    <2>4. CASE Confirms(r) \/ Files(r) \/ Finds(r) \/ Tells(r)
      <3>1. application' = application
        BY <2>4 DEF Confirms, Files, Finds, Tells
      <3> QED
        BY <1>0, <3>1
    <2>5. CASE Rounds(r)
      <3>1. PICK b \in Application, row \in ApplicationRow :
              application' = [application EXCEPT ![b] = row] /\ Kept(application, b)
        BY <2>5 DEF Rounds
      <3>2. application'[a] = application[a]
        BY <2>1, <3>1 DEF Kept, TypeOK
      <3> QED
        BY <1>0, <3>2
    <2> QED
      BY <2>2, <2>3, <2>4, <2>5 DEF Course
  <1>2. PICK b \in Application, row \in ApplicationRow :
          /\ application' = [application EXCEPT ![b] = row]
          /\ row.resume = request[r].resume /\ row.client = request[r].client
          /\ \/ /\ request[r].step = "application_insert"
                /\ Twins(row.resume, row.client) # {} \/ Looked(r, row.resume, row.client) =>
                     <<"twin", row.resume, row.client>> \in slipped'
             \/ /\ request[r].step = "mail_insert"
                /\ row.resume # Nobody /\ (row.client = Nobody \/ Looked(r, row.resume, row.client)) =>
                     <<"twin", row.resume, row.client>> \in slipped'
    BY <1>1 DEF Inserts
  <1>3. \A d \in Application : application'[d] = IF d = b THEN row ELSE application[d]
    BY <1>2 DEF TypeOK
  <1>4. a = b /\ row.resume = m /\ row.client = c
    BY <1>0, <1>3
  <1>5. \A d \in Application : d \in Twins(m, c)' => d \in Twins(m, c) \/ d = a
    BY <1>3, <1>4 DEF Twins, Kept
  <1> QED
    BY <1>1, <1>2, <1>4, <1>5

LEMMA FoundNoneStep ==
  ASSUME TypeOK, Locals, FoundNone, NEW r \in Request, Moved(r), Course(r)
  PROVE  FoundNone'
  <1>0. slipped \subseteq slipped' /\ Idle.step = "idle"
    BY RowsStayStep DEF Idle
  <1>1. SUFFICES ASSUME NEW q \in Request, NEW m, NEW c, m # Nobody, c # Nobody,
                        request'[q].resume = m, request'[q].client = c,
                        request'[q].step = "mail_insert",
                        NEW a \in Application, a \in Twins(m, c)'
                 PROVE  <<"twin", m, c>> \in slipped'
    BY DEF FoundNone, Twins
  <1>2. CASE q # r
    <2>1. request'[q] = request[q]
      BY <1>2 DEF Moved, Others
    <2>2. CASE a \in Twins(m, c)
      BY <1>0, <1>1, <2>1, <2>2 DEF FoundNone
    <2>3. CASE a \notin Twins(m, c)
      <3>1. Looked(r, m, c)
        BY <1>1, <1>2, <2>1 DEF Looked
      <3> QED
        BY <1>1, <2>3, <3>1, TwinsStep
    <2> QED
      BY <2>2, <2>3
  <1>3. CASE q = r
    <2>1. \/ Finds(r) 
          \/ Stays(r) /\ request' = request
      BY <1>0, <1>1, <1>3
         DEF Course, Stays, Drops, Clears, Confirms, Files, Inserts, Rounds, Tells, MailStep, Telling
    <2>2. a \in Twins(m, c)
      BY <1>1, <2>1, TwinsStep DEF Finds, Stays, Quiet, SameApps, Twins, Kept
    <2> QED
      BY <1>0, <1>1, <1>3, <2>1, <2>2 DEF Finds, Carries, FoundNone
  <1> QED
    BY <1>2, <1>3

LEMMA OneApplicationStep ==
  ASSUME TypeOK, Locals, FoundNone, OneApplication, NEW r \in Request, Course(r)
  PROVE  OneApplication'
  <1>0. slipped \subseteq slipped'
    BY RowsStayStep
  <1>1. OneApplication <=>
          \A m, c : \A a, b \in Application :
            a # b /\ m # Nobody /\ a \in Twins(m, c) /\ b \in Twins(m, c) =>
              <<"twin", m, c>> \in slipped
    BY DEF OneApplication, Twins
  <1>2. ASSUME NEW m, NEW c, NEW a \in Application, NEW b \in Application, a # b, m # Nobody,
               a \in Twins(m, c)', b \in Twins(m, c)', a \notin Twins(m, c)
        PROVE  <<"twin", m, c>> \in slipped'
    <2>1. /\ request[r].resume = m /\ request[r].client = c /\ b \in Twins(m, c)
          /\ request[r].step = "application_insert" => <<"twin", m, c>> \in slipped'
          /\ request[r].step = "mail_insert" /\ c = Nobody => <<"twin", m, c>> \in slipped'
          /\ request[r].step \in {"application_insert", "mail_insert"}
      BY <1>2, TwinsStep
    <2>2. CASE request[r].step = "mail_insert" /\ c # Nobody
      BY <1>0, <1>2, <2>1, <2>2 DEF FoundNone
    <2> QED
      BY <2>1, <2>2
  <1>3. ASSUME NEW m, NEW c, NEW a \in Application, NEW b \in Application, a # b, m # Nobody,
               a \in Twins(m, c)', b \in Twins(m, c)'
        PROVE  <<"twin", m, c>> \in slipped'
    BY <1>0, <1>1, <1>2, <1>3
  <1> QED
    BY <1>3 DEF OneApplication, Twins

LEMMA OnTimeline ==
  /\ MailOnTimeline <=>
       \A n \in Mail :
         intake[n] # Nobody =>
           \/ \E a \in Application : n \in Logged(a)
           \/ Recording(n) \/ <<"mail", n>> \in slipped \/ <<"lost", n>> \in slipped
  /\ MailsOfClient <=>
       \A a \in Application : \A n \in Logged(a) :
         n # 0 => intake[n] = application[a].client \/ <<"elsewhere", n>> \in slipped
  BY DEF MailOnTimeline, MailsOfClient, Logged

LEMMA MailOnTimelineStep ==
  ASSUME TypeOK, Locals, Numbered, MailOnTimeline, NEW r \in Request, Moved(r), Course(r)
  PROVE  MailOnTimeline'
  <1>0. slipped \subseteq slipped'
    BY RowsStayStep
  <1>1. SUFFICES ASSUME NEW n \in Mail, intake'[n] # Nobody
                 PROVE  \/ \E a \in Application : n \in Logged(a)'
                        \/ Recording(n)' \/ <<"mail", n>> \in slipped' \/ <<"lost", n>> \in slipped'
    BY DEF MailOnTimeline, Logged
  <1>2. CASE Files(r) /\ n = request[r].mail
    BY <1>2 DEF Files, Recording
  <1>3. CASE ~(Files(r) /\ n = request[r].mail)
    <2>1. intake[n] # Nobody
      BY <1>1, <1>3, IntakeStays
    <2>2. CASE \E a \in Application : n \in Logged(a)
      BY <2>2, LogStep
    <2>3. CASE Recording(n)
      <3>1. PICK q \in Request : request[q].mail = n
        BY <2>3 DEF Recording
      <3>2. CASE q # r
        BY <3>1, <3>2 DEF Moved, Others, Recording
      <3>3. CASE q = r
        <4>1. n # 0
          BY Values
        <4>2. CASE Stays(r) \/ Clears(r) \/ Confirms(r)
          BY <3>1, <3>3, <4>1, <4>2 DEF Stays, Drops, Clears, Confirms, Recording
        <4>3. CASE Files(r) \/ Finds(r) \/ Inserts(r) \/ Rounds(r)
          BY <3>1, <3>3, <4>3 DEF Files, Finds, Inserts, Rounds, Carries, Recording
        <4>4. CASE Tells(r)
          BY <3>1, <3>3, <4>4, TellsLogged
        <4> QED
          BY <4>2, <4>3, <4>4 DEF Course
      <3> QED
        BY <3>2, <3>3
    <2> QED
      BY <1>0, <2>1, <2>2, <2>3, OnTimeline
  <1> QED
    BY <1>2, <1>3

LEMMA MailsOfClientStep ==
  ASSUME TypeOK, Locals, Rows, Rows', Numbered, Aimed, MailsOfClient, NEW r \in Request, Course(r)
  PROVE  MailsOfClient'
  <1>0. RowsStay /\ slipped \subseteq slipped'
    BY RowsStayStep
  <1>1. SUFFICES ASSUME NEW a \in Application, NEW n \in Logged(a)', n # 0
                 PROVE  intake'[n] = application'[a].client \/ <<"elsewhere", n>> \in slipped'
    BY DEF MailsOfClient, Logged
  <1>2. Logged(a) # {} => application[a].life = "kept"
    BY DEF Rows, Kept, Logged
  <1>3. application'[a].life = "kept"
    BY <1>1 DEF Rows, Kept, Logged
  <1>4. CASE n \in Logged(a)
    <2>1. application'[a].client = application[a].client
      BY <1>0, <1>2, <1>3, <1>4 DEF RowsStay
    <2>2. intake[n] = application[a].client \/ <<"elsewhere", n>> \in slipped
      BY <1>1, <1>4, OnTimeline DEF MailsOfClient
    <2>3. n \in Mail
      <3>1. PICK i \in DOMAIN timeline[a] : n = timeline[a][i].mail
        BY <1>4 DEF Logged
      <3>2. PICK s \in Seq(Event) : s = timeline[a]
        BY DEF TypeOK
      <3>3. s[i] \in Event
        BY <3>1, <3>2
      <3> QED
        BY <1>1, <3>1, <3>2, <3>3 DEF Event
    <2>4. Files(r) => n # request[r].mail
      BY <1>4 DEF Files, Numbered
    <2>5. intake'[n] = intake[n]
      BY <2>3, <2>4, IntakeStays
    <2> QED
      BY <1>0, <2>1, <2>2, <2>5
  <1>5. CASE n \notin Logged(a)
    <2>1. Tells(r) /\ n = request[r].mail
      BY <1>1, <1>5, LogStep
    <2>2. request[r].application = a /\ Kept(application, a)
      BY <1>1, <1>5, <2>1, TellsLogged
    <2>3. request[r].step \in Telling
      BY <1>1, <2>1 DEF Tells, Locals, Sound, MailStep, Telling
    <2>4. intake[n] = request[r].client
      BY <2>1, <2>3 DEF Aimed
    <2>5. application[a].client = request[r].client \/ <<"elsewhere", n>> \in slipped
      BY <2>1, <2>2, <2>3 DEF Aimed
    <2>6. UNCHANGED <<application, intake>>
      BY <2>1 DEF Tells
    <2> QED
      BY <1>0, <2>4, <2>5, <2>6
  <1> QED
    BY <1>4, <1>5

MailInv == /\ IInv /\ Numbered /\ Aimed /\ FoundNone
           /\ OneApplication /\ MailOnTimeline /\ MailsOfClient

LEMMA MailBegins ==
  ASSUME Init
  PROVE  MailInv
  <1>1. TypeOK /\ Locals /\ Rows
    BY Started
  <1>2. /\ intake = [n \in Mail |-> Nobody] /\ request = [r \in Request |-> Idle] /\ started = 0
    BY DEF Init
  <1>3. Idle.mail = 0 /\ Idle.step = "idle"
    BY DEF Idle
  <1>4. \A r \in Request : request[r].mail = 0 /\ request[r].step = "idle"
    BY <1>2, <1>3
  <1>5. PICK o \in Opening, m \in Resume, d \in Client, life \in {"none", "kept"},
             rlife \in {"none", "kept"}, alife \in {"none", "kept"} :
          /\ rlife = "none" => alife = "none"
          /\ opening = [p \in Opening |->
               IF p # o \/ life = "none" THEN NoOpening
               ELSE [NoOpening EXCEPT !.life = "kept", !.client = d]]
          /\ resume = [n \in Resume |->
               IF n # m \/ rlife = "none" THEN NoResume
               ELSE [NoResume EXCEPT !.life = "kept", !.client = d]]
          /\ application = [a \in Application |->
               IF a # 1 \/ alife = "none" THEN NoApplication
               ELSE [NoApplication EXCEPT !.life = "kept", !.round = "round 1",
                                          !.resume = m, !.client = d]]
          /\ timeline = [a \in Application |->
               IF a # 1 \/ alife = "none" THEN <<>>
               ELSE <<[kind |-> "round", round |-> "round 1", mail |-> 0]>>]
    BY Zenon DEF Init
  <1>6. \A a \in Application : \A n \in Logged(a) : n = 0
    <2>a. PICK e : e = [kind |-> "round", round |-> "round 1", mail |-> 0]
      OBVIOUS
    <2>b. e.mail = 0
      BY <2>a
    <2>1. PICK s : s = <<e>>
      OBVIOUS
    <2>c. DOMAIN s = {1} /\ s[1] = e
      BY <2>1
    <2>2. \A i \in DOMAIN s : s[i].mail = 0
      BY <2>b, <2>c
    <2>3. PICK t : t = <<>>
      OBVIOUS
    <2>4. \A i \in DOMAIN t : t[i].mail = 0
      BY <2>3
    <2>5. \A a \in Application : timeline[a] = t \/ timeline[a] = s
      BY <1>5, <2>a, <2>1, <2>3
    <2> QED
      BY <2>2, <2>4, <2>5 DEF Logged
  <1>7. \A a \in Application : Kept(application, a) => a = 1
    BY <1>5 DEF Kept, NoApplication
  <1>8. Numbered
    BY <1>2, <1>4, <1>6 DEF Numbered
  <1>9. Aimed /\ FoundNone
    BY <1>4 DEF Aimed, FoundNone, Telling
  <1>10. OneApplication
    BY <1>7 DEF OneApplication
  <1>11. MailOnTimeline /\ MailsOfClient
    BY <1>2, <1>6, OnTimeline
  <1> QED
    BY <1>1, <1>8, <1>9, <1>10, <1>11 DEF MailInv, IInv

LEMMA MailStays2 ==
  ASSUME MailInv, UNCHANGED vars
  PROVE  MailInv'
  BY DEF MailInv, vars, tables, control, IInv, TypeOK, Locals, Rows, Refers, Kept, Numbered, Aimed,
         FoundNone, OneApplication, MailOnTimeline, MailsOfClient, Logged, Twins, Recording

(* A mail that was confirmed is stored under its client, and what becomes  *)
(* of it is accounted for (confirm-save, ai.ts:546-690): it makes no second*)
(* application, it is on a timeline, and on that of its client, except in  *)
(* the windows that are marked.                                            *)
THEOREM Accounted == Spec => []MailsAccounted
  <1>1. Init => MailInv
    BY MailBegins
  <1>2. ASSUME MailInv, [Next]_vars PROVE MailInv'
    <2>1. CASE UNCHANGED vars
      BY <1>2, <2>1, MailStays2
    <2>2. ASSUME NEW r \in Request,
                 \/ OpeningHandlers(r) \/ ResumeHandlers(r)
                 \/ ApplicationHandlers(r) \/ IntakeHandlers(r)
          PROVE  MailInv'
      <3>1. /\ TypeOK /\ Locals /\ Rows /\ Numbered /\ Aimed /\ FoundNone
            /\ OneApplication /\ MailOnTimeline /\ MailsOfClient
        BY <1>2 DEF MailInv, IInv
      <3>2. Moved(r) /\ Course(r)
        BY <2>2, <3>1, HandlersMove, Courses
      <3>3. IInv'
        BY <1>2, WellFormedStep DEF MailInv
      <3>4. Rows'
        BY <3>3 DEF IInv
      <3> QED
        BY <3>1, <3>2, <3>3, <3>4, NumberedStep, AimedStep, FoundNoneStep, OneApplicationStep,
           MailOnTimelineStep, MailsOfClientStep DEF MailInv
    <2> QED
      BY <1>2, <2>1, <2>2 DEF Next
  <1>3. MailInv => MailsAccounted
    BY DEF MailInv, IInv, MailsAccounted
  <1> QED
    BY <1>1, <1>2, <1>3, PTL DEF Spec

-----------------------------------------------------------------------------
(* What a timeline tells of the round.                                     *)

(* The round that the event which is still missing will name.              *)
Expected(q) == IF q.step = "created_event" THEN "initial" ELSE q.round

Rounded ==
  \A r \in Request : \A a \in Application :
    Unrecorded(r, a) /\ Kept(application, a) =>
      <<"round", a>> \in slipped \/ application[a].round = Expected(request[r])

(* The handlers that have written a round, and those that have not yet     *)
(* deleted a row, by what a step makes of them.                            *)
LEMMA Unrecords ==
  ASSUME TypeOK, NEW r \in Request, NEW a \in Application, Course(r)
  PROVE  /\ Unrecorded(r, a)' =>
              \/ Stays(r) /\ request' = request
              \/ Inserts(r) /\ application[a].life = "none"
              \/ Rounds(r)
              \/ Tells(r) /\ Unrecorded(r, a) /\ request[r].round = request'[r].round
                   /\ request[r].step = "submitted_event" /\ request'[r].step = "mail_event"
         /\ Unrecorded(r, a) =>
              \/ Unrecorded(r, a)' \/ <<"round", a>> \in slipped'
              \/ Tells(r) /\ request'[r] = Idle
  <1>0. Idle.step = "idle"
    BY DEF Idle
  <1>1. CASE Stays(r)
    <2>1. Unrecorded(r, a) => <<"round", a>> \in Half(r)
      BY DEF Half
    <2> QED
      BY <1>1, <2>1 DEF Stays, Drops, Unrecorded, MailStep, Telling
  <1>2. CASE Clears(r) \/ Confirms(r) \/ Files(r) \/ Finds(r)
    BY <1>2 DEF Clears, Confirms, Files, Finds, Unrecorded, MailStep, Telling
  <1>3. CASE Inserts(r)
    BY <1>3 DEF Inserts, Unrecorded
  <1>4. CASE Rounds(r)
    BY <1>4 DEF Rounds, Unrecorded
  <1>5. CASE Tells(r)
    BY <1>0, <1>5 DEF Tells, Carries, Unrecorded
  <1> QED
    BY <1>1, <1>2, <1>3, <1>4, <1>5 DEF Course

(* The round of a row that was there changes with a mark, or by the        *)
(* confirmation that is to record it.                                      *)
LEMMA RoundStays ==
  ASSUME TypeOK, NEW r \in Request, NEW a \in Application, Course(r),
         application[a].life # "none", application'[a].life = "kept"
  PROVE  \/ application'[a].round = application[a].round
         \/ <<"round", a>> \in slipped'
         \/ /\ Rounds(r) /\ Unrecorded(r, a)' /\ application'[a].round = Expected(request[r])'
            /\ Untold(r, a) => <<"round", a>> \in slipped'
  <1>1. CASE Stays(r)
    BY <1>1 DEF Stays, Quiet, SameApps
  <1>2. CASE Clears(r)
    BY <1>2 DEF Clears
  <1>3. CASE Confirms(r) \/ Files(r) \/ Finds(r) \/ Tells(r)
    BY <1>3 DEF Confirms, Files, Finds, Tells
  <1>4. CASE Inserts(r)
    <2>1. PICK b \in Application, row \in ApplicationRow :
            application' = [application EXCEPT ![b] = row] /\ application[b].life = "none"
      BY <1>4 DEF Inserts
    <2>2. application'[a] = application[a]
      BY <2>1 DEF TypeOK
    <2> QED
      BY <2>2
  <1>5. CASE Rounds(r)
    <2>1. PICK b \in Application, row \in ApplicationRow :
            /\ application' = [application EXCEPT ![b] = row] /\ row.round = request[r].round
            /\ Untold(r, b) => <<"round", b>> \in slipped'
            /\ request'[r].step = "mail_event" /\ request'[r].application = b
            /\ request'[r].round = request[r].round
      BY <1>5 DEF Rounds, Carries
    <2>2. \A d \in Application : application'[d] = IF d = b THEN row ELSE application[d]
      BY <2>1 DEF TypeOK
    <2> QED
      BY <1>5, <2>1, <2>2 DEF Unrecorded, Expected
  <1> QED
    BY <1>1, <1>2, <1>3, <1>4, <1>5 DEF Course

LEMMA RoundedStep ==
  ASSUME TypeOK, Locals, Rows, Rounded, NEW r \in Request, Moved(r), Course(r)
  PROVE  Rounded'
  <1>0. RowsStay /\ slipped \subseteq slipped'
    BY RowsStayStep
  <1>1. SUFFICES ASSUME NEW q \in Request, NEW a \in Application, Unrecorded(q, a)',
                        application'[a].life = "kept", <<"round", a>> \notin slipped'
                 PROVE  application'[a].round = Expected(request[q])'
    BY DEF Rounded, Kept
  <1>2. ASSUME application[a].life # "none", Unrecorded(q, a)
        PROVE  application[a].round = Expected(request[q])
    BY <1>0, <1>1, <1>2 DEF RowsStay, Rounded, Kept
  <1>3. CASE q # r
    <2>1. request'[q] = request[q] /\ Unrecorded(q, a)
      BY <1>1, <1>3 DEF Moved, Others, Unrecorded
    <2>2. application[a].life # "none"
      BY <2>1, Values DEF Unrecorded, Rows
    <2>3. Untold(r, a)
      BY <1>3, <2>1 DEF Untold
    <2>4. application'[a].round = application[a].round
      BY <1>1, <2>2, <2>3, RoundStays
    <2> QED
      BY <1>2, <2>1, <2>2, <2>4 DEF Expected
  <1>4. CASE q = r
    <2>1. CASE Stays(r) /\ request' = request
      <3>1. Unrecorded(r, a)
        BY <1>1, <1>4, <2>1 DEF Unrecorded
      <3>2. application[a].life # "none" /\ application'[a].round = application[a].round
        BY <1>1, <2>1 DEF Stays, Quiet, SameApps
      <3> QED
        BY <1>2, <1>4, <2>1, <3>1, <3>2 DEF Expected
    <2>2. CASE Inserts(r) /\ application[a].life = "none"
      <3>1. PICK b \in Application, row \in ApplicationRow :
              /\ application' = [application EXCEPT ![b] = row] /\ request'[r].application = b
              /\ request'[r].round = request[r].round
              /\ \/ request'[r].step = "created_event" /\ row.round = "initial"
                 \/ request'[r].step = "submitted_event" /\ row.round = request[r].round
        BY <2>2 DEF Inserts, Carries
      <3>2. a = b /\ application'[a] = row
        BY <1>1, <1>4, <3>1 DEF Unrecorded, TypeOK
      <3> QED
        BY <1>4, <3>1, <3>2 DEF Expected
    <2>3. CASE Rounds(r)
      <3>1. PICK b \in Application, row \in ApplicationRow :
              /\ application' = [application EXCEPT ![b] = row] /\ row.round = request[r].round
              /\ request'[r].step = "mail_event" /\ request'[r].application = b
              /\ request'[r].round = request[r].round
        BY <2>3 DEF Rounds, Carries
      <3>2. a = b /\ application'[a] = row
        BY <1>1, <1>4, <3>1 DEF Unrecorded, TypeOK
      <3> QED
        BY <1>4, <3>1, <3>2 DEF Expected
    <2>4. CASE Tells(r) /\ Unrecorded(r, a) /\ request[r].round = request'[r].round
                 /\ request[r].step = "submitted_event" /\ request'[r].step = "mail_event"
      <3>1. application' = application
        BY <2>4 DEF Tells
      <3> QED
        BY <1>1, <1>2, <1>4, <2>4, <3>1 DEF Expected
    <2> QED
      BY <1>1, <1>4, <2>1, <2>2, <2>3, <2>4, Unrecords
  <1> QED
    BY <1>3, <1>4

(* An event about the status changes nothing of what the timeline tells;   *)
(* another one is the last.                                                *)
LEMMA ToldAfter ==
  ASSUME TypeOK, NEW a \in Application, NEW e \in Event, application'[a].round = application[a].round,
         timeline' = [timeline EXCEPT ![a] = Append(@, e)],
         \/ e.kind = "status" /\ Told(a)
         \/ e.kind # "status" /\ e.round = application[a].round
         \/ e.kind = "submitted" /\ application[a].round = "screening"
  PROVE  Told(a)'
  <1>1. /\ Len(timeline[a]) \in Nat /\ DOMAIN timeline[a] = 1 .. Len(timeline[a])
        /\ DOMAIN timeline'[a] = 1 .. (Len(timeline[a]) + 1)
        /\ \A i \in 1 .. Len(timeline[a]) : timeline'[a][i] = timeline[a][i]
        /\ timeline'[a][Len(timeline[a]) + 1] = e
    BY Records
  <1>2. PICK n \in Nat : n = Len(timeline[a])
    BY <1>1
  <1>3. SUFFICES ASSUME NEW i \in DOMAIN timeline'[a], timeline'[a][i].kind # "status",
                        \A j \in DOMAIN timeline'[a] : j > i => timeline'[a][j].kind = "status"
                 PROVE  \/ timeline'[a][i].round = application'[a].round
                        \/ timeline'[a][i].kind = "submitted" /\ application'[a].round = "screening"
    BY DEF Told
  <1>4. i \in 1 .. (n + 1)
    BY <1>1, <1>2, <1>3
  <1>5. CASE i = n + 1
    BY <1>1, <1>2, <1>3, <1>5
  <1>6. CASE i # n + 1
    <2>1. i \in 1 .. n /\ n + 1 > i /\ n + 1 \in DOMAIN timeline'[a]
      BY <1>1, <1>2, <1>4, <1>6
    <2>2. e.kind = "status"
      BY <1>1, <1>2, <1>3, <2>1
    <2>3. /\ i \in DOMAIN timeline[a] /\ timeline'[a][i] = timeline[a][i]
          /\ \A j \in DOMAIN timeline[a] : j \in DOMAIN timeline'[a] /\ timeline'[a][j] = timeline[a][j]
      BY <1>1, <1>2, <2>1
    <2>4. \A j \in DOMAIN timeline[a] : j > i => timeline[a][j].kind = "status"
      BY <1>3, <2>3
    <2>5. Told(a)
      BY <2>2
    <2> QED
      BY <1>3, <2>3, <2>4, <2>5 DEF Told
  <1> QED
    BY <1>5, <1>6

(* The handler that is about to delete a goes on only by doing so.         *)
LEMMA Deleting ==
  ASSUME NEW r \in Request, NEW a \in Application, Course(r), application'[a].life = "kept",
         request[r].application = a, request[r].step = "no_application"
  PROVE  request' = request
  BY DEF Course, Stays, Drops, Clears, Confirms, Files, Finds, Inserts, Rounds, Tells

LEMMA TellsRoundStep ==
  ASSUME TypeOK, Locals, Rows, Rounded, TimelineTellsRound, NEW r \in Request, Moved(r), Course(r)
  PROVE  TimelineTellsRound'
  <1>0. RowsStay /\ slipped \subseteq slipped'
    BY RowsStayStep
  <1>1. SUFFICES ASSUME NEW a \in Application, application'[a].life = "kept",
                        <<"round", a>> \notin slipped',
                        ~ \E q \in Request :
                            \/ Unrecorded(q, a)'
                            \/ request'[q].application = a /\ request'[q].step = "no_application"
                 PROVE  Told(a)'
    BY DEF TimelineTellsRound, Kept
  <1>2. application[a].life = "kept"
    <2>1. CASE application[a].life = "none"
      <3>a. PICK m, c : m = application'[a].resume /\ c = application'[a].client
        OBVIOUS
      <3>1. a \in Twins(m, c)'
        BY <1>1, <3>a DEF Twins, Kept
      <3>2. a \notin Twins(m, c)
        BY <2>1 DEF Twins, Kept
      <3>3. Inserts(r)
        BY <3>1, <3>2, TwinsStep
      <3>4. PICK b \in Application, row \in ApplicationRow :
              /\ application' = [application EXCEPT ![b] = row] /\ request'[r].application = b
              /\ request'[r].step \in {"created_event", "submitted_event"}
        BY <3>3 DEF Inserts
      <3>5. a = b
        BY <1>1, <2>1, <3>4 DEF TypeOK
      <3> QED
        BY <1>1, <3>4, <3>5 DEF Unrecorded
    <2> QED
      BY <1>0, <1>1, <2>1 DEF RowsStay
  <1>3. application'[a].round = application[a].round
    BY <1>1, <1>2, RoundStays
  <1>4. \/ Told(a)
        \/ Tells(r) /\ request'[r] = Idle /\ Unrecorded(r, a)
    <2>1. \/ Told(a)
          \/ \E q \in Request : \/ Unrecorded(q, a)
                                \/ request[q].application = a /\ request[q].step = "no_application"
      BY <1>0, <1>1, <1>2 DEF TimelineTellsRound, Kept
    <2>2. ASSUME NEW q \in Request, Unrecorded(q, a)
          PROVE  Tells(r) /\ request'[r] = Idle /\ Unrecorded(r, a)
      <3>1. CASE q # r
        BY <1>1, <2>2, <3>1 DEF Moved, Others, Unrecorded
      <3>2. CASE q = r
        BY <1>1, <2>2, <3>2, Unrecords
      <3> QED
        BY <3>1, <3>2
    <2>3. ASSUME NEW q \in Request, request[q].application = a, request[q].step = "no_application"
          PROVE  FALSE
      <3>1. CASE q # r
        BY <1>1, <2>3, <3>1 DEF Moved, Others
      <3>2. CASE q = r
        BY <1>1, <2>3, <3>2, Deleting
      <3> QED
        BY <3>1, <3>2
    <2> QED
      BY <2>1, <2>2, <2>3
  <1>5. CASE timeline'[a] = timeline[a] /\ ~Tells(r)
    BY <1>3, <1>4, <1>5 DEF Told
  <1>6. CASE timeline'[a] = <<>>
    BY <1>6 DEF Told
  <1>7. CASE Tells(r)
    <2>1. PICK b \in Application, e \in Event :
            /\ request[r].application = b
            /\ timeline' = [timeline EXCEPT ![b] = Append(@, e)]
            /\ \/ request[r].step = "status_event" /\ e.kind = "status"
               \/ request[r].step = "created_event" /\ e.kind = "created" /\ e.round = "initial"
               \/ request[r].step = "submitted_event" /\ e.kind = "submitted" /\ e.round = "initial"
               \/ request[r].step = "mail_event" /\ e.kind = "round" /\ e.round = request[r].round
            /\ \/ /\ request'[r] = Idle
                  /\ request[r].step = "submitted_event" => request[r].round = "screening"
               \/ /\ request[r].step = "submitted_event" /\ request'[r].step = "mail_event"
                  /\ request'[r].application = b
      BY <1>7 DEF Tells
    <2>2. CASE b # a
      <3>1. timeline'[a] = timeline[a]
        BY <2>1, <2>2 DEF TypeOK
      <3>2. Told(a)
        BY <1>4, <2>1, <2>2 DEF Unrecorded
      <3> QED
        BY <1>3, <3>1, <3>2 DEF Told
    <2>3. CASE b = a /\ request[r].step = "status_event"
      <3>1. Told(a) /\ e.kind = "status"
        BY <1>4, <2>1, <2>3 DEF Unrecorded
      <3> QED
        BY <1>3, <2>1, <2>3, <3>1, ToldAfter
    <2>4. CASE b = a /\ request[r].step # "status_event"
      <3>1. Unrecorded(r, a) /\ request'[r] = Idle
        BY <1>1, <2>1, <2>4 DEF Unrecorded
      <3>2. application[a].round = Expected(request[r])
        BY <1>0, <1>1, <1>2, <3>1 DEF Rounded, Kept
      <3>3. CASE request[r].step = "created_event"
        BY <1>3, <2>1, <2>4, <3>2, <3>3, ToldAfter DEF Expected
      <3>4. CASE request[r].step = "submitted_event"
        <4>1. request[r].round = "screening"
          BY <2>1, <2>4, <3>1, <3>4 DEF Idle
        <4> QED
          BY <1>3, <2>1, <2>4, <3>2, <3>4, <4>1, ToldAfter DEF Expected
      <3>5. CASE request[r].step = "mail_event"
        BY <1>3, <2>1, <2>4, <3>2, <3>5, ToldAfter DEF Expected
      <3> QED
        BY <2>1, <2>4, <3>3, <3>4, <3>5
    <2> QED
      BY <2>2, <2>3, <2>4
  <1> QED
    BY <1>5, <1>6, <1>7
       DEF Course, Stays, Quiet, Clears, Confirms, Files, Finds, Inserts, Rounds

RoundInv == IInv /\ Rounded /\ TimelineTellsRound

LEMMA RoundBegins ==
  ASSUME Init
  PROVE  RoundInv
  <1>1. TypeOK /\ Locals /\ Rows
    BY Started
  <1>2. \A r \in Request : request[r].step = "idle"
    BY DEF Init, Idle
  <1>3. PICK o \in Opening, m \in Resume, d \in Client, life \in {"none", "kept"},
             rlife \in {"none", "kept"}, alife \in {"none", "kept"} :
          /\ rlife = "none" => alife = "none"
          /\ opening = [p \in Opening |->
               IF p # o \/ life = "none" THEN NoOpening
               ELSE [NoOpening EXCEPT !.life = "kept", !.client = d]]
          /\ resume = [n \in Resume |->
               IF n # m \/ rlife = "none" THEN NoResume
               ELSE [NoResume EXCEPT !.life = "kept", !.client = d]]
          /\ application = [a \in Application |->
               IF a # 1 \/ alife = "none" THEN NoApplication
               ELSE [NoApplication EXCEPT !.life = "kept", !.round = "round 1",
                                          !.resume = m, !.client = d]]
          /\ timeline = [a \in Application |->
               IF a # 1 \/ alife = "none" THEN <<>>
               ELSE <<[kind |-> "round", round |-> "round 1", mail |-> 0]>>]
    BY Zenon DEF Init
  <1>4. Rounded
    BY <1>2 DEF Rounded, Unrecorded
  <1>5. ASSUME NEW a \in Application, Kept(application, a) PROVE Told(a)
    <2>1. a = 1 /\ alife # "none"
      BY <1>3, <1>5 DEF Kept, NoApplication
    <2>2. application[a].round = "round 1"
      BY <1>3, <2>1 DEF NoApplication
    <2>3. PICK e : e = [kind |-> "round", round |-> "round 1", mail |-> 0]
      OBVIOUS
    <2>4. e.round = "round 1"
      BY <2>3
    <2>5. timeline[a] = <<e>>
      BY <1>3, <2>1, <2>3
    <2>6. DOMAIN timeline[a] = {1} /\ timeline[a][1] = e
      BY <2>5
    <2> QED
      BY <2>2, <2>4, <2>6 DEF Told
  <1>6. TimelineTellsRound
    BY <1>5 DEF TimelineTellsRound
  <1> QED
    BY <1>1, <1>4, <1>6 DEF RoundInv, IInv

LEMMA RoundRests ==
  ASSUME RoundInv, UNCHANGED vars
  PROVE  RoundInv'
  <1>1. IInv'
    BY WellFormedStep DEF RoundInv
  <1>2. UNCHANGED <<application, timeline, request, slipped>>
    BY DEF vars, tables, control
  <1>3. Rounded'
    BY <1>2 DEF RoundInv, Rounded, Kept, Unrecorded, Expected
  <1>4. \A a \in Application : Told(a) <=> Told(a)'
    BY <1>2 DEF Told
  <1>5. \A r \in Request, a \in Application : Unrecorded(r, a) <=> Unrecorded(r, a)'
    BY <1>2 DEF Unrecorded
  <1>6. TimelineTellsRound'
    BY <1>2, <1>4, <1>5 DEF RoundInv, TimelineTellsRound, Kept
  <1> QED
    BY <1>1, <1>3, <1>6 DEF RoundInv

(* The timeline of an application that follows the mails names its round   *)
(* (ai.ts:595-690), except in the windows that are marked and while a      *)
(* handler is on its way to record or to delete.                           *)
THEOREM TellsRound == Spec => []TimelineTellsRound
  <1>1. Init => RoundInv
    BY RoundBegins
  <1>2. ASSUME RoundInv, [Next]_vars PROVE RoundInv'
    <2>1. CASE UNCHANGED vars
      BY <1>2, <2>1, RoundRests
    <2>2. ASSUME NEW r \in Request,
                 \/ OpeningHandlers(r) \/ ResumeHandlers(r)
                 \/ ApplicationHandlers(r) \/ IntakeHandlers(r)
          PROVE  RoundInv'
      <3>1. TypeOK /\ Locals /\ Rows /\ Rounded /\ TimelineTellsRound
        BY <1>2 DEF RoundInv, IInv
      <3>2. Moved(r) /\ Course(r)
        BY <2>2, <3>1, HandlersMove, Courses
      <3>3. IInv'
        BY <1>2, WellFormedStep DEF RoundInv
      <3> QED
        BY <3>1, <3>2, <3>3, RoundedStep, TellsRoundStep DEF RoundInv
    <2> QED
      BY <1>2, <2>1, <2>2 DEF Next
  <1>3. RoundInv => TimelineTellsRound
    BY DEF RoundInv
  <1> QED
    BY <1>1, <1>2, <1>3, PTL DEF Spec

-----------------------------------------------------------------------------
(* The status of an opening, and its links.                                *)

Links(o, what) == IF what = "resumes" THEN ResumesOf(o) ELSE ApplicationsOf(o)

(* What a deletion has counted as none is still none, or the window is     *)
(* marked.                                                                 *)
Counting ==
  \A r \in Request :
    request[r].step = "count" =>
      \A what \in {"resumes", "applications"} \ request[r].todo :
        \/ request[r].linked \/ Links(request[r].opening, what) = {}
        \/ <<"link", request[r].opening>> \in slipped

(* A new link is marked when a deletion has counted such links.            *)
LinksMarked ==
  \A o \in Opening : \A what \in {"resumes", "applications"} :
    \/ Links(o, what)' \subseteq Links(o, what)
    \/ Uncounted(o, what) => <<"link", o>> \in slipped'

LEMMA LinksRest ==
  ASSUME resume' = resume, application' = application
  PROVE  LinksMarked
  BY DEF LinksMarked, Links, ResumesOf, ApplicationsOf, Kept

LEMMA OpeningLinks ==
  ASSUME TypeOK, Locals, NEW r \in Request, OpeningHandlers(r)
  PROVE  LinksMarked
  <1>1. CASE OpeningDelete(r)
    <2>1. PICK o \in Opening : o = request[r].opening
      BY <1>1 DEF OpeningDelete, Locals, Sound, OpeningStep
    <2>2. /\ resume' = [m \in Resume |-> IF resume[m].opening = o
                                         THEN [resume[m] EXCEPT !.opening = Nobody] ELSE resume[m]]
          /\ application' = [a \in Application |->
               IF application[a].opening = o
               THEN [application[a] EXCEPT !.opening = Nobody] ELSE application[a]]
      BY <1>1, <2>1 DEF OpeningDelete
    <2>3. \A n \in Resume : /\ resume'[n].life = resume[n].life
                            /\ resume'[n].opening = resume[n].opening \/ resume'[n].opening = Nobody
      BY <2>2, RowsRead DEF ResumeRow
    <2>4. \A a \in Application :
            /\ application'[a].life = application[a].life
            /\ application'[a].opening = application[a].opening \/ application'[a].opening = Nobody
      BY <2>2, RowsRead DEF ApplicationRow
    <2>5. \A o1 \in Opening : Links(o1, "resumes")' \subseteq Links(o1, "resumes")
      BY <2>3, Values DEF Links, ResumesOf, Kept
    <2>6. \A o1 \in Opening : Links(o1, "applications")' \subseteq Links(o1, "applications")
      BY <2>4, Values DEF Links, ApplicationsOf, Kept
    <2> QED
      BY <2>5, <2>6 DEF LinksMarked
  <1>2. CASE ~OpeningDelete(r)
    <2>1. resume' = resume /\ application' = application
      BY <1>2 DEF OpeningHandlers, OpeningSelect, DoneSelect, OpeningDeleteSelect, OpeningCreate,
           Reopen, ArchiveOpening, OpeningUpdate, DoneUpdate, Count, OpeningRefused, tables
    <2> QED
      BY <2>1, LinksRest
  <1> QED
    BY <1>1, <1>2

LEMMA ResumeLinks ==
  ASSUME TypeOK, Locals, NEW r \in Request, ResumeHandlers(r)
  PROVE  LinksMarked
  <1>0. /\ resume \in [Resume -> ResumeRow] /\ application \in [Application -> ApplicationRow]
        /\ \A o, what : Linked(o, what) \subseteq slipped' =>
             (Uncounted(o, what) => <<"link", o>> \in slipped')
    BY DEF TypeOK, Linked
  <1>1. ASSUME NEW m \in Resume, NEW c, NEW o, ResumeInsert(m, c, o)
        PROVE  LinksMarked
    <2>1. PICK row : row = [life |-> "kept", client |-> c, opening |-> o]
      OBVIOUS
    <2>2. /\ resume' = [resume EXCEPT ![m] = row] /\ application' = application
          /\ Linked(o, "resumes") \subseteq slipped'
      BY <1>1, <2>1 DEF ResumeInsert
    <2>3. row.opening = o
      BY <2>1
    <2>4. \A n \in Resume : resume'[n] = IF n = m THEN row ELSE resume[n]
      BY <1>0, <2>2
    <2>5. \A o1 \in Opening : \A n \in Links(o1, "resumes")' :
            n \in Links(o1, "resumes") \/ o1 = o
      BY <2>3, <2>4 DEF Links, ResumesOf, Kept
    <2>6. \A o1 \in Opening : Links(o1, "applications")' = Links(o1, "applications")
      BY <2>2 DEF Links, ApplicationsOf, Kept
    <2> QED
      BY <1>0, <2>2, <2>5, <2>6 DEF LinksMarked
  <1>2. CASE ResumeUpdate(r)
    <2>1. CASE Abort(r)
      BY <2>1, LinksRest DEF Abort, tables
    <2>2. CASE ~Abort(r)
      <3>1. PICK q \in Local : q = request[r] /\ Sound(q) /\ q.step = "resume_update"
        BY <1>2 DEF TypeOK, Locals, ResumeUpdate
      <3>2. PICK m \in Resume : m = q.resume
        BY <3>1 DEF Sound
      <3>3. PICK c : c = IF q.client = "same" THEN resume[m].client ELSE q.client
        OBVIOUS
      <3>4. PICK row : row = (IF resume[m].life # "kept" THEN resume[m]
                              ELSE [resume[m] EXCEPT !.opening = q.opening, !.client = c])
        OBVIOUS
      <3>5. /\ resume' = [resume EXCEPT ![m] = row] /\ application' = application
            /\ Kept(resume, m) => Linked(q.opening, "resumes") \subseteq slipped'
        BY <1>2, <2>2, <3>1, <3>2, <3>3, <3>4 DEF ResumeUpdate
      <3>6. row.life = resume[m].life /\ (row.life = "kept" => row.opening = q.opening)
        BY <3>4, RowsRead DEF ResumeRow
      <3>7. \A n \in Resume : resume'[n] = IF n = m THEN row ELSE resume[n]
        BY <1>0, <3>5
      <3>8. \A o1 \in Opening : \A n \in Links(o1, "resumes")' :
              n \in Links(o1, "resumes") \/ (o1 = q.opening /\ Kept(resume, m))
        BY <3>6, <3>7 DEF Links, ResumesOf, Kept
      <3>9. \A o1 \in Opening : Links(o1, "applications")' = Links(o1, "applications")
        BY <3>5 DEF Links, ApplicationsOf, Kept
      <3> QED
        BY <1>0, <3>5, <3>8, <3>9 DEF LinksMarked
    <2> QED
      BY <2>1, <2>2
  <1>3. CASE Erase(r)
    <2>1. PICK erased, S : erased = request[r].todo /\ S = Cascade(erased)
      OBVIOUS
    <2>2. /\ resume' = [m \in Resume |-> IF m \in erased
                                         THEN [NoResume EXCEPT !.life = "gone"] ELSE resume[m]]
          /\ application' = [a \in Application |->
               IF a \in S THEN [NoApplication EXCEPT !.life = "gone"] ELSE application[a]]
      BY <1>3, <2>1 DEF Erase
    <2>3. \A m \in Resume : resume'[m] = resume[m] \/ resume'[m].life = "gone"
      BY <2>2 DEF NoResume
    <2>4. \A a \in Application : application'[a] = application[a] \/ application'[a].life = "gone"
      BY <2>2 DEF NoApplication
    <2>5. \A o1 \in Opening : Links(o1, "resumes")' \subseteq Links(o1, "resumes")
      BY <2>3 DEF Links, ResumesOf, Kept
    <2>6. \A o1 \in Opening : Links(o1, "applications")' \subseteq Links(o1, "applications")
      BY <2>4 DEF Links, ApplicationsOf, Kept
    <2> QED
      BY <2>5, <2>6 DEF LinksMarked
  <1>4. ASSUME NEW m, NEW c, NEW o, NEW erased,
               ResumeSelect(r, m, c, o) \/ ResumeDeleteSelect(r, m) \/ CleanupSelect(r, erased)
        PROVE  LinksMarked
    BY <1>4, LinksRest DEF ResumeSelect, ResumeDeleteSelect, CleanupSelect, tables
  <1> QED
    BY <1>1, <1>2, <1>3, <1>4 DEF ResumeHandlers

LEMMA ApplicationLinked ==
  ASSUME TypeOK, NEW a \in Application, NEW row,
         application' = [application EXCEPT ![a] = row], resume' = resume,
         \/ row.life # "kept"
         \/ row.life = application[a].life /\ row.opening = application[a].opening
         \/ row.opening = Nobody
         \/ Linked(row.opening, "applications") \subseteq slipped'
  PROVE  LinksMarked
  <1>1. \A b \in Application : application'[b] = IF b = a THEN row ELSE application[b]
    BY DEF TypeOK
  <1>2. \A o \in Opening : Links(o, "resumes")' = Links(o, "resumes")
    BY DEF Links, ResumesOf, Kept
  <1>3. ASSUME NEW o \in Opening, NEW b \in Links(o, "applications")',
               b \notin Links(o, "applications"), Uncounted(o, "applications")
        PROVE  <<"link", o>> \in slipped'
    <2>1. b = a /\ row.life = "kept" /\ row.opening = o
      BY <1>1, <1>3 DEF Links, ApplicationsOf, Kept
    <2>2. ~(row.life = application[a].life /\ row.opening = application[a].opening)
      BY <1>3, <2>1 DEF Links, ApplicationsOf, Kept
    <2> QED
      BY <1>3, <2>1, <2>2, Values DEF Linked
  <1> QED
    BY <1>2, <1>3 DEF LinksMarked

LEMMA ApplicationLinks ==
  ASSUME TypeOK, Locals, NEW r \in Request, ApplicationHandlers(r)
  PROVE  LinksMarked
  <1>0. PICK q \in Local : q = request[r] /\ Sound(q)
    BY DEF TypeOK, Locals
  <1>1. CASE ApplicationInsert(r)
    <2>1. CASE Abort(r)
      BY <2>1, LinksRest DEF Abort, tables
    <2>2. CASE ~Abort(r)
      <3>1. PICK a \in Application : InsertApplication(a, q.resume, q.client, q.opening, "initial")
        BY <1>0, <1>1, <2>2 DEF ApplicationInsert
      <3>2. PICK row : row = NewRow(q.resume, q.client, q.opening, "initial")
        OBVIOUS
      <3>3. application' = [application EXCEPT ![a] = row] /\ row.opening = q.opening
        BY <3>1, <3>2 DEF InsertApplication, NewRow
      <3>4. Linked(q.opening, "applications") \subseteq slipped' /\ resume' = resume
        BY <1>0, <1>1, <2>2 DEF ApplicationInsert
      <3> QED
        BY <3>3, <3>4, ApplicationLinked
    <2> QED
      BY <2>1, <2>2
  <1>2. CASE StatusUpdate(r)
    <2>1. PICK a \in Application : a = q.application
      BY <1>0, <1>2 DEF StatusUpdate, Sound, RowStep
    <2>2. PICK row : row = (IF application[a].life = "kept"
                            THEN [application[a] EXCEPT !.status = q.status, !.round = q.round]
                            ELSE application[a])
      OBVIOUS
    <2>3. row.life = application[a].life /\ row.opening = application[a].opening
      BY <2>2, RowsRead DEF ApplicationRow
    <2>4. application' = [application EXCEPT ![a] = row] /\ resume' = resume
      BY <1>0, <1>2, <2>1, <2>2 DEF StatusUpdate
    <2> QED
      BY <2>3, <2>4, ApplicationLinked
  <1>3. ASSUME NEW a \in Application, NEW status, SetStatus(a, status) PROVE LinksMarked
    <2>1. PICK row : row = [application[a] EXCEPT !.status = status]
      OBVIOUS
    <2>2. row.life = application[a].life /\ row.opening = application[a].opening
      BY <2>1, RowsRead DEF ApplicationRow
    <2>3. application' = [application EXCEPT ![a] = row] /\ resume' = resume
      BY <1>3, <2>1 DEF SetStatus
    <2> QED
      BY <2>2, <2>3, ApplicationLinked
  <1>4. CASE DeleteApplication(r)
    <2>1. PICK a \in Application : a = q.application
      BY <1>0, <1>4 DEF DeleteApplication, Sound, RowStep
    <2>2. PICK row : row = [NoApplication EXCEPT !.life = "gone"]
      OBVIOUS
    <2>3. row.life = "gone"
      BY <2>2 DEF NoApplication
    <2>4. application' = [application EXCEPT ![a] = row] /\ resume' = resume
      BY <1>0, <1>4, <2>1, <2>2 DEF DeleteApplication
    <2> QED
      BY <2>3, <2>4, ApplicationLinked
  <1>5. CASE CreatedEvent(r) \/ StatusEvent(r) \/ DeleteEvents(r)
    BY <1>5, LinksRest DEF CreatedEvent, StatusEvent, DeleteEvents, Abort, tables
  <1>6. ASSUME NEW m, NEW c, NEW o, NEW a, NEW round,
               \/ ApplicationSelect(r, m, c, o) \/ StatusSelect(r, a, "open", round)
               \/ ApplicationDeleteSelect(r, a)
        PROVE  LinksMarked
    BY <1>6, LinksRest DEF ApplicationSelect, StatusSelect, ApplicationDeleteSelect, tables
  <1> QED
    BY <1>1, <1>2, <1>3, <1>4, <1>5, <1>6
       DEF ApplicationHandlers, CloseApplication, ArchiveApplication

LEMMA IntakeLinks ==
  ASSUME TypeOK, Locals, NEW r \in Request, IntakeHandlers(r)
  PROVE  LinksMarked
  <1>0. PICK q \in Local : q = request[r] /\ Sound(q)
    BY DEF TypeOK, Locals
  <1>a. CASE ConfirmFails(r)
    BY <1>a, LinksRest DEF ConfirmFails, tables
  <1>1. CASE MailUpdate(r) /\ ~ConfirmFails(r)
    <2>1. PICK a \in Application : a = q.application
      BY <1>0, <1>1 DEF MailUpdate, Sound, Telling
    <2>2. PICK row : row = [application[a] EXCEPT !.status = "open", !.round = q.round]
      OBVIOUS
    <2>3. row.life = application[a].life /\ row.opening = application[a].opening
      BY <2>2, RowsRead DEF ApplicationRow
    <2>4. application' = [application EXCEPT ![a] = row] /\ resume' = resume
      BY <1>0, <1>1, <2>1, <2>2 DEF MailUpdate
    <2> QED
      BY <2>3, <2>4, ApplicationLinked
  <1>2. CASE MailInsert(r) /\ ~ConfirmFails(r)
    <2>1. PICK a \in Application : InsertApplication(a, q.resume, q.client, Nobody, q.round)
      BY <1>0, <1>2 DEF MailInsert
    <2>2. PICK row : row = NewRow(q.resume, q.client, Nobody, q.round)
      OBVIOUS
    <2>3. application' = [application EXCEPT ![a] = row] /\ row.opening = Nobody
      BY <2>1, <2>2 DEF InsertApplication, NewRow
    <2>4. resume' = resume
      BY <1>2 DEF MailInsert
    <2> QED
      BY <2>3, <2>4, ApplicationLinked
  <1>3. CASE ~ConfirmFails(r) /\ (SubmittedEvent(r) \/ MailEvent(r) \/ IntakeInsert(r) \/ Find(r) \/ Discard(r))
    BY <1>3, LinksRest DEF SubmittedEvent, MailEvent, IntakeInsert, Find, Discard, tables
  <1>4. CASE ConfirmLost(r)
    BY <1>a, <1>4 DEF ConfirmLost
  <1>5. ASSUME NEW c, NEW m, NEW form, NEW a, NEW round,
               \/ Analyze(r, c, m, a, form) \/ AnalyzeFile(r, c, m, form) \/ Edit(r, c, m)
               \/ Confirm(r, round) \/ ConfirmDirect(r, c, m, round)
        PROVE  LinksMarked
    BY <1>5, LinksRest DEF Analyze, AnalyzeFile, Edit, Confirm, ConfirmDirect, tables
  <1>6. CASE \E c \in Client \cup {Nobody}, m \in Resume \cup {Nobody}, form \in Client :
       AnalyzeFile(r, c, m, form) \/ \E a \in Application \cup {0} : Analyze(r, c, m, a, form)
    BY <1>5, <1>6
  <1> QED
    BY <1>a, <1>1, <1>2, <1>3, <1>4, <1>5, <1>6 DEF IntakeHandlers

LEMMA CountingStep ==
  ASSUME TypeOK, Locals, Counting, LinksMarked, NEW r \in Request, Moved(r), Course(r)
  PROVE  Counting'
  <1>0. slipped \subseteq slipped'
    BY RowsStayStep
  <1>a. Idle.step = "idle"
    BY DEF Idle
  <1>1. SUFFICES ASSUME NEW q \in Request, request'[q].step = "count", ~request'[q].linked,
                        NEW what \in {"resumes", "applications"}, what \notin request'[q].todo,
                        NEW p, p = request'[q].opening
                 PROVE  Links(p, what)' = {} \/ <<"link", p>> \in slipped'
    BY DEF Counting, Links, ResumesOf, ApplicationsOf, Kept
  <1>2. ASSUME request'[q] = request[q]
        PROVE  Links(p, what)' = {} \/ <<"link", p>> \in slipped'
    <2>1. PICK o \in Opening : o = request[q].opening
      BY <1>1, <1>2 DEF Locals, Sound, OpeningStep
    <2>2. Links(o, what) = {} \/ <<"link", o>> \in slipped
      BY <1>1, <1>2, <2>1 DEF Counting
    <2>3. Uncounted(o, what)
      BY <1>1, <1>2, <2>1, Values DEF Uncounted
    <2>4. Links(o, what)' \subseteq Links(o, what) \/ <<"link", o>> \in slipped'
      BY <2>3 DEF LinksMarked
    <2>5. p = o
      BY <1>1, <1>2, <2>1
    <2> QED
      BY <1>0, <2>2, <2>4, <2>5
  <1>3. CASE q # r \/ request' = request
    BY <1>2, <1>3 DEF Moved, Others
  <1>4. CASE q = r /\ request' # request
    <2>1. Counts(r)
      BY <1>1, <1>4, <1>a
         DEF Course, Stays, Drops, Clears, Confirms, Files, Finds, Inserts, Rounds, Tells
    <2>2. PICK some \in {"resumes", "applications"} : Count(r, some)
      BY <1>1, <1>4, <2>1 DEF Counts
    <2>3. PICK d \in Local : d = request[r] /\ Sound(d) /\ d.step = "count"
      BY <2>2 DEF Count, TypeOK, Locals
    <2>4. PICK linked : /\ linked = (d.linked \/ HasLinks(d.opening, some))
                        /\ request'[r] = [d EXCEPT !.todo = @ \ {some}, !.linked = linked]
      BY <2>2, <2>3 DEF Count, TypeOK
    <2>5. /\ request'[r].opening = d.opening /\ request'[r].todo = d.todo \ {some}
          /\ request'[r].linked = linked
      BY <2>4 DEF Local
    <2>6. UNCHANGED <<resume, application>>
      BY <2>2 DEF Count, tables
    <2>7. Links(d.opening, what)' = Links(d.opening, what)
      BY <2>6 DEF Links, ResumesOf, ApplicationsOf, Kept
    <2>8. CASE what = some
      BY <1>1, <1>4, <2>4, <2>5, <2>7, <2>8 DEF HasLinks, Links
    <2>9. CASE what # some
      <3>1. what \notin d.todo /\ ~d.linked
        BY <1>1, <1>4, <2>4, <2>5, <2>9
      <3>2. Links(d.opening, what) = {} \/ <<"link", d.opening>> \in slipped
        BY <2>3, <3>1 DEF Counting
      <3> QED
        BY <1>0, <1>1, <1>4, <2>5, <2>7, <3>2
    <2> QED
      BY <2>8, <2>9
  <1> QED
    BY <1>3, <1>4

(* Only a deletion that has counted every kind of link and found none      *)
(* makes an opening go.                                                    *)
Deleted(r) ==
  \A o \in Opening :
    opening[o].life = "kept" /\ opening'[o].life # "kept" =>
      /\ request[r].step = "count" /\ request[r].todo = {} /\ ~request[r].linked
      /\ request[r].opening = o

InOrder(row) ==
  \/ row.status = "active" /\ ~row.completed
  \/ row.status = "done" /\ row.completed
  \/ row.status = "archived"

LEMMA OpeningInOrder ==
  ASSUME TypeOK, CompletedIffDone, NEW r \in Request, NEW o \in Opening, NEW row,
         opening' = [opening EXCEPT ![o] = row], slipped \subseteq slipped',
         row.life = "kept" =>
           InOrder(row) \/ <<"status", o>> \in slipped' \/ (row = opening[o]),
         row.life = "kept" \/ opening[o].life # "kept"
  PROVE  CompletedIffDone' /\ Deleted(r)
  <1>1. \A p \in Opening : opening'[p] = IF p = o THEN row ELSE opening[p]
    BY DEF TypeOK
  <1>2. \A p \in Opening : opening[p].life = "kept" =>
          InOrder(opening[p]) \/ <<"status", p>> \in slipped
    BY DEF CompletedIffDone, Kept, InOrder
  <1>3. \A p \in Opening : opening'[p].life = "kept" =>
          InOrder(opening'[p]) \/ <<"status", p>> \in slipped'
    BY <1>1, <1>2
  <1>4. CompletedIffDone'
    BY <1>3 DEF CompletedIffDone, Kept, InOrder
  <1>5. Deleted(r)
    BY <1>1 DEF Deleted
  <1> QED
    BY <1>4, <1>5

LEMMA OpeningRests ==
  ASSUME CompletedIffDone, NEW r \in Request, opening' = opening, slipped \subseteq slipped'
  PROVE  CompletedIffDone' /\ Deleted(r)
  BY DEF CompletedIffDone, Kept, Deleted

LEMMA OpeningOrder ==
  ASSUME TypeOK, Locals, CompletedIffDone, NEW r \in Request, OpeningHandlers(r),
         slipped \subseteq slipped'
  PROVE  CompletedIffDone' /\ Deleted(r)
  <1>0. PICK q \in Local : q = request[r] /\ Sound(q)
    BY DEF TypeOK, Locals
  <1>1. ASSUME NEW o \in Opening, NEW c \in Client \cup {Nobody}, NEW status \in {"active", "done"},
               OpeningCreate(o, c, status)
        PROVE  CompletedIffDone' /\ Deleted(r)
    <2>1. PICK row : row = [life |-> "kept", status |-> status, completed |-> FALSE, client |-> c]
      OBVIOUS
    <2>2. row.life = "kept" /\ row.status = status /\ ~row.completed
      BY <2>1
    <2>3. /\ opening' = [opening EXCEPT ![o] = row]
          /\ status = "done" => <<"status", o>> \in slipped'
      BY <1>1, <2>1 DEF OpeningCreate
    <2> QED
      BY <2>2, <2>3, OpeningInOrder DEF InOrder
  <1>2. CASE OpeningUpdate(r)
    <2>1. PICK o \in Opening : o = q.opening
      BY <1>0, <1>2 DEF OpeningUpdate, Sound, OpeningStep
    <2>2. PICK old \in OpeningRow : old = opening[o]
      BY DEF TypeOK
    <2>3. PICK row : row = (IF old.life = "kept"
                            THEN [old EXCEPT !.client = q.client, !.status = q.status] ELSE old)
      OBVIOUS
    <2>4. /\ row.life = old.life /\ row.completed = old.completed
          /\ row.status = q.status \/ row = old
      BY <2>2, <2>3 DEF OpeningRow
    <2>5. /\ opening' = [opening EXCEPT ![o] = row]
          /\ q.status # old.status => <<"status", o>> \in slipped'
      BY <1>0, <1>2, <2>1, <2>2, <2>3 DEF OpeningUpdate
    <2>6. old.life = "kept" => InOrder(old) \/ <<"status", o>> \in slipped
      BY <2>2 DEF CompletedIffDone, Kept, InOrder
    <2>7. row.life = "kept" =>
            InOrder(row) \/ <<"status", o>> \in slipped' \/ (row = opening[o])
      BY <2>2, <2>4, <2>5, <2>6 DEF InOrder
    <2> QED
      BY <2>2, <2>4, <2>5, <2>7, OpeningInOrder
  <1>3. CASE DoneUpdate(r)
    <2>1. PICK o \in Opening : o = q.opening
      BY <1>0, <1>3 DEF DoneUpdate, Sound, OpeningStep
    <2>2. PICK old \in OpeningRow : old = opening[o]
      BY DEF TypeOK
    <2>3. PICK row : row = (IF old.life = "kept"
                            THEN [old EXCEPT !.status = "done", !.completed = TRUE] ELSE old)
      OBVIOUS
    <2>4. /\ row.life = old.life
          /\ (row.status = "done" /\ row.completed) \/ row = old
      BY <2>2, <2>3 DEF OpeningRow
    <2>5. opening' = [opening EXCEPT ![o] = row]
      BY <1>0, <1>3, <2>1, <2>2, <2>3 DEF DoneUpdate
    <2> QED
      BY <2>2, <2>4, <2>5, OpeningInOrder DEF InOrder
  <1>4. ASSUME NEW o \in Opening, Reopen(o)
        PROVE  CompletedIffDone' /\ Deleted(r)
    <2>2. PICK old \in OpeningRow : old = opening[o]
      BY DEF TypeOK
    <2>3. PICK row : row = [old EXCEPT !.status = "active", !.completed = FALSE]
      OBVIOUS
    <2>4. row.life = old.life /\ row.status = "active" /\ ~row.completed
      BY <2>2, <2>3 DEF OpeningRow
    <2>5. opening' = [opening EXCEPT ![o] = row]
      BY <1>4, <2>2, <2>3 DEF Reopen, TypeOK
    <2> QED
      BY <2>2, <2>4, <2>5, OpeningInOrder DEF InOrder
  <1>5. ASSUME NEW o \in Opening, ArchiveOpening(o)
        PROVE  CompletedIffDone' /\ Deleted(r)
    <2>2. PICK old \in OpeningRow : old = opening[o]
      BY DEF TypeOK
    <2>3. PICK row : row = [old EXCEPT !.status = "archived"]
      OBVIOUS
    <2>4. row.life = old.life /\ row.status = "archived"
      BY <2>2, <2>3 DEF OpeningRow
    <2>5. opening' = [opening EXCEPT ![o] = row]
      BY <1>5, <2>2, <2>3 DEF ArchiveOpening
    <2> QED
      BY <2>2, <2>4, <2>5, OpeningInOrder DEF InOrder
  <1>6. CASE OpeningDelete(r)
    <2>1. PICK o \in Opening : o = q.opening
      BY <1>0, <1>6 DEF OpeningDelete, Sound, OpeningStep
    <2>3. PICK row : row = (IF opening[o].life = "kept" THEN [NoOpening EXCEPT !.life = "gone"]
                            ELSE opening[o])
      OBVIOUS
    <2>4. row.life # "kept"
      BY <2>3 DEF NoOpening
    <2>5. opening' = [opening EXCEPT ![o] = row]
      BY <1>0, <1>6, <2>1, <2>3 DEF OpeningDelete
    <2>6. \A p \in Opening : opening'[p] = IF p = o THEN row ELSE opening[p]
      BY <2>5 DEF TypeOK
    <2>7. CompletedIffDone'
      BY <2>4, <2>6 DEF CompletedIffDone, Kept
    <2>8. request[r].step = "count" /\ request[r].todo = {} /\ ~request[r].linked
      BY <1>6 DEF OpeningDelete
    <2>9. Deleted(r)
      BY <1>0, <2>1, <2>6, <2>8 DEF Deleted
    <2> QED
      BY <2>7, <2>9
  <1>7. ASSUME NEW o, NEW c, NEW status, NEW what,
               \/ OpeningSelect(r, o, c, status) \/ DoneSelect(r, o) \/ OpeningDeleteSelect(r, o)
               \/ Count(r, what) \/ OpeningRefused(r)
        PROVE  CompletedIffDone' /\ Deleted(r)
    BY <1>7, OpeningRests DEF OpeningSelect, DoneSelect, OpeningDeleteSelect, Count,
         OpeningRefused, tables
  <1> QED
    BY <1>1, <1>2, <1>3, <1>4, <1>5, <1>6, <1>7 DEF OpeningHandlers

LEMMA OthersRest ==
  ASSUME NEW r \in Request, ResumeHandlers(r) \/ ApplicationHandlers(r) \/ IntakeHandlers(r)
  PROVE  opening' = opening
  <1>1. CASE ResumeHandlers(r)
    BY <1>1 DEF ResumeHandlers, ResumeInsert, ResumeSelect, ResumeUpdate, ResumeDeleteSelect,
         CleanupSelect, Erase, Abort, tables
  <1>2. CASE ApplicationHandlers(r)
    BY <1>2 DEF ApplicationHandlers, ApplicationSelect, ApplicationInsert, CreatedEvent,
         StatusSelect, StatusUpdate, StatusEvent, CloseApplication, ArchiveApplication, SetStatus,
         ApplicationDeleteSelect, DeleteEvents, DeleteApplication, Abort, tables
  <1>3. CASE IntakeHandlers(r)
    BY <1>3 DEF IntakeHandlers, AnalyzeFile, Analyze, Edit, Discard, Confirm, ConfirmDirect,
         IntakeInsert, Find, MailUpdate, MailInsert, SubmittedEvent, MailEvent, ConfirmLost,
         ConfirmFails, tables
  <1> QED
    BY <1>1, <1>2, <1>3

OpeningInv == IInv /\ Counting /\ CompletedIffDone

LEMMA OpeningBegins ==
  ASSUME Init
  PROVE  OpeningInv
  <1>1. TypeOK /\ Locals /\ Rows
    BY Started
  <1>2. \A r \in Request : request[r].step = "idle"
    BY DEF Init, Idle
  <1>3. PICK o \in Opening, d \in Client, life \in {"none", "kept"} :
          opening = [p \in Opening |->
            IF p # o \/ life = "none" THEN NoOpening
            ELSE [NoOpening EXCEPT !.life = "kept", !.client = d]]
    BY Zenon DEF Init
  <1>4. \A p \in Opening : opening[p].status = "active" /\ ~opening[p].completed
    BY <1>3 DEF NoOpening
  <1> QED
    BY <1>1, <1>2, <1>4 DEF OpeningInv, IInv, Counting, CompletedIffDone

LEMMA OpeningInvRests ==
  ASSUME OpeningInv, UNCHANGED vars
  PROVE  OpeningInv'
  <1>1. IInv'
    BY WellFormedStep DEF OpeningInv
  <1>2. UNCHANGED <<opening, resume, application, request, slipped>>
    BY DEF vars, tables, control
  <1>3. Counting'
    BY <1>2 DEF OpeningInv, Counting, Links, ResumesOf, ApplicationsOf, Kept
  <1>4. CompletedIffDone'
    BY <1>2 DEF OpeningInv, CompletedIffDone, Kept
  <1> QED
    BY <1>1, <1>3, <1>4 DEF OpeningInv

LEMMA OpeningStepped ==
  ASSUME OpeningInv, NEW r \in Request,
         OpeningHandlers(r) \/ ResumeHandlers(r) \/ ApplicationHandlers(r) \/ IntakeHandlers(r)
  PROVE  OpeningInv' /\ Deleted(r)
  <1>1. TypeOK /\ Locals /\ Rows /\ Counting /\ CompletedIffDone
    BY DEF OpeningInv, IInv
  <1>2. Moved(r) /\ Course(r)
    BY <1>1, HandlersMove, Courses
  <1>3. IInv'
    BY WellFormedStep DEF OpeningInv, Next
  <1>4. slipped \subseteq slipped'
    BY <1>1, <1>2, RowsStayStep
  <1>5. LinksMarked
    BY <1>1, OpeningLinks, ResumeLinks, ApplicationLinks, IntakeLinks
  <1>6. Counting'
    BY <1>1, <1>2, <1>5, CountingStep
  <1>7. CompletedIffDone' /\ Deleted(r)
    BY <1>1, <1>4, OpeningOrder, OthersRest, OpeningRests
  <1> QED
    BY <1>3, <1>6, <1>7 DEF OpeningInv

(* Who completed an opening follows its status, and an opening goes only   *)
(* without links (requirements.ts:610), except in the windows marked.      *)
THEOREM OpeningsHold == Spec => OpeningsKept
  <1>1. Init => OpeningInv
    BY OpeningBegins
  <1>2. OpeningInv /\ [Next]_vars => OpeningInv'
    BY OpeningInvRests, OpeningStepped DEF Next
  <1>3. OpeningInv /\ [Next]_vars =>
          [\A o \in Opening :
             Kept(opening, o) /\ ~Kept(opening', o) =>
               ResumesOf(o) \cup ApplicationsOf(o) = {} \/ <<"link", o>> \in slipped]_vars
    <2>1. SUFFICES ASSUME OpeningInv, NEW r \in Request, Deleted(r), NEW o \in Opening,
                          Kept(opening, o), ~Kept(opening', o)
                   PROVE  ResumesOf(o) \cup ApplicationsOf(o) = {} \/ <<"link", o>> \in slipped
      BY OpeningStepped DEF Next
    <2>2. /\ request[r].step = "count" /\ request[r].todo = {} /\ ~request[r].linked
          /\ request[r].opening = o
      BY <2>1 DEF Deleted, Kept
    <2>3. \A what \in {"resumes", "applications"} :
            Links(o, what) = {} \/ <<"link", o>> \in slipped
      BY <2>1, <2>2 DEF OpeningInv, Counting
    <2> QED
      BY <2>3 DEF Links
  <1>4. OpeningInv => CompletedIffDone
    BY DEF OpeningInv
  <1> QED
    BY <1>1, <1>2, <1>3, <1>4, PTL DEF Spec, OpeningsKept, NoLinkLost

-----------------------------------------------------------------------------
(* The copies of the scope.                                                *)

(* Nobody has no scope but the administrator, and a scope is of clients.   *)
LEMMA ScopeIsOfClients ==
  ASSUME NEW by \in User
  PROVE  ScopeOf(by) \subseteq Client
  BY IdAssumption DEF User, Recruiter, ScopeOf

LEMMA OpeningScopes ==
  ASSUME TypeOK, NEW by \in User
  PROVE  /\ ListedOpenings(by) = {o \in Opening : ServedOpening(by, o)}
         /\ \A c \in Client :
              Global(by) \/ c \in ScopeOf(by) =>
                RoomJobs(by, c) =
                  {o \in ListedOpenings(by) : opening[o].client = c /\ opening[o].status = "active"}
  <1>1. ~(by \in Client /\ Global(by)) /\ (by \in Client => ScopeOf(by) = {by})
    BY IdAssumption DEF Global, ScopeOf
  <1>2. by \in Client => Nobody \notin ScopeOf(by)
    BY Values, ScopeIsOfClients
  <1>3. ListedOpenings(by) = {o \in Opening : ServedOpening(by, o)}
    BY <1>1, <1>2 DEF ListedOpenings, ServedOpening
  <1>4. \A c \in Client :
          Global(by) \/ c \in ScopeOf(by) =>
            RoomJobs(by, c) =
              {o \in ListedOpenings(by) : opening[o].client = c /\ opening[o].status = "active"}
    BY DEF RoomJobs, ListedOpenings
  <1> QED
    BY <1>3, <1>4

LEMMA ResumeScopes ==
  ASSUME TypeOK, NEW by \in User
  PROVE  /\ ListedResumes(by) = {m \in Resume : ServedResume(by, m)}
         /\ ListedResumes(by) = {m \in Resume : ServedFile(by, m)}
         /\ ListedResumes(by) = CompanySources(by)
  BY DEF ListedResumes, ServedResume, ServedFile, CompanySources

LEMMA ApplicationScopes ==
  ASSUME TypeOK, NEW by \in User
  PROVE  /\ ListedApplications(by) = {a \in Application : ServedTimeline(by, a)}
         /\ ListedApplications(by) = Inbox(by)
         /\ ListedApplications(by) = StatsOf(by, "closed") \cup StatsOf(by, "submitted")
  <1>1. \A a \in Application : Stage(a) \in {"closed", "submitted"}
    BY DEF Stage
  <1> QED
    BY <1>1 DEF ListedApplications, ServedTimeline, Inbox, StatsOf

(* The lists and the endpoints of a single row serve the same rows to the  *)
(* same caller, whatever the tables hold.                                  *)
THEOREM ScopesSame == Spec => []ScopesAgree
  <1>1. TypeOK => ScopesAgree
    BY OpeningScopes, ResumeScopes, ApplicationScopes DEF ScopesAgree
  <1>2. IInv => TypeOK
    BY DEF IInv
  <1> QED
    BY <1>1, <1>2, WellFormed, PTL
=============================================================================
