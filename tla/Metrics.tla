-------------------------------- MODULE Metrics --------------------------------
(***************************************************************************)
(* The numbers that the dashboards show (services/dashboardMetrics.ts,     *)
(* routes/dashboard.ts), and those that other pages count on their own:    *)
(* the progress of the targets, the list of recruiters, the list of        *)
(* resumes.  Rows come and go while the days pass.                         *)
(*                                                                         *)
(* Abstracted: percentages (a fixed function of two numbers that are here),*)
(* names and links of rows, the counts that are not about days (clients,   *)
(* openings), rows of no client (see Organisation).                        *)
(***************************************************************************)
EXTENDS Calendar, FiniteSets, FiniteSetsExt

CONSTANTS
  Recruiter, Client,
  Resume, Application,  \* bound: rows at a time
  None,                 \* no such row; no resume
  Daily,                \* the active target of each recruiter for each client, 0: none
  Window,               \* how many days back work may be dated (7)
  Retention,            \* days that a resume is kept (120)
  MaxWrite              \* bound: changes of the rows

ASSUME RowsAssumption ==
  /\ Daily \in [Recruiter \X Client -> Nat]
  /\ Window \in Nat /\ Retention \in Nat /\ Retention >= Span /\ MaxWrite \in Nat

VARIABLES
  resume,       \* the rows of resumes
  application,  \* the rows of applications
  active,       \* the active recruiters
  writes        \* number of changes so far

rows == <<resume, application>>
vars == <<clock, rows, active, writes>>

(* work: work_date; dated: resume_date; the moment of the upload; history: *)
(* edited, whether the date was changed later.                             *)
ResumeRow == [by : Recruiter, client : Client, work : Int, dated : Int,
              day : Int, early : BOOLEAN, edited : BOOLEAN]
ApplicationRow == [by : Recruiter, client : Client, resume : Resume \cup {None},
                   day : Int, early : BOOLEAN]

Resumes == {r \in Resume : resume[r] # None}
Applications == {a \in Application : application[a] # None}
Fresh(ids) == CHOOSE i \in ids : TRUE

Init ==
  /\ ClockInit
  /\ resume = [r \in Resume |-> None]
  /\ application = [a \in Application |-> None]
  /\ active = Recruiter /\ writes = 0

-----------------------------------------------------------------------------
(* The rows.                                                               *)

(* Mutant of Upload: the resume is dated by the day of the upload.         *)
UploadDatedToday(e, c, work) ==
  /\ e \in active /\ work \in (day - Window) .. day
  /\ Resumes # Resume
  /\ resume' = [resume EXCEPT ![Fresh(Resume \ Resumes)] =
       [by |-> e, client |-> c, work |-> work, dated |-> day, day |-> day, early |-> early,
        edited |-> FALSE]]
  /\ UNCHANGED <<clock, application, active>>

(* POST /resumes/upload: work of today, or of some days before.            *)
Upload(e, c, work) ==
  /\ e \in active /\ work \in (day - Window) .. day
  /\ Resumes # Resume
  /\ resume' = [resume EXCEPT ![Fresh(Resume \ Resumes)] =
       [by |-> e, client |-> c, work |-> work, dated |-> work, day |-> day, early |-> early,
        edited |-> FALSE]]
  /\ UNCHANGED <<clock, application, active>>

(* updateHandler: another date or client; the date of the work stays.      *)
EditResume(r, d, c) ==
  /\ resume[r] # None
  /\ resume' = [resume EXCEPT ![r].dated = d, ![r].client = c, ![r].edited = TRUE]
  /\ UNCHANGED <<clock, application, active>>

(* An application is entered, or read from a mail, with a resume or without*)
Apply(e, c, r) ==
  /\ e \in active /\ Applications # Application
  /\ r # None => resume[r] # None /\ resume[r].client = c
  /\ application' = [application EXCEPT ![Fresh(Application \ Applications)] =
       [by |-> e, client |-> c, resume |-> r, day |-> day, early |-> early]]
  /\ UNCHANGED <<clock, resume, active>>

(* Mutant of Erase: the applications stay.                                 *)
EraseAlone(gone) ==
  /\ resume' = [r \in Resume |-> IF r \in gone THEN None ELSE resume[r]]
  /\ UNCHANGED application

(* The deletion of resumes takes their applications with it.               *)
Erase(gone) ==
  /\ resume' = [r \in Resume |-> IF r \in gone THEN None ELSE resume[r]]
  /\ application' = [a \in Application |->
       IF a \in Applications /\ application[a].resume \in gone THEN None ELSE application[a]]

DeleteResume(r) ==
  /\ resume[r] # None
  /\ Erase({r})
  /\ UNCHANGED <<clock, active>>

(* Mutant of Expired: the interval has lost its unit.                      *)
ExpiredSoon(r) == Moment(resume[r].day, resume[r].early) < Now - Retention

Expired(r) == Moment(resume[r].day, resume[r].early) < Now - 2 * Retention

(* The daily job, and POST /resumes/cleanup.                               *)
Retain ==
  /\ \E r \in Resumes : Expired(r)
  /\ Erase({r \in Resumes : Expired(r)})
  /\ UNCHANGED <<clock, active, writes>>

Activate(e) ==
  /\ active' = IF e \in active THEN active \ {e} ELSE active \cup {e}
  /\ UNCHANGED <<clock, rows>>

Tick == (Dawn \/ Midnight) /\ UNCHANGED <<rows, active, writes>>

-----------------------------------------------------------------------------
(* Counts of a scope: a set of recruiters and a set of clients.            *)

Larger(a, b) == IF a >= b THEN a ELSE b

Within(people, clients) == [people |-> people, clients |-> clients]
Everything == Within(Recruiter, Client)

ResumesIn(s) == {r \in Resumes : resume[r].by \in s.people /\ resume[r].client \in s.clients}
ApplicationsIn(s) ==
  {a \in Applications : application[a].by \in s.people /\ application[a].client \in s.clients}

UploadsOn(s, range, custom) ==
  Cardinality({r \in ResumesIn(s) : InRange(resume[r].work, range, custom)})
AppliedOn(s, range, custom) ==
  Cardinality({a \in ApplicationsIn(s) : InRange(application[a].day, range, custom)})

(* getResumeStats                                                          *)
ResumeStats(s, range, custom) ==
  [total |-> UploadsOn(s, "all", NoDate), today |-> UploadsOn(s, "today", NoDate),
   yesterday |-> UploadsOn(s, "yesterday", NoDate), count |-> UploadsOn(s, range, custom)]

(* getApplicationStats: an upload counts as an application.                *)
ApplicationStats(s, range, custom) ==
  LET uploads == ResumeStats(s, range, custom) IN
  [total |-> Larger(AppliedOn(s, "all", NoDate), uploads.total),
   today |-> Larger(AppliedOn(s, "today", NoDate), uploads.today),
   yesterday |-> Larger(AppliedOn(s, "yesterday", NoDate), uploads.yesterday),
   count |-> Larger(AppliedOn(s, range, custom), uploads.count)]

(* Mutant of TeamMaps: uploads do not count as applications.               *)
TeamMapsApart(people, range, custom) ==
  [e \in people |->
     [uploads |-> ResumeStats(Within({e}, Client), range, custom),
      applications |->
        [total |-> AppliedOn(Within({e}, Client), "all", NoDate),
         today |-> AppliedOn(Within({e}, Client), "today", NoDate),
         yesterday |-> AppliedOn(Within({e}, Client), "yesterday", NoDate),
         count |-> AppliedOn(Within({e}, Client), range, custom)]]]

(* getTeamPerformanceMaps: of each recruiter, whatever the client.  The    *)
(* rows are grouped; who has none counts nothing.                          *)
TeamMaps(people, range, custom) ==
  [e \in people |->
     LET mine == {r \in Resumes : resume[r].by = e}
         applied == {a \in Applications : application[a].by = e}
         uploads == [total |-> Cardinality(mine),
                     today |-> Cardinality({r \in mine : resume[r].work = day}),
                     yesterday |-> Cardinality({r \in mine : resume[r].work = day - 1}),
                     count |-> Cardinality({r \in mine : InRange(resume[r].work, range, custom)})]
         on(k, d) == Cardinality({a \in applied : InRange(application[a].day, k, d)}) IN
     [uploads |-> uploads,
      applications |-> [total |-> Larger(uploads.total, Cardinality(applied)),
                        today |-> Larger(uploads.today, on("today", NoDate)),
                        yesterday |-> Larger(uploads.yesterday, on("yesterday", NoDate)),
                        count |-> Larger(uploads.count, on(range, custom))]]]

(* Mutant of SevenDays: the series begins a day too late.                  *)
SixDays ==
  [d \in (day - Span + 2) .. day |->
     [uploads |-> UploadsOn(Everything, "all", {d}),
      applications |-> Larger(AppliedOn(Everything, "all", {d}), UploadsOn(Everything, "all", {d}))]]

(* getSevenDayTrend: of everybody, whoever looks.                          *)
SevenDays ==
  [d \in (day - Span + 1) .. day |->
     [uploads |-> UploadsOn(Everything, "all", {d}),
      applications |-> Larger(AppliedOn(Everything, "all", {d}), UploadsOn(Everything, "all", {d}))]]

(* The sum of the active targets of a scope.                               *)
TargetSum(s) ==
  MapThenSumSet(LAMBDA pair : Daily[pair], (s.people \cap active) \X s.clients)

-----------------------------------------------------------------------------
(* The pages.                                                              *)

NoFilter == "any"
Chosen(allowed, filter) == IF filter = NoFilter THEN allowed ELSE allowed \cap {filter}

(* GET /dashboard/admin/home, for who may see the scope, with the filters. *)
Overview(scope, client, recruiter, range, custom) ==
  LET s == Within(Chosen(scope.people, recruiter), Chosen(scope.clients, client)) IN
  [uploads |-> ResumeStats(s, range, custom), applications |-> ApplicationStats(s, range, custom),
   target |-> TargetSum(s)]

(* Its team: the active recruiters of the scope, whatever the filters.     *)
Team(scope, range, custom) == TeamMaps(scope.people \cap active, range, custom)

(* Its client cards count whatever the filters as well.                    *)
Received(c) ==
  Larger(Cardinality({a \in Applications : application[a].client = c}),
         Cardinality({r \in Resumes : resume[r].client = c}))

(* Mutant of Backfilled: work of today is in it.                           *)
BackfilledOrNot(e) ==
  {r \in Resumes : resume[r].by = e /\ resume[r].day = day /\ resume[r].work <= day}

(* The uploads of today for earlier days.                                  *)
Backfilled(e) ==
  {r \in Resumes : resume[r].by = e /\ resume[r].day = day /\ resume[r].work < day}

(* GET /dashboard/admin/backfilled-details: the same with their delays.    *)
BackfilledDetails(e) == [r \in Backfilled(e) |-> Larger(resume[r].day - resume[r].work, 0)]

(* delay_days of a row of GET /resumes, which counts it itself; the row is *)
(* marked as backfilled when there is one.                                 *)
Delay(r) == IF resume[r].day > resume[r].work THEN resume[r].day - resume[r].work ELSE 0

(* GET /dashboard/employee and GET /dashboard/client/home                  *)
EmployeeHome(e, range, custom) ==
  [uploads |-> ResumeStats(Within({e}, Client), range, custom),
   applications |-> ApplicationStats(Within({e}, Client), range, custom)]
ClientHome(c, range, custom) ==
  [uploads |-> ResumeStats(Within(Recruiter, {c}), range, custom),
   applications |-> ApplicationStats(Within(Recruiter, {c}), range, custom)]

(* Mutant of Achieved: the client is not compared.                         *)
AchievedAnywhere(e, c) == UploadsOn(Within({e}, Client), "today", NoDate)

(* GET /targets/progress: the applications of today are compared by moment *)
(* with the beginning of a day, so that none counts.                       *)
Achieved(e, c) == UploadsOn(Within({e}, {c}), "today", NoDate)
Progress(e) ==
  MapThenSumSet(LAMBDA c : Achieved(e, c), {c \in Client : Daily[e, c] > 0})

(* The list of recruiters counts by the day of the database, and an upload *)
(* of today whatever its date.                                             *)
ListedToday(e) ==
  Larger(Cardinality({r \in Resumes : /\ resume[r].by = e
                                      /\ \/ resume[r].dated = UtcToday
                                         \/ UtcDay(resume[r].day, resume[r].early) >= UtcToday}),
         Cardinality({a \in Applications :
                        /\ application[a].by = e
                        /\ UtcDay(application[a].day, application[a].early) >= UtcToday}))

(* GET /resumes with date_filter = today                                   *)
ResumesToday(s) == {r \in ResumesIn(s) : resume[r].dated = UtcToday}

(* The page of the administrator adds the date of the browser to the       *)
(* filter, and takes the uploads for submissions once more.                *)
PageDate(quick) == IF quick = "yesterday" THEN UtcToday - 1 ELSE UtcToday

DateSent(quick, date) ==
  IF quick \in {"today", "yesterday", "custom"} THEN {date} ELSE NoDate

(* Mutant of WithUploads: the uploads of today count for yesterday as well.*)
WithTodaysUploads(shown, quick) == Larger(shown.applications.count, shown.uploads.today)

WithUploads(shown, quick) ==
  Larger(shown.applications.count,
         CASE quick = "yesterday" -> shown.uploads.yesterday
           [] quick \in {"this_week", "this_month"} -> shown.uploads.count
           [] OTHER -> shown.uploads.today)

Submitted(scope, quick, date) ==
  WithUploads(Overview(scope, NoFilter, NoFilter, quick, DateSent(quick, date)), quick)

(* The rows of its recruiters.                                             *)
TeamSubmitted(scope, quick, date) ==
  LET team == Team(scope, quick, DateSent(quick, date)) IN
  [e \in DOMAIN team |-> WithUploads(team[e], quick)]

-----------------------------------------------------------------------------

Change ==
  \/ \E e \in Recruiter, c \in Client, work \in (FirstDay - Window) .. (LastDay + 1) : Upload(e, c, work)
  \/ \E r \in Resume, c \in Client : EditResume(r, day, c)
  \/ \E e \in Recruiter, c \in Client, r \in Resume \cup {None} : Apply(e, c, r)
  \/ \E r \in Resume : DeleteResume(r)
  \/ \E e \in Recruiter : Activate(e)

Next ==
  \/ Change /\ writes < MaxWrite /\ writes' = writes + 1
  \/ Retain \/ Tick

Spec == Init /\ [][Next]_vars

-----------------------------------------------------------------------------

TypeOK ==
  /\ ClockOK
  /\ resume \in [Resume -> ResumeRow \cup {None}]
  /\ application \in [Application -> ApplicationRow \cup {None}]
  /\ active \subseteq Recruiter /\ writes \in 0 .. MaxWrite
  /\ \A a \in Applications : application[a].resume \in Resumes \cup {None}

(* "Single source of truth for dashboard statistics": for any range (today,*)
(* yesterday and all are in every answer), the team of the administrator   *)
(* shows of a recruiter what the recruiter sees, and the filter of a       *)
(* client what the client sees.                                            *)
OneTruth ==
  \A range \in {"this_week", "last7"} :
    /\ Team(Everything, range, NoDate) = [e \in active |-> EmployeeHome(e, range, NoDate)]
    /\ \A c \in Client :
         LET shown == Overview(Everything, c, NoFilter, range, NoDate) IN
         [uploads |-> shown.uploads, applications |-> shown.applications]
           = ClientHome(c, range, NoDate)
    /\ \A c \in Client : Received(c) = ClientHome(c, range, NoDate).applications.total

(* The series of the last seven days adds up to the number next to it, but *)
(* for applications, where the larger number is taken day by day; and the  *)
(* overview never tells more applications than its recruiters together.    *)
DaysAddUp ==
  LET shown == Overview(Everything, NoFilter, NoFilter, "last7", NoDate)
      people == TeamMaps(Recruiter, "last7", NoDate)
      series == SevenDays IN
  /\ MapThenSumSet(LAMBDA d : series[d].uploads, DOMAIN series) = shown.uploads.count
  /\ MapThenSumSet(LAMBDA d : series[d].applications, DOMAIN series) >= shown.applications.count
  /\ shown.applications.count
       <= MapThenSumSet(LAMBDA e : people[e].applications.count, Recruiter)

(* Every upload of today is one for today or a backfilled one, and those   *)
(* that the administrator looks into are the rows of the list of resumes   *)
(* that have a delay, with this delay.                                     *)
BackfillAccounted ==
  \A e \in Recruiter :
    LET mine == {r \in Resumes : resume[r].by = e /\ resume[r].day = day} IN
    /\ Cardinality(mine) = EmployeeHome(e, "today", NoDate).uploads.today + Cardinality(Backfilled(e))
    /\ BackfilledDetails(e) = [r \in {q \in mine : Delay(q) > 0} |-> Delay(r)]

(* The progress of the targets never tells more than the page of the       *)
(* recruiter, and as much when every client has a target and nothing was   *)
(* entered but by an upload.                                               *)
ProgressWithinDay ==
  \A e \in Recruiter :
    LET page == EmployeeHome(e, "today", NoDate) IN
    /\ Progress(e) <= page.applications.today
    /\ (\A c \in Client : Daily[e, c] > 0) => Progress(e) = page.uploads.today

(* What the administrator sees as submitted in a period is what was        *)
(* submitted in it.  The windows: in the early part of a day, the browser  *)
(* is still at the day before; for a date of the calendar, the uploads of  *)
(* today are shown when there are more of them.                            *)
PageShowsDay ==
  /\ ~early => \A quick \in {"today", "yesterday", "this_week"} :
       /\ Submitted(Everything, quick, PageDate(quick))
            = ApplicationStats(Everything, quick, NoDate).count
       /\ TeamSubmitted(Everything, quick, PageDate(quick))
            = [e \in active |-> EmployeeHome(e, quick, NoDate).applications.count]
  /\ \A d \in FirstDay .. LastDay :
       Submitted(Everything, "custom", d) =
         Larger(ApplicationStats(Everything, "all", {d}).count,
                ResumeStats(Everything, "today", NoDate).today)

(* Pages that count by the day of the database agree with the dashboard    *)
(* when nothing happened in the early part of the day and no date was      *)
(* edited: the list of resumes tells the work of today, that of recruiters *)
(* the uploads of today, backfilled ones included.                         *)
ListsAgree ==
  \A e \in Recruiter :
    LET mine == {r \in Resumes : resume[r].by = e}
        applied == {a \in Applications : application[a].by = e} IN
    \/ early
    \/ \E r \in mine : resume[r].edited \/ resume[r].early
    \/ \E a \in applied : application[a].early
    \/ /\ Cardinality(ResumesToday(Within({e}, Client))) = EmployeeHome(e, "today", NoDate).uploads.today
       /\ ListedToday(e) = Larger(EmployeeHome(e, "today", NoDate).uploads.today + Cardinality(Backfilled(e)),
                                  EmployeeHome(e, "today", NoDate).applications.today)

(* The numbers that several dashboards show are one number, in the cards,  *)
(* the series, the rows of the recruiters and the split by backfill.       *)
CountsAgree == TypeOK /\ OneTruth /\ DaysAddUp /\ BackfillAccounted

(* What the pages make of them agrees as well: the administrator's page,   *)
(* the lists of resumes and of recruiters, the progress of the targets.    *)
PagesAgree == PageShowsDay /\ ListsAgree /\ ProgressWithinDay

(* "IST timezone-safe boundary filtering": the day of UTC begins without   *)
(* any number of a dashboard changing, and over the end of a business day  *)
(* what was today is yesterday.                                            *)
ClockKeepsCounts ==
  [][ /\ Dawn => \A e \in Recruiter, range \in Period :
                   EmployeeHome(e, range, NoDate)' = EmployeeHome(e, range, NoDate)
      /\ Midnight => \A c \in Client :
           /\ ClientHome(c, "today", NoDate).uploads.yesterday'
                = ClientHome(c, "today", NoDate).uploads.today
           /\ ClientHome(c, "today", NoDate).applications.yesterday'
                = ClientHome(c, "today", NoDate).applications.today ]_vars

(* The retention takes away no upload of the days that the dashboards tell *)
(* apart, and of the applications those only whose resume has expired.     *)
RetentionKeepsDays ==
  [][ Retain =>
        /\ \A d \in DOMAIN SevenDays : SevenDays[d].uploads' = SevenDays[d].uploads
        /\ \A a \in Applications :
             \/ application'[a] # None
             \/ application[a].resume \in {r \in Resumes : Expired(r)} ]_vars

(* What was counted for a day stands: neither the two clocks nor the       *)
(* retention change the numbers of a day that is over.                     *)
DaysStand == ClockKeepsCounts /\ RetentionKeepsDays

=============================================================================
