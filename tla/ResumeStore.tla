----------------------------- MODULE ResumeStore -----------------------------
(***************************************************************************)
(* Resumes in two stores: the file on Google Drive, behind a Google Apps    *)
(* Script, and its row in the table resumes.  The upload, the deletion and  *)
(* the retention job (routes/resumes.ts, the cron of index.ts) change both, *)
(* one call after the other; the services/googleAppsScript.ts calls and the *)
(* SQL statements are each a step, any of which may fail, and the Worker    *)
(* may be stopped between two of them.                                      *)
(*                                                                          *)
(* A member of File stands for an uploaded file, for its Drive id and for   *)
(* the row that names it: each upload creates new ids.                      *)
(***************************************************************************)
EXTENDS Naturals

CONSTANTS
    File,      \* files ever uploaded
    Deletion,  \* DELETE requests that may run at the same time
    Job,       \* runs of the retention job that may overlap: cron, /cleanup
    MaxFault   \* bound: calls that fail, requests that are stopped

ASSUME FaultAssumption == MaxFault \in Nat

VARIABLES
    drive,     \* files that are on Google Drive
    rows,      \* files that have a row
    expired,   \* files whose row is older than the retention period
    upload,    \* how far the upload of each file is
    deletion,  \* how far each DELETE request is
    job,       \* how far each run of the retention job is
    asked,     \* history: files whose deletion was requested
    mishaps,   \* history: what went wrong outside of the code, by file
    faults     \* number of mishaps so far

vars == <<drive, rows, expired, upload, deletion, job, asked, mishaps, faults>>
history == <<asked, mishaps, faults>>

\* A call to the Apps Script had no answer or no effect, an INSERT was
\* committed and its answer lost, a request was stopped.
Mishap == {"drive", "commit", "stopped"}

UploadState == {"new", "on drive", "to undo", "saved", "failed"}
Idle == [at |-> "idle"]
DeletionState == {Idle} \cup [at : {"drive", "row"}, file : File]
\* todo: files whose Drive deletion is still to come; all: the rows selected
JobState == {Idle} \cup [at : {"running"}, todo : SUBSET File, all : SUBSET File]

Fault(f, kind) ==
    /\ faults < MaxFault
    /\ faults' = faults + 1
    /\ mishaps' = mishaps \cup {<<f, kind>>}

Init ==
    /\ drive = {} /\ rows = {} /\ expired = {}
    /\ upload = [f \in File |-> "new"]
    /\ deletion = [d \in Deletion |-> Idle]
    /\ job = [j \in Job |-> Idle]
    /\ asked = {} /\ mishaps = {} /\ faults = 0

-----------------------------------------------------------------------------
(* deleteResume of the Apps Script: its callers ignore whether it worked.   *)

DeleteFromDrive(f) ==
    \/ /\ drive' = drive \ {f}
       /\ UNCHANGED <<mishaps, faults>>
    \/ /\ Fault(f, "drive")
       /\ UNCHANGED drive

-----------------------------------------------------------------------------
(* POST /api/resumes/upload, one file of the batch.                         *)

UploadToDrive(f) ==
    /\ upload[f] = "new"
    /\ drive' = drive \cup {f}
    /\ upload' = [upload EXCEPT ![f] = "on drive"]
    /\ UNCHANGED <<rows, expired, deletion, job, history>>

\* uploadResume throws, with or without the file on Drive
UploadFails(f) ==
    /\ upload[f] = "new"
    /\ drive' \in {drive, drive \cup {f}}
    /\ Fault(f, "drive")
    /\ upload' = [upload EXCEPT ![f] = "failed"]
    /\ UNCHANGED <<rows, expired, deletion, job, asked>>

InsertRow(f) ==
    /\ upload[f] = "on drive"
    /\ rows' = rows \cup {f}
    /\ upload' = [upload EXCEPT ![f] = "saved"]
    /\ UNCHANGED <<drive, expired, deletion, job, history>>

\* Mutant of InsertFails: the failed INSERT is not compensated
InsertFailsUnnoticed(f) ==
    /\ upload[f] = "on drive"
    /\ \/ faults < MaxFault /\ faults' = faults + 1 /\ UNCHANGED <<rows, mishaps>>
       \/ Fault(f, "commit") /\ rows' = rows \cup {f}
    /\ upload' = [upload EXCEPT ![f] = "failed"]
    /\ UNCHANGED <<drive, expired, deletion, job, asked>>

\* The INSERT throws: refused by the database, or committed without an answer
InsertFails(f) ==
    /\ upload[f] = "on drive"
    /\ \/ faults < MaxFault /\ faults' = faults + 1 /\ UNCHANGED <<rows, mishaps>>
       \/ Fault(f, "commit") /\ rows' = rows \cup {f}
    /\ upload' = [upload EXCEPT ![f] = "to undo"]
    /\ UNCHANGED <<drive, expired, deletion, job, asked>>

Compensate(f) ==
    /\ upload[f] = "to undo"
    /\ DeleteFromDrive(f)
    /\ upload' = [upload EXCEPT ![f] = "failed"]
    /\ UNCHANGED <<rows, expired, deletion, job, asked>>

-----------------------------------------------------------------------------
(* DELETE /api/resumes/:id                                                  *)

DeleteSelect(d, f) ==
    /\ deletion[d] = Idle
    /\ f \in rows
    /\ deletion' = [deletion EXCEPT ![d] = [at |-> "drive", file |-> f]]
    /\ asked' = asked \cup {f}
    /\ UNCHANGED <<drive, rows, expired, upload, job, mishaps, faults>>

DeleteFile(d) ==
    /\ deletion[d].at = "drive"
    /\ DeleteFromDrive(deletion[d].file)
    /\ deletion' = [deletion EXCEPT ![d].at = "row"]
    /\ UNCHANGED <<rows, expired, upload, job, asked>>

DeleteRow(d) ==
    /\ deletion[d].at = "row"
    /\ \/ rows' = rows \ {deletion[d].file} /\ UNCHANGED faults
       \/ faults < MaxFault /\ faults' = faults + 1 /\ UNCHANGED rows
    /\ deletion' = [deletion EXCEPT ![d] = Idle]
    /\ UNCHANGED <<drive, expired, upload, job, asked, mishaps>>

-----------------------------------------------------------------------------
(* The retention job: the daily cron and POST /api/resumes/cleanup.         *)

Expire(f) ==
    /\ f \in rows \ expired
    /\ expired' = expired \cup {f}
    /\ UNCHANGED <<drive, rows, upload, deletion, job, history>>

\* Mutant of Due: the job takes every row
DueAll == rows

\* Mutant of Due: the job looks only for rows that still have a file
DueWithFile == rows \cap expired \cap drive

\* Rows whose upload_date is before the retention period
Due == rows \cap expired

\* Mutant of JobSelect: the ids of the rows are not kept for the DELETE
JobSelectForgets(j) ==
    /\ job[j] = Idle
    /\ Due # {}
    /\ job' = [job EXCEPT ![j] = [at |-> "running", todo |-> Due]]
    /\ UNCHANGED <<drive, rows, expired, upload, deletion, history>>

JobSelect(j) ==
    /\ job[j] = Idle
    /\ Due # {}
    /\ job' = [job EXCEPT ![j] = [at |-> "running", todo |-> Due, all |-> Due]]
    /\ UNCHANGED <<drive, rows, expired, upload, deletion, history>>

JobFile(j) ==
    /\ job[j].at = "running"
    /\ \E f \in job[j].todo :
          /\ DeleteFromDrive(f)
          /\ job' = [job EXCEPT ![j].todo = @ \ {f}]
    /\ UNCHANGED <<rows, expired, upload, deletion, asked>>

JobRows(j) ==
    /\ job[j].at = "running" /\ job[j].todo = {}
    /\ \/ rows' = rows \ job[j].all /\ UNCHANGED faults
       \/ faults < MaxFault /\ faults' = faults + 1 /\ UNCHANGED rows
    /\ job' = [job EXCEPT ![j] = Idle]
    /\ UNCHANGED <<drive, expired, upload, deletion, asked, mishaps>>

-----------------------------------------------------------------------------
(* The Worker is stopped in the middle of a request.                        *)

UploadStopped(f) ==
    /\ upload[f] \in {"on drive", "to undo"}
    /\ Fault(f, "stopped")
    /\ upload' = [upload EXCEPT ![f] = "failed"]
    /\ UNCHANGED <<drive, rows, expired, deletion, job, asked>>

DeletionStopped(d) ==
    /\ deletion[d] # Idle
    /\ Fault(deletion[d].file, "stopped")
    /\ deletion' = [deletion EXCEPT ![d] = Idle]
    /\ UNCHANGED <<drive, rows, expired, upload, job, asked>>

JobStopped(j) ==
    /\ job[j] # Idle
    /\ faults < MaxFault /\ faults' = faults + 1
    /\ job' = [job EXCEPT ![j] = Idle]
    /\ UNCHANGED <<drive, rows, expired, upload, deletion, asked, mishaps>>

Upload(f) ==
    \/ UploadToDrive(f) \/ UploadFails(f) \/ InsertRow(f) \/ InsertFails(f)
    \/ Compensate(f)    \/ UploadStopped(f)

Delete(d) ==
    \/ \E f \in File : DeleteSelect(d, f)
    \/ DeleteFile(d) \/ DeleteRow(d) \/ DeletionStopped(d)

Retention(j) == JobSelect(j) \/ JobFile(j) \/ JobRows(j) \/ JobStopped(j)

Next ==
    \/ \E f \in File : Upload(f) \/ Expire(f)
    \/ \E d \in Deletion : Delete(d)
    \/ \E j \in Job : Retention(j)

\* The cron runs every day, and a run goes on until it ends or is stopped.
Fairness == \A j \in Job : WF_vars(Retention(j))

Spec == Init /\ [][Next]_vars /\ Fairness

-----------------------------------------------------------------------------
(* Properties.                                                             *)

TypeOK ==
    /\ drive \subseteq File /\ rows \subseteq File /\ expired \subseteq File
    /\ upload \in [File -> UploadState]
    /\ deletion \in [Deletion -> DeletionState]
    /\ job \in [Job -> JobState]
    /\ asked \subseteq File
    /\ mishaps \subseteq File \X Mishap
    /\ faults \in 0 .. MaxFault

\* A resume that is listed can be opened: a row whose deletion nobody asked
\* for and that is not expired has its file on Drive, whatever uploads,
\* deletions and retention runs overlap or fail; the exception is an INSERT
\* that was committed although it reported an error, whose file the upload
\* then deletes.
ListedOpens ==
    \A f \in rows \ (asked \cup expired) : f \in drive \/ <<f, "commit">> \in mishaps

\* No file is left behind on Drive by the code alone: one without a row belongs
\* to an upload that is not finished, or a call to the Apps Script failed or a
\* request was stopped on it.
NoFileLeftBehind ==
    \A f \in drive \ rows :
        \/ upload[f] \in {"on drive", "to undo"}
        \/ <<f, "drive">> \in mishaps \/ <<f, "stopped">> \in mishaps

\* An expired row is removed in the end, although runs of the job overlap, fail
\* half way or are stopped.
ExpiredPurged == \A f \in File : f \in expired ~> f \notin rows
=============================================================================
