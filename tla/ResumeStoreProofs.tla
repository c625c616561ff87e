-------------------------- MODULE ResumeStoreProofs --------------------------
(***************************************************************************)
(* Theorems about ResumeStore, for any files, requests and runs of the job   *)
(* and any number of mishaps.                                                *)
(***************************************************************************)
EXTENDS ResumeStore, TLAPS

\* A file whose upload has not inserted its row has no row yet, so that no
\* deletion and no run of the job can have it; once on Drive it stays there.
Fresh ==
    \A f \in File :
        upload[f] \in {"new", "on drive"} =>
            /\ f \notin rows /\ f \notin asked /\ f \notin expired
            /\ upload[f] = "on drive" => f \in drive

\* An upload undoes a row only if its INSERT reported an error.
Undoing ==
    \A f \in File : upload[f] = "to undo" /\ f \in rows => <<f, "commit">> \in mishaps

Taken(f) == f \notin drive \/ <<f, "drive">> \in mishaps

\* A DELETE works on a file that was asked for, and comes to the row after Drive.
Deleting ==
    \A d \in Deletion : deletion[d] # Idle =>
        /\ deletion[d].file \in asked
        /\ deletion[d].at = "row" => Taken(deletion[d].file)

\* A run of the job works on expired rows, and has taken from Drive the files
\* that are no longer to do.
Running ==
    \A j \in Job : job[j] # Idle =>
        /\ job[j].all \subseteq expired
        /\ \A f \in job[j].all \ job[j].todo : Taken(f)
        /\ job[j].todo \subseteq job[j].all

IInv ==
    TypeOK /\ Fresh /\ Undoing /\ Deleting /\ Running /\ ListedOpens /\ NoFileLeftBehind

-----------------------------------------------------------------------------
\* The initial state satisfies the invariant.
LEMMA InitInv == Init => IInv
BY FaultAssumption DEF Init, IInv, TypeOK, Fresh, Undoing, Deleting, Running,
    ListedOpens, NoFileLeftBehind, UploadState, DeletionState, JobState, Idle

\* What a mishap adds to the history.
LEMMA FaultGrows ==
    ASSUME TypeOK, NEW f \in File, NEW kind \in Mishap, Fault(f, kind)
    PROVE  /\ faults' \in 0 .. MaxFault
           /\ mishaps' \subseteq File \X Mishap
           /\ mishaps \subseteq mishaps'
           /\ <<f, kind>> \in mishaps'
BY FaultAssumption DEF TypeOK, Fault

\* Whether it works or not, a Drive deletion takes the file, and no other.
LEMMA DeletionTakes ==
    ASSUME TypeOK, NEW f \in File, DeleteFromDrive(f)
    PROVE  /\ drive' \subseteq drive
           /\ \A g \in File \ {f} : g \in drive => g \in drive'
           /\ f \notin drive' \/ <<f, "drive">> \in mishaps'
           /\ mishaps \subseteq mishaps'
           /\ mishaps' \subseteq File \X Mishap
           /\ faults' \in 0 .. MaxFault
<1>1. "drive" \in Mishap
    BY DEF Mishap
<1>2. CASE Fault(f, "drive") /\ UNCHANGED drive
    BY <1>1, <1>2, FaultGrows
<1>3. CASE drive' = drive \ {f} /\ UNCHANGED <<mishaps, faults>>
    BY <1>3 DEF TypeOK
<1> QED
    BY <1>2, <1>3 DEF DeleteFromDrive

\* An upload keeps the invariant.
LEMMA UploadStep ==
    ASSUME IInv, NEW f \in File, Upload(f)
    PROVE  IInv'
<1> USE DEF IInv
<1>0. {"drive", "commit", "stopped"} \subseteq Mishap
    BY DEF Mishap
<1>1. CASE UploadToDrive(f)
    <2>1. TypeOK' /\ Fresh' /\ Undoing'
        BY <1>1 DEF UploadToDrive, history, TypeOK, Fresh, Undoing, UploadState
    <2>2. Deleting'
        BY <1>1 DEF UploadToDrive, history, TypeOK, Fresh, Deleting, Taken
    <2>3. Running'
        BY <1>1 DEF UploadToDrive, history, TypeOK, Fresh, Running, Taken
    <2>4. ListedOpens' /\ NoFileLeftBehind'
        BY <1>1 DEF UploadToDrive, history, TypeOK, ListedOpens, NoFileLeftBehind
    <2> QED
        BY <2>1, <2>2, <2>3, <2>4
<1>2. CASE UploadFails(f)
    <2>1. /\ faults' \in 0 .. MaxFault /\ mishaps' \subseteq File \X Mishap
          /\ mishaps \subseteq mishaps' /\ <<f, "drive">> \in mishaps'
        BY <1>0, <1>2, FaultGrows DEF UploadFails
    <2> QED
        BY <1>2, <2>1 DEF UploadFails, TypeOK, Fresh, Undoing, Deleting, Running,
            ListedOpens, NoFileLeftBehind, Taken, UploadState
<1>3. CASE InsertRow(f)
    BY <1>3 DEF InsertRow, history, TypeOK, Fresh, Undoing, Deleting, Running,
        ListedOpens, NoFileLeftBehind, Taken, UploadState
<1>4. CASE InsertFails(f)
    <2>1. /\ faults' \in 0 .. MaxFault /\ mishaps' \subseteq File \X Mishap
          /\ mishaps \subseteq mishaps'
          /\ rows' = rows \/ (rows' = rows \cup {f} /\ <<f, "commit">> \in mishaps')
        <3>1. CASE faults < MaxFault /\ faults' = faults + 1 /\ UNCHANGED <<rows, mishaps>>
            BY <3>1, FaultAssumption DEF TypeOK
        <3>2. CASE Fault(f, "commit") /\ rows' = rows \cup {f}
            BY <1>0, <3>2, FaultGrows
        <3> QED
            BY <1>4, <3>1, <3>2 DEF InsertFails
    <2>2. /\ upload[f] = "on drive" /\ f \notin rows
          /\ upload' = [upload EXCEPT ![f] = "to undo"]
          /\ UNCHANGED <<drive, expired, deletion, job, asked>>
        BY <1>4 DEF InsertFails, Fresh
    <2>3. TypeOK'
        BY <2>1, <2>2 DEF TypeOK, UploadState
    <2>4. \A g \in File : g # f => upload'[g] = upload[g] /\ (g \in rows' <=> g \in rows)
        BY <2>1, <2>2 DEF TypeOK
    <2>5. upload'[f] = "to undo"
        BY <2>2 DEF TypeOK
    <2>6. Fresh'
        BY <2>2, <2>4, <2>5 DEF Fresh
    <2>7. Undoing'
        <3> SUFFICES ASSUME NEW g \in File, upload'[g] = "to undo", g \in rows'
                     PROVE  <<g, "commit">> \in mishaps'
            BY DEF Undoing
        <3>1. CASE g = f
            BY <2>1, <2>2, <3>1
        <3>2. CASE g # f
            <4>1. <<g, "commit">> \in mishaps
                BY <2>4, <3>2 DEF Undoing
            <4> QED
                BY <2>1, <4>1
        <3> QED
            BY <3>1, <3>2
    <2>8. Deleting' /\ Running'
        <3>1. \A g : Taken(g) => Taken(g)'
            BY <2>1, <2>2 DEF Taken
        <3>2. Deleting'
            BY <2>2, <3>1 DEF Deleting
        <3>3. Running'
            BY <2>2, <3>1 DEF Running
        <3> QED
            BY <3>2, <3>3
    <2>9. ListedOpens' /\ NoFileLeftBehind'
        BY <2>1, <2>2, <2>4, <2>5 DEF TypeOK, ListedOpens, NoFileLeftBehind
    <2> QED
        BY <2>3, <2>6, <2>7, <2>8, <2>9
<1>5. CASE Compensate(f)
    <2>1. /\ drive' \subseteq drive
          /\ \A g \in File \ {f} : g \in drive => g \in drive'
          /\ f \notin drive' \/ <<f, "drive">> \in mishaps'
          /\ mishaps \subseteq mishaps' /\ mishaps' \subseteq File \X Mishap
          /\ faults' \in 0 .. MaxFault
        BY <1>5, DeletionTakes DEF Compensate
    <2> QED
        BY <1>5, <2>1 DEF Compensate, TypeOK, Fresh, Undoing, Deleting, Running,
            ListedOpens, NoFileLeftBehind, Taken, UploadState
<1>6. CASE UploadStopped(f)
    <2>1. /\ faults' \in 0 .. MaxFault /\ mishaps' \subseteq File \X Mishap
          /\ mishaps \subseteq mishaps' /\ <<f, "stopped">> \in mishaps'
        BY <1>0, <1>6, FaultGrows DEF UploadStopped
    <2> QED
        BY <1>6, <2>1 DEF UploadStopped, TypeOK, Fresh, Undoing, Deleting, Running,
            ListedOpens, NoFileLeftBehind, Taken, UploadState
<1> QED
    BY <1>1, <1>2, <1>3, <1>4, <1>5, <1>6 DEF Upload

\* The passing of time keeps the invariant.
LEMMA ExpireStep ==
    ASSUME IInv, NEW f \in File, Expire(f)
    PROVE  IInv'
BY DEF IInv, Expire, history, TypeOK, Fresh, Undoing, Deleting, Running,
    ListedOpens, NoFileLeftBehind, Taken

\* A DELETE request keeps the invariant.
LEMMA DeleteStep ==
    ASSUME IInv, NEW d \in Deletion, Delete(d)
    PROVE  IInv'
<1> USE DEF IInv
<1>1. ASSUME NEW f \in File, DeleteSelect(d, f) PROVE IInv'
    <2>1. TypeOK'
        BY <1>1 DEF DeleteSelect, TypeOK, DeletionState
    <2>2. Deleting'
        BY <1>1 DEF DeleteSelect, TypeOK, Deleting, Taken, Idle
    <2> QED
        BY <1>1, <2>1, <2>2 DEF DeleteSelect, TypeOK, Fresh, Undoing, Running,
            ListedOpens, NoFileLeftBehind, Taken
<1>2. ASSUME deletion[d].at # "idle"
      PROVE  /\ deletion[d] # Idle /\ deletion[d].file \in File
             /\ deletion[d].file \in asked
             /\ [deletion[d] EXCEPT !.at = "row"] \in DeletionState
             /\ [deletion[d] EXCEPT !.at = "row"].file = deletion[d].file
             /\ [deletion[d] EXCEPT !.at = "row"].at = "row"
    BY <1>2 DEF TypeOK, DeletionState, Idle, Deleting
<1>3. CASE DeleteFile(d)
    <2> DEFINE f == deletion[d].file
    <2>1. f \in File /\ f \in asked
        BY <1>2, <1>3 DEF DeleteFile
    <2>2. /\ drive' \subseteq drive
          /\ \A g \in File \ {f} : g \in drive => g \in drive'
          /\ f \notin drive' \/ <<f, "drive">> \in mishaps'
          /\ mishaps \subseteq mishaps' /\ mishaps' \subseteq File \X Mishap
          /\ faults' \in 0 .. MaxFault
        BY <1>3, <2>1, DeletionTakes DEF DeleteFile
    <2>3. /\ deletion' \in [Deletion -> DeletionState]
          /\ deletion'[d].file = f
          /\ \A e \in Deletion \ {d} : deletion'[e] = deletion[e]
        BY <1>2, <1>3 DEF DeleteFile, TypeOK
    <2>4. TypeOK'
        BY <1>3, <2>2, <2>3 DEF DeleteFile, TypeOK
    <2>5. Deleting'
        BY <1>3, <2>1, <2>2, <2>3 DEF DeleteFile, TypeOK, Deleting, Taken
    <2> HIDE DEF f
    <2> QED
        BY <1>3, <2>1, <2>2, <2>4, <2>5 DEF DeleteFile, TypeOK, Fresh, Undoing, Running,
            ListedOpens, NoFileLeftBehind, Taken
<1>4. CASE DeleteRow(d)
    <2> DEFINE f == deletion[d].file
    <2>1. f \in File /\ Taken(f)
        BY <1>2, <1>4 DEF DeleteRow, Deleting
    <2>2. rows' = rows \/ rows' = rows \ {f}
        BY <1>4 DEF DeleteRow
    <2>3. TypeOK'
        BY <1>4, FaultAssumption DEF DeleteRow, TypeOK, DeletionState
    <2>4. Deleting'
        BY <1>4 DEF DeleteRow, TypeOK, Deleting, Taken
    <2> HIDE DEF f
    <2> QED
        BY <1>4, <2>1, <2>2, <2>3, <2>4 DEF DeleteRow, TypeOK, Fresh, Undoing, Running,
            ListedOpens, NoFileLeftBehind, Taken
<1>5. CASE DeletionStopped(d)
    <2>1. deletion[d].file \in File /\ "stopped" \in Mishap
        BY <1>5 DEF DeletionStopped, TypeOK, DeletionState, Idle, Mishap
    <2>2. /\ faults' \in 0 .. MaxFault /\ mishaps' \subseteq File \X Mishap
          /\ mishaps \subseteq mishaps'
        BY <1>5, <2>1, FaultGrows DEF DeletionStopped
    <2>3. TypeOK'
        BY <1>5, <2>2 DEF DeletionStopped, TypeOK, DeletionState
    <2>4. Deleting'
        BY <1>5, <2>2 DEF DeletionStopped, TypeOK, Deleting, Taken
    <2> QED
        BY <1>5, <2>2, <2>3, <2>4 DEF DeletionStopped, TypeOK, Fresh, Undoing, Running,
            ListedOpens, NoFileLeftBehind, Taken
<1> QED
    BY <1>1, <1>3, <1>4, <1>5 DEF Delete

\* A run of the retention job keeps the invariant.
LEMMA RetentionStep ==
    ASSUME IInv, NEW j \in Job, Retention(j)
    PROVE  IInv'
<1> USE DEF IInv
<1>1. CASE JobSelect(j)
    <2>1. TypeOK'
        BY <1>1 DEF JobSelect, history, TypeOK, JobState, Due
    <2>2. Running'
        BY <1>1 DEF JobSelect, history, TypeOK, Running, Taken, Due, Idle
    <2> QED
        BY <1>1, <2>1, <2>2 DEF JobSelect, history, TypeOK, Fresh, Undoing, Deleting,
            ListedOpens, NoFileLeftBehind, Taken
<1>2. ASSUME job[j].at = "running"
      PROVE  /\ job[j] # Idle
             /\ job[j].todo \subseteq job[j].all /\ job[j].all \subseteq expired
             /\ job[j].all \subseteq File
             /\ \A f \in job[j].all \ job[j].todo : Taken(f)
    BY <1>2 DEF TypeOK, Idle, Running
<1>3. CASE JobFile(j)
    <2>1. PICK f \in job[j].todo :
             /\ DeleteFromDrive(f)
             /\ job' = [job EXCEPT ![j].todo = @ \ {f}]
        BY <1>3 DEF JobFile
    <2>2. f \in File /\ f \in expired
        BY <1>2, <1>3 DEF JobFile
    <2>3. /\ drive' \subseteq drive
          /\ \A g \in File \ {f} : g \in drive => g \in drive'
          /\ f \notin drive' \/ <<f, "drive">> \in mishaps'
          /\ mishaps \subseteq mishaps' /\ mishaps' \subseteq File \X Mishap
          /\ faults' \in 0 .. MaxFault
        BY <2>1, <2>2, DeletionTakes
    <2>4. /\ job'[j] = [at |-> "running", todo |-> job[j].todo \ {f}, all |-> job[j].all]
          /\ \A i \in Job \ {j} : job'[i] = job[i]
          /\ job' \in [Job -> JobState]
        <3>1. job[j] \in [at : {"running"}, todo : SUBSET File, all : SUBSET File]
            BY <1>3 DEF JobFile, TypeOK, JobState, Idle
        <3> QED
            BY <2>1, <3>1 DEF TypeOK, JobState
    <2>5. TypeOK'
        BY <1>3, <2>3, <2>4 DEF JobFile, TypeOK
    <2>6. Running'
        <3> SUFFICES ASSUME NEW i \in Job, job'[i] # Idle
                     PROVE  /\ job'[i].all \subseteq expired'
                            /\ \A g \in job'[i].all \ job'[i].todo : Taken(g)'
                            /\ job'[i].todo \subseteq job'[i].all
            BY DEF Running
        <3>1. expired' = expired
            BY <1>3 DEF JobFile
        <3>2. \A g : Taken(g) => Taken(g)'
            BY <2>3 DEF Taken
        <3>3. CASE i = j
            BY <1>2, <1>3, <2>3, <2>4, <3>1, <3>2, <3>3 DEF JobFile, Taken
        <3>4. CASE i # j
            BY <2>4, <3>1, <3>2, <3>4 DEF Running
        <3> QED
            BY <3>3, <3>4
    <2> QED
        BY <1>3, <2>2, <2>3, <2>5, <2>6 DEF JobFile, TypeOK, Fresh, Undoing, Deleting,
            ListedOpens, NoFileLeftBehind, Taken
<1>4. CASE JobRows(j)
    <2>1. \A f \in job[j].all : f \in File /\ Taken(f)
        BY <1>2, <1>4 DEF JobRows
    <2>2. rows' = rows \/ rows' = rows \ job[j].all
        BY <1>4 DEF JobRows
    <2>3. TypeOK'
        BY <1>4, FaultAssumption DEF JobRows, TypeOK, JobState
    <2>4. Running'
        BY <1>4 DEF JobRows, TypeOK, Running, Taken
    <2> QED
        BY <1>4, <2>1, <2>2, <2>3, <2>4 DEF JobRows, TypeOK, Fresh, Undoing, Deleting,
            ListedOpens, NoFileLeftBehind, Taken
<1>5. CASE JobStopped(j)
    <2>1. TypeOK'
        BY <1>5, FaultAssumption DEF JobStopped, TypeOK, JobState
    <2>2. Running'
        BY <1>5 DEF JobStopped, TypeOK, Running, Taken
    <2> QED
        BY <1>5, <2>1, <2>2 DEF JobStopped, TypeOK, Fresh, Undoing, Deleting,
            ListedOpens, NoFileLeftBehind, Taken
<1> QED
    BY <1>1, <1>3, <1>4, <1>5 DEF Retention

\* Every step keeps the invariant.
LEMMA NextInv == IInv /\ [Next]_vars => IInv'
<1> SUFFICES ASSUME IInv, [Next]_vars PROVE IInv'
    OBVIOUS
<1>1. CASE Next
    BY <1>1, UploadStep, ExpireStep, DeleteStep, RetentionStep DEF Next
<1>2. CASE UNCHANGED vars
    BY <1>2 DEF vars, IInv, TypeOK, Fresh, Undoing, Deleting, Running,
        ListedOpens, NoFileLeftBehind, Taken
<1> QED
    BY <1>1, <1>2

\* The invariant holds in every reachable state.
LEMMA Invariance == Spec => []IInv
BY InitInv, NextInv, PTL DEF Spec

\* The stores and the requests keep their types.
THEOREM TypeCorrect == Spec => []TypeOK
BY Invariance, PTL DEF IInv

\* A listed resume that nobody asked to delete and that is not expired has its
\* file on Drive, unless its INSERT was committed and reported as failed.
THEOREM ListedOpensHolds == Spec => []ListedOpens
BY Invariance, PTL DEF IInv

\* A file without a row belongs to an upload in progress, or a call to the Apps
\* Script failed or a request was stopped on it.
THEOREM NoFileLeftBehindHolds == Spec => []NoFileLeftBehind
BY Invariance, PTL DEF IInv
=============================================================================
