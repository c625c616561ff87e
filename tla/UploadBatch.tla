------------------------------ MODULE UploadBatch ------------------------------
(***************************************************************************)
(* The upload page of a recruiter (UploadPage.jsx) and the batch that the  *)
(* server works off, file by file (POST /api/resumes/upload).  The queue of*)
(* the page lives on while a batch is under way; the answer tells the      *)
(* outcome of each file by its name.                                       *)
(*                                                                         *)
(* Abstracted: what is stored of a file (see ResumeStore), dates (see      *)
(* Metrics), the notifications at the end, progress bars.                  *)
(***************************************************************************)
EXTENDS Filenames

CONSTANTS
  File,       \* files that may be chosen, once each; also their queue rows
  Name,       \* the name of each file; two may share one
  Legible,    \* the files that the model extracts the fields from
  MaxQueue,   \* rows that the queue holds (200)
  MaxCommit,  \* bound: batches sent
  MaxEdit     \* bound: changes to the page, but for added files

ASSUME FileAssumption == Name \in [File -> Seq(Word)] /\ Legible \subseteq File
ASSUME QueueAssumption == MaxQueue \in Nat \ {0} /\ MaxCommit \in Nat /\ MaxEdit \in Nat

VARIABLES
  selected,   \* the client selected in the page
  queue,      \* the rows of the queue, in order
  uploading,  \* the number of the batch whose answer the page waits for, 0: none
  batch,      \* the batches sent: [client, rows, results]
  saved,      \* the resumes saved, in order
  chosen,     \* history: files that were put into the queue by the person
  removed,    \* history: those that the person took out again
  slipped,    \* history: windows the code leaves open, see the properties
  edits       \* number of those changes so far

page == <<selected, queue, uploading>>
server == <<batch, saved>>
history == <<chosen, removed, slipped, edits>>
vars == <<page, server, history>>

Described == [Field -> Seq(Word \cup {"typed", "extracted"})]
Row == [file : File, valid : BOOLEAN, shown : Described]
Saved == [file : File, client : Client, shown : Described, stored : Described]
Result == {"pending", "saved", "error"}
Batch == [client : Client, rows : Seq(Row), results : Seq(Result)]

RowIn(rows, f) == \E i \in DOMAIN rows : rows[i].file = f
Stored(f) == {i \in DOMAIN saved : saved[i].file = f}
Share(f, g) == f # g /\ Name[f] = Name[g]

Init ==
  /\ selected = Nobody /\ queue = <<>> /\ uploading = 0
  /\ batch = <<>> /\ saved = <<>>
  /\ chosen = {} /\ removed = {} /\ slipped = {} /\ edits = 0

-----------------------------------------------------------------------------
(* The queue.  Nothing here waits for an upload that is under way, but for *)
(* Clear.                                                                  *)

Revalidated(rows) == [i \in DOMAIN rows |-> [rows[i] EXCEPT !.valid = TRUE]]

Tag(kind, files) == {<<kind, f>> : f \in files}
FilesOf(rows) == {rows[i].file : i \in DOMAIN rows}

(* The rows are marked as valid for c although their names say otherwise.  *)
Vouched(rows, c) == Tag("vouched", {f \in FilesOf(rows) : Mismatch(Name[f], c)})

(* A client is selected, and the effect on the queue: every row is valid   *)
(* then.                                                                   *)
SelectClient(c) ==
  /\ c # selected
  /\ selected' = c
  /\ queue' = Revalidated(queue)
  /\ slipped' = slipped \cup Vouched(queue, c)
  /\ UNCHANGED <<uploading, server, chosen, removed>>

(* Mutant of AddFile: the queue is not cut.                                *)
AddAnyFile(f) ==
  /\ f \notin chosen
  /\ chosen' = chosen \cup {f}
  /\ queue' = Append(queue, [file |-> f, valid |-> Valid(Name[f], selected),
                              shown |-> PageParse(Name[f])])
  /\ UNCHANGED <<selected, uploading, server, removed, slipped, edits>>

(* handleFilesSelected: what does not fit into the queue is left out.      *)
AddFile(f) ==
  /\ f \notin chosen
  /\ chosen' = chosen \cup {f}
  /\ IF Len(queue) < MaxQueue
     THEN /\ queue' = Append(queue, [file |-> f, valid |-> Valid(Name[f], selected),
                                     shown |-> PageParse(Name[f])])
          /\ UNCHANGED slipped
     ELSE UNCHANGED queue /\ slipped' = slipped \cup Tag("full", {f})
  /\ UNCHANGED <<selected, uploading, server, removed, edits>>

(* handleUpdateRow: another company is typed.                              *)
EditCompany(i) ==
  /\ queue' = [queue EXCEPT ![i].shown.company = <<"typed">>]
  /\ UNCHANGED <<selected, uploading, server, chosen, removed, slipped>>

(* handleUpdateRow: the selected client is typed, or another name.         *)
EditClient(i, matches) ==
  /\ matches \/ selected # Nobody
  /\ queue' = [queue EXCEPT ![i].valid = matches]
  /\ slipped' = IF matches THEN slipped \cup Vouched(<<queue[i]>>, selected) ELSE slipped
  /\ UNCHANGED <<selected, uploading, server, chosen, removed>>

(* handleQuickFixRow: what typing the name of the client does.             *)
QuickFix(i) == selected # Nobody /\ EditClient(i, TRUE)

(* handleAutoFixAllToSelectedClient                                        *)
AutoFixAll ==
  /\ selected # Nobody /\ queue # <<>>
  /\ queue' = Revalidated(queue)
  /\ slipped' = slipped \cup Vouched(queue, selected)
  /\ UNCHANGED <<selected, uploading, server, chosen, removed>>

(* handleRemoveRow                                                         *)
RemoveRow(i) ==
  /\ queue' = Selected(queue, DOMAIN queue \ {i})
  /\ removed' = removed \cup {queue[i].file}
  /\ UNCHANGED <<selected, uploading, server, chosen, slipped>>

Clear ==
  /\ uploading = 0 /\ queue # <<>>
  /\ queue' = <<>>
  /\ removed' = removed \cup FilesOf(queue)
  /\ UNCHANGED <<selected, uploading, server, chosen, slipped>>

-----------------------------------------------------------------------------
(* A batch.                                                                *)

(* Mutant of Reviewed: one valid row is enough.                            *)
SomeReviewed(rows) == \E i \in DOMAIN rows : rows[i].valid

Reviewed(rows) == \A i \in DOMAIN rows : rows[i].valid

(* handleCommitUpload; the buttons are disabled while a batch is under way.*)
Commit ==
  /\ uploading = 0 /\ Len(batch) < MaxCommit
  /\ selected # Nobody
  /\ queue # <<>> /\ Reviewed(queue)
  /\ uploading' = Len(batch) + 1
  /\ batch' = Append(batch, [client |-> selected, rows |-> queue,
                             results |-> [i \in DOMAIN queue |-> "pending"]])
  /\ UNCHANGED <<selected, queue, saved, history>>

(* The metadata of a file is looked up by its name: the last of a name.    *)
ShownFor(rows, i) ==
  LET same == {j \in DOMAIN rows : Name[rows[j].file] = Name[rows[i].file]} IN
  rows[CHOOSE j \in same : \A k \in same : k <= j].shown

(* The files are worked off in order.                                      *)
Turn(b, i) ==
  /\ batch[b].results[i] = "pending"
  /\ \A j \in 1 .. (i - 1) : batch[b].results[j] # "pending"

(* A file is stored: the model extracts all the fields from it, or none.   *)
SaveFile(b, i) ==
  LET row == batch[b].rows[i]
      extracted == IF row.file \in Legible THEN <<"extracted">> ELSE Placeholder IN
  /\ Turn(b, i)
  /\ saved' = Append(saved,
       [file |-> row.file, client |-> batch[b].client, shown |-> row.shown,
        stored |-> Merged(ShownFor(batch[b].rows, i), [f \in Field |-> extracted],
                          Name[row.file])])
  /\ batch' = [batch EXCEPT ![b].results[i] = "saved"]
  /\ UNCHANGED <<page, history>>

(* Drive or the database refuses it, and the batch goes on.                *)
RefuseFile(b, i) ==
  /\ Turn(b, i)
  /\ batch' = [batch EXCEPT ![b].results[i] = "error"]
  /\ UNCHANGED <<page, saved, history>>

Done(b) == \A i \in DOMAIN batch[b].results : batch[b].results[i] # "pending"

FailedNames(b) ==
  {Name[batch[b].rows[i].file] : i \in {j \in DOMAIN batch[b].rows : batch[b].results[j] = "error"}}

(* Mutant of Kept: the rows whose name does not occur are kept.            *)
KeptOthers(b) ==
  Selected(queue, {i \in DOMAIN queue : Name[queue[i].file] \notin FailedNames(b)})

(* The rows that stay in the queue: those whose name the answer reports as *)
(* failed.                                                                 *)
Kept(b) ==
  Selected(queue, {i \in DOMAIN queue : Name[queue[i].file] \in FailedNames(b)})

(* Mutant of Settle: the page stays busy when a file has failed.           *)
SettleUnlessFailed ==
  /\ uploading # 0 /\ Done(uploading) /\ FailedNames(uploading) = {}
  /\ queue' = <<>> /\ uploading' = 0
  /\ slipped' = slipped \cup Tag("late", FilesOf(queue) \ FilesOf(batch[uploading].rows))
  /\ UNCHANGED <<selected, server, chosen, removed, edits>>

(* The answer of the batch that the page waits for: what failed stays, and *)
(* may be sent again at once.  What was added in the meantime goes.        *)
Settle ==
  /\ uploading # 0 /\ Done(uploading)
  /\ queue' = Revalidated(Kept(uploading))
  /\ slipped' = slipped \cup Vouched(Kept(uploading), selected)
       \cup Tag("late", FilesOf(queue) \ FilesOf(batch[uploading].rows))
  /\ uploading' = 0
  /\ UNCHANGED <<selected, server, chosen, removed, edits>>

(* The request fails on its way, or on the way back; the server goes on    *)
(* with what it has.  Every row of the queue may be sent again.            *)
AnswerLost ==
  /\ uploading # 0
  /\ queue' = Revalidated(queue)
  /\ slipped' = slipped \cup Vouched(queue, selected)
                        \cup Tag("lost", FilesOf(batch[uploading].rows))
  /\ uploading' = 0
  /\ UNCHANGED <<selected, server, chosen, removed, edits>>

-----------------------------------------------------------------------------

EditQueue ==
  /\ edits < MaxEdit /\ edits' = edits + 1
  /\ \/ \E c \in Client : SelectClient(c)
     \/ \E i \in DOMAIN queue :
          \/ EditCompany(i) \/ QuickFix(i) \/ RemoveRow(i)
          \/ \E matches \in BOOLEAN : EditClient(i, matches)
     \/ AutoFixAll \/ Clear

ServeFile(b) ==
  \E i \in DOMAIN batch[b].rows : SaveFile(b, i) \/ RefuseFile(b, i)

Next ==
  \/ EditQueue
  \/ \E f \in File : AddFile(f)
  \/ Commit \/ Settle \/ AnswerLost
  \/ \E b \in DOMAIN batch : ServeFile(b)

(* The server works off what it has, and an answer comes or is missed.     *)
Fairness ==
  /\ \A b \in 1 .. MaxCommit : WF_vars(b \in DOMAIN batch /\ ServeFile(b))
  /\ WF_vars(Settle)

Spec == Init /\ [][Next]_vars /\ Fairness

-----------------------------------------------------------------------------

TypeOK ==
  /\ selected \in Client \cup {Nobody}
  /\ queue \in Seq(Row) /\ Len(queue) <= MaxQueue
  /\ uploading \in 0 .. Len(batch)
  /\ batch \in Seq(Batch)
  /\ \A b \in DOMAIN batch : Len(batch[b].results) = Len(batch[b].rows)
  /\ saved \in Seq(Saved)
  /\ chosen \subseteq File /\ removed \subseteq chosen
  /\ slipped \subseteq {"vouched", "full", "late", "lost"} \X chosen
  /\ edits \in 0 .. MaxEdit

Excused(f, kinds) == \E kind \in kinds : <<kind, f>> \in slipped

(* "Service Client Verified": a resume whose name tells another client is  *)
(* not saved for this one, unless the person said so.  The windows: a row  *)
(* is valid after any change of the selection and after any failed attempt;*)
(* the server does not look.                                               *)
ClientAsNamed ==
  \A i \in DOMAIN saved :
    Mismatch(Name[saved[i].file], saved[i].client) =>
      Excused(saved[i].file, {"vouched"})

(* "Verify parsed entities before saving to database": what is saved of a  *)
(* file is what its row showed, but for placeholders, whatever the other   *)
(* parsers and the model make of it.  The window: files with the same name *)
(* in one batch.                                                           *)
SavedAsShown ==
  \A i \in DOMAIN saved : \A f \in Field :
    saved[i].shown[f] # Placeholder =>
      \/ saved[i].stored[f] = saved[i].shown[f]
      \/ \E g \in chosen : Share(saved[i].file, g)

(* "All files stay in queue ready to retry": a file that was chosen stays  *)
(* in the queue until it is saved or the person removes it.  The windows:  *)
(* it did not fit; it was added while a batch was under way, whose answer  *)
(* empties the queue.                                                      *)
NothingLost ==
  \A f \in chosen :
    \/ RowIn(queue, f) \/ f \in removed \/ Stored(f) # {}
    \/ Excused(f, {"late", "full"})

(* A file is saved once.  The windows: the answer about it was lost, and   *)
(* the page sends it again; a file of the same name failed.                *)
SavedOnce ==
  \A f \in chosen :
    \/ Cardinality(Stored(f)) <= 1
    \/ Excused(f, {"lost"})
    \/ \E g \in chosen : Share(f, g)

(* What is saved under a client is what the person was shown of it.        *)
SavedAsTold == TypeOK /\ ClientAsNamed /\ SavedAsShown

(* Every chosen file is saved once or still there to be sent.              *)
FilesAccounted == NothingLost /\ SavedOnce

(* The page does not stay busy for ever.                                   *)
Released == uploading # 0 ~> uploading = 0

(* "Pre-Commit Duplicate Check: Identifies duplicates before storage       *)
(* commits" (README.md:45): of two resumes of a candidate for a company,   *)
(* for the same client, the second is not saved unless the person was told.*)
(* POST /resumes/check-duplicates tells it, but no page asks for it.       *)
Duplicates(c, described) ==
  {i \in DOMAIN saved :
     /\ saved[i].client = c
     /\ \A f \in {"candidate", "company"} :
          saved[i].stored[f] = described[f] /\ described[f] # Placeholder}

DuplicatesFound ==
  \A i \in DOMAIN saved : Duplicates(saved[i].client, saved[i].stored) \subseteq {i}

=============================================================================
