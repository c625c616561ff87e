--------------------------- MODULE UploadBatchProofs ---------------------------
(***************************************************************************)
(* Proofs about the upload page: SavedAsTold and FilesAccounted for any    *)
(* files, names and bounds.                                                *)
(***************************************************************************)
EXTENDS UploadBatch, FiniteSetTheorems, TLAPS

(* Nth numbers the positions that are kept: each has one number.           *)
LEMMA Numbering ==
  ASSUME NEW len \in Nat, NEW keep \in SUBSET (1 .. len)
  PROVE  /\ Cardinality(keep) \in Nat /\ Cardinality(keep) <= len
         /\ \A n \in 1 .. Cardinality(keep) :
              Nth(keep, n) \in keep /\ Cardinality({j \in keep : j <= Nth(keep, n)}) = n
         /\ \A n, m \in 1 .. Cardinality(keep) : Nth(keep, n) = Nth(keep, m) => n = m
         /\ \A i \in keep : \E n \in 1 .. Cardinality(keep) : Nth(keep, n) = i
<1> DEFINE Upto(i) == {j \in keep : j <= i}
           rank == [i \in keep |-> Cardinality(Upto(i))]
<1>0. keep \subseteq Nat
  OBVIOUS
<1>1. IsFiniteSet(1 .. len) /\ Cardinality(1 .. len) = len
  BY FS_Interval
<1>2. IsFiniteSet(keep) /\ Cardinality(keep) \in Nat /\ Cardinality(keep) <= len
  BY <1>1, FS_Subset, FS_CardinalityType
<1>3. \A i \in keep : /\ Upto(i) \in SUBSET keep /\ i \in Upto(i)
                      /\ IsFiniteSet(Upto(i)) /\ Cardinality(Upto(i)) \in 1 .. Cardinality(keep)
  <2> TAKE i \in keep
  <2>1. Upto(i) \in SUBSET keep /\ i \in Upto(i)
    OBVIOUS
  <2>2. IsFiniteSet(Upto(i)) /\ Cardinality(Upto(i)) <= Cardinality(keep)
    BY <1>2, <2>1, FS_Subset
  <2>3. Cardinality(Upto(i)) \in Nat /\ Cardinality(Upto(i)) # 0
    BY <2>1, <2>2, FS_CardinalityType, FS_EmptySet
  <2> QED BY <1>2, <2>1, <2>2, <2>3
<1>4. \A i, k \in keep : i < k => Cardinality(Upto(i)) < Cardinality(Upto(k))
  <2> SUFFICES ASSUME NEW i \in keep, NEW k \in keep, i < k
               PROVE  Cardinality(Upto(i)) < Cardinality(Upto(k))
    OBVIOUS
  <2>1. (\A j \in Upto(i) : j \in Upto(k)) /\ k \in Upto(k) /\ k \notin Upto(i)
    BY <1>0
  <2>2. Cardinality(Upto(i)) <= Cardinality(Upto(k)) /\ Cardinality(Upto(i)) # Cardinality(Upto(k))
    BY <1>3, <2>1, FS_Subset
  <2> QED BY <1>3, <2>2
<1>5. \A i, k \in keep : rank[i] = rank[k] => i = k
  BY <1>3, <1>4
<1>6. rank \in Injection(keep, 1 .. Cardinality(keep))
  BY <1>3, <1>5 DEF Injection, IsInjective
<1>7. rank \in Surjection(keep, 1 .. Cardinality(keep))
  <2>1. IsFiniteSet(1 .. Cardinality(keep)) /\ Cardinality(1 .. Cardinality(keep)) = Cardinality(keep)
    BY <1>2, FS_Interval
  <2> QED BY <1>6, <2>1, FS_Injection
<1>8. \A n \in 1 .. Cardinality(keep) : \E i \in keep : Cardinality(Upto(i)) = n
  BY <1>7 DEF Surjection
<1>9. \A n \in 1 .. Cardinality(keep) :
        Nth(keep, n) \in keep /\ Cardinality(Upto(Nth(keep, n))) = n
  BY <1>8 DEF Nth
<1>10. \A i \in keep : Nth(keep, rank[i]) = i
  <2> TAKE i \in keep
  <2>1. rank[i] \in 1 .. Cardinality(keep)
    BY <1>3
  <2>2. Nth(keep, rank[i]) \in keep /\ rank[Nth(keep, rank[i])] = rank[i]
    BY <1>9, <2>1
  <2> QED BY <1>5, <2>2
<1> QED
  BY <1>2, <1>3, <1>9, <1>10


(* A selection holds the elements that were kept, each once.               *)
LEMMA SelectedElements ==
  ASSUME NEW S, NEW seq \in Seq(S), NEW keep \in SUBSET DOMAIN seq
  PROVE  LET chose == Selected(seq, keep) IN
         /\ chose \in Seq(S) /\ Len(chose) <= Len(seq)
         /\ \A n \in DOMAIN chose : Nth(keep, n) \in keep /\ chose[n] = seq[Nth(keep, n)]
         /\ \A n, m \in DOMAIN chose : Nth(keep, n) = Nth(keep, m) => n = m
         /\ \A i \in keep : \E n \in DOMAIN chose : chose[n] = seq[i]
<1> DEFINE chose == Selected(seq, keep)
<1>1. Len(seq) \in Nat /\ DOMAIN seq = 1 .. Len(seq)
  OBVIOUS
<1>2. /\ Cardinality(keep) \in Nat /\ Cardinality(keep) <= Len(seq)
      /\ \A n \in 1 .. Cardinality(keep) : Nth(keep, n) \in keep
      /\ \A n, m \in 1 .. Cardinality(keep) : Nth(keep, n) = Nth(keep, m) => n = m
      /\ \A i \in keep : \E n \in 1 .. Cardinality(keep) : Nth(keep, n) = i
  BY <1>1, Numbering
<1>3. /\ DOMAIN chose = 1 .. Cardinality(keep)
      /\ \A n \in 1 .. Cardinality(keep) : chose[n] = seq[Nth(keep, n)]
  BY DEF Selected
<1>4. chose \in [1 .. Cardinality(keep) -> S]
  <2>1. \A n \in 1 .. Cardinality(keep) : seq[Nth(keep, n)] \in S
    BY <1>2
  <2> QED BY <2>1 DEF Selected
<1>5. chose \in Seq(S) /\ Len(chose) = Cardinality(keep)
  BY <1>2, <1>4
<1> HIDE DEF chose
<1>6. /\ chose \in Seq(S) /\ Len(chose) <= Len(seq)
      /\ \A n \in DOMAIN chose : Nth(keep, n) \in keep /\ chose[n] = seq[Nth(keep, n)]
      /\ \A n, m \in DOMAIN chose : Nth(keep, n) = Nth(keep, m) => n = m
      /\ \A i \in keep : \E n \in DOMAIN chose : chose[n] = seq[i]
  BY <1>2, <1>3, <1>5
<1> QED
  BY <1>6 DEF chose

-----------------------------------------------------------------------------
(* The parsers.                                                            *)

LEMMA CleanedWords ==
  ASSUME NEW words \in Seq(Word)
  PROVE  Cleaned(words) \in Seq(Word)
BY SelectedElements DEF Cleaned

LEMMA FirstWord ==
  ASSUME NEW words \in Seq(Word)
  PROVE  First(words) \in Seq(Word)
<1>1. CASE words = <<>>
  BY <1>1 DEF First, Placeholder
<1>2. CASE words # <<>>
  <2>1. words[1] \in Word
    BY <1>2
  <2> QED BY <1>2, <2>1 DEF First
<1> QED BY <1>1, <1>2

(* A description by three sequences of words is one of each field.         *)
LEMMA Describes ==
  ASSUME NEW a \in Seq(Word), NEW b \in Seq(Word), NEW c \in Seq(Word)
  PROVE  [candidate |-> a, company |-> b, role |-> c] \in [Field -> Seq(Word)]
BY DEF Field

LEMMA PageParseType ==
  ASSUME NEW stem \in Seq(Word)
  PROVE  PageParse(stem) \in [Field -> Seq(Word)]
<1> DEFINE last == Len(stem)
<1>1. Cleaned(stem) \in Seq(Word) /\ First(stem) \in Seq(Word) /\ Cleaned(First(stem)) \in Seq(Word)
      /\ Placeholder \in Seq(Word)
  BY CleanedWords, FirstWord DEF Placeholder
<1>2. CASE Natural(stem)
  BY <1>1, <1>2, Describes DEF PageParse
<1>3. CASE ~Natural(stem) /\ last < 3
  <2>1. (IF last = 2 THEN <<stem[2]>> ELSE Placeholder) \in Seq(Word)
    BY <1>1
  <2> QED BY <1>1, <1>3, <2>1, Describes DEF PageParse
<1>4. CASE ~Natural(stem) /\ ~(last < 3)
  <2>1. last \in Nat /\ stem[last] \in Word /\ stem[2] \in Word
    BY <1>4
  <2>2. <<stem[last]>> \in Seq(Word) /\ <<stem[2]>> \in Seq(Word)
    BY <2>1
  <2>3. Cleaned(<<stem[last]>>) \in Seq(Word)
    BY <2>2, CleanedWords
  <2>4. SubSeq(stem, 3, IF last = 3 THEN 3 ELSE last - 1) \in Seq(Word)
    BY <1>4, <2>1
  <2> QED BY <1>4, <2>2, <2>3, <2>4, Describes DEF PageParse
<1> QED BY <1>2, <1>3, <1>4

LEMMA ServerParseType ==
  ASSUME NEW stem \in Seq(Word)
  PROVE  ServerParse(stem) \in [Field -> Seq(Word)]
<1> DEFINE words == Stripped(stem)
           count == Len(words)
<1>1. words \in Seq(Word)
  BY SelectedElements DEF Stripped
<1> HIDE DEF words
<1>2. /\ (IF count = 1 /\ words[1] \in Noise THEN Placeholder ELSE Cleaned(First(words))) \in Seq(Word)
      /\ (IF count >= 2 THEN <<words[2]>> ELSE Placeholder) \in Seq(Word)
  BY <1>1, CleanedWords, FirstWord DEF Placeholder
<1>3. (IF count >= 3 THEN WithoutNoise(SubSeq(words, 3, count)) ELSE Placeholder) \in Seq(Word)
  <2>1. CASE count >= 3
    <3>1. SubSeq(words, 3, count) \in Seq(Word)
      BY <1>1, <2>1
    <3>2. \A list \in Seq(Word) : WithoutNoise(list) \in Seq(Word)
      BY SelectedElements DEF WithoutNoise
    <3> QED BY <2>1, <3>1, <3>2
  <2>2. CASE ~(count >= 3)
    BY <2>2 DEF Placeholder
  <2> QED BY <2>1, <2>2
<1> QED
  BY <1>2, <1>3, Describes DEF ServerParse, words

LEMMA MergedType ==
  ASSUME NEW shown \in Described, NEW extracted \in Described, NEW stem \in Seq(Word)
  PROVE  Merged(shown, extracted, stem) \in Described
<1>1. ServerParse(stem) \in Described
  <2>1. \A w \in Seq(Word) : w \in Seq(Word \cup {"typed", "extracted"})
    OBVIOUS
  <2> QED BY <2>1, ServerParseType DEF Described
<1> QED BY <1>1 DEF Merged, Prefer, Described

(* The parts of a row.                                                     *)
LEMMA RowParts ==
  ASSUME NEW list \in Seq(Row), NEW i \in DOMAIN list
  PROVE  /\ list[i] \in Row /\ list[i].file \in File /\ list[i].valid \in BOOLEAN
         /\ list[i].shown \in Described
<1>1. list[i] \in Row
  OBVIOUS
<1> QED BY <1>1 DEF Row

(* The row whose description is sent for row i exists, and it is row i     *)
(* itself when no other has the name.                                      *)
LEMMA ShownForRow ==
  ASSUME NEW list \in Seq(Row), NEW i \in DOMAIN list
  PROVE  /\ ShownFor(list, i) \in Described
         /\ (\A j \in DOMAIN list : Name[list[j].file] = Name[list[i].file] => j = i)
              => ShownFor(list, i) = list[i].shown
<1> DEFINE same == {j \in DOMAIN list : Name[list[j].file] = Name[list[i].file]}
           last == CHOOSE j \in same : \A k \in same : k <= j
<1>1. same \in SUBSET (1 .. Len(list)) /\ i \in same /\ Len(list) \in Nat
  OBVIOUS
<1>2. \E j \in same : \A k \in same : k <= j
  <2> DEFINE size == Cardinality(same)
  <2> HIDE DEF same
  <2>1. IsFiniteSet(1 .. Len(list))
    BY <1>1, FS_Interval
  <2>2. IsFiniteSet(same)
    BY <1>1, <2>1, FS_Subset
  <2>3. size \in Nat /\ size # 0
    BY <1>1, <2>2, FS_CardinalityType, FS_EmptySet
  <2>4. Nth(same, size) \in same /\ Cardinality({k \in same : k <= Nth(same, size)}) = size
    <3>1. \A n \in 1 .. Cardinality(same) :
            Nth(same, n) \in same /\ Cardinality({k \in same : k <= Nth(same, n)}) = n
      BY <1>1, Numbering
    <3>2. size \in 1 .. Cardinality(same)
      BY <2>3
    <3> QED BY <3>1, <3>2
  <2>5. {k \in same : k <= Nth(same, size)} = same
    BY <2>2, <2>4, FS_Subset
  <2> QED BY <2>4, <2>5
<1>3. last \in same
  BY <1>2
<1>4. ShownFor(list, i) = list[last].shown
  BY DEF ShownFor
<1>5. \A j \in DOMAIN list : list[j].shown \in Described
  BY RowParts
<1> QED
  BY <1>3, <1>4, <1>5


-----------------------------------------------------------------------------
(* The invariant.                                                          *)

(* The rows of a queue or a batch are of chosen files, each file once.     *)
Distinct(list) ==
  /\ \A i \in DOMAIN list : list[i].file \in chosen
  /\ \A i, j \in DOMAIN list : list[i].file = list[j].file => i = j

Rows ==
  /\ Distinct(queue) /\ \A b \in DOMAIN batch : Distinct(batch[b].rows)
  /\ \A i \in DOMAIN saved : saved[i].file \in chosen

(* Who is valid, or sent, under a client that its name contradicts was     *)
(* vouched for.                                                            *)
QueueVouched ==
  \A i \in DOMAIN queue :
    queue[i].valid /\ Mismatch(Name[queue[i].file], selected) => <<"vouched", queue[i].file>> \in slipped

BatchesVouched ==
  \A b \in DOMAIN batch : \A i \in DOMAIN batch[b].rows :
    Mismatch(Name[batch[b].rows[i].file], batch[b].client)
      => <<"vouched", batch[b].rows[i].file>> \in slipped

Vouching == QueueVouched /\ BatchesVouched

(* What a batch counts as saved is saved.                                  *)
Told ==
  \A b \in DOMAIN batch : \A i \in DOMAIN batch[b].rows :
    batch[b].results[i] = "saved" => Stored(batch[b].rows[i].file) # {}

(* The windows of SavedOnce.                                               *)
Window(f) == Excused(f, {"lost"}) \/ \E g \in chosen : Share(f, g)

Errors(b, f) ==
  \A i \in DOMAIN batch[b].rows : batch[b].rows[i].file = f => batch[b].results[i] = "error"

(* A file is sent again only when every batch that had it failed on it.    *)
Once(f) ==
  /\ \A b, c \in DOMAIN batch : Errors(b, f) \/ Errors(c, f) \/ b = c
  /\ RowIn(queue, f) => \A b \in DOMAIN batch : b # uploading => Errors(b, f)
  /\ \A k, l \in Stored(f) : k = l
  /\ Stored(f) # {} =>
       \E b \in DOMAIN batch : \E i \in DOMAIN batch[b].rows :
         batch[b].rows[i].file = f /\ batch[b].results[i] = "saved"

OnceEach == \A f \in chosen : Window(f) \/ Once(f)

IInv == TypeOK /\ Rows /\ Vouching /\ ClientAsNamed /\ SavedAsShown /\ Told /\ NothingLost /\ OnceEach

LEMMA Initially == Init => IInv
<1> SUFFICES ASSUME Init PROVE IInv
  OBVIOUS
<1>1. TypeOK
  BY QueueAssumption DEF Init, TypeOK
<1>2. Rows /\ Vouching /\ ClientAsNamed /\ SavedAsShown /\ Told /\ NothingLost /\ OnceEach
  BY DEF Init, Rows, Distinct, Vouching, QueueVouched, BatchesVouched, ClientAsNamed,
         SavedAsShown, Told, NothingLost, OnceEach
<1> QED BY <1>1, <1>2 DEF IInv

(* A step that leaves the server alone: what it has to show of the queue.  *)
LEMMA PageStep ==
  ASSUME IInv, TypeOK', UNCHANGED server, Distinct(queue)',
         chosen \subseteq chosen', slipped \subseteq slipped', removed \subseteq removed',
         QueueVouched',
         \A f \in chosen : RowIn(queue, f) =>
           \/ RowIn(queue, f)' \/ f \in removed' \/ Stored(f) # {}
           \/ Excused(f, {"late", "full"})',
         \A f \in chosen' \ chosen : RowIn(queue, f)' \/ Excused(f, {"late", "full"})',
         \A f \in chosen : RowIn(queue, f)' /\ ~Window(f)' =>
           /\ RowIn(queue, f)
           /\ uploading' = uploading \/ (uploading' = 0 /\ (uploading = 0 \/ Errors(uploading, f)))
  PROVE  IInv'
<1>1. batch' = batch /\ saved' = saved
  BY DEF server
<1>2. \A f, kinds : Excused(f, kinds) => Excused(f, kinds)'
  BY DEF Excused
<1>3. \A f : Stored(f)' = Stored(f) /\ \A b : Errors(b, f)' = Errors(b, f)
  BY <1>1 DEF Stored, Errors
<1>4. \A f : Window(f) => Window(f)'
  BY <1>2 DEF Window
<1>5. Rows'
  <2>1. \A b \in DOMAIN batch : Distinct(batch[b].rows)'
    BY <1>1 DEF IInv, Rows, Distinct
  <2> QED BY <1>1, <2>1 DEF IInv, Rows
<1>6. Vouching' /\ ClientAsNamed'
  <2>1. BatchesVouched'
    BY <1>1 DEF IInv, Vouching, BatchesVouched
  <2>2. ClientAsNamed'
    BY <1>1 DEF IInv, ClientAsNamed, Excused
  <2> QED BY <2>1, <2>2 DEF Vouching
<1>7. SavedAsShown'
  BY <1>1 DEF IInv, SavedAsShown
<1>8. Told'
  BY <1>1, <1>3 DEF IInv, Told
<1>9. NothingLost'
  <2> SUFFICES ASSUME NEW f \in chosen'
               PROVE  RowIn(queue, f)' \/ f \in removed' \/ Stored(f)' # {} \/ Excused(f, {"late", "full"})'
    BY DEF NothingLost
  <2>1. CASE f \in chosen
    BY <1>2, <1>3, <2>1 DEF IInv, NothingLost
  <2>2. CASE f \notin chosen
    BY <2>2
  <2> QED BY <2>1, <2>2
<1>10. OnceEach'
  <2> SUFFICES ASSUME NEW f \in chosen', ~Window(f)'
               PROVE  Once(f)'
    BY DEF OnceEach
  <2>1. CASE f \in chosen
    <3>1. Once(f)
      BY <1>4, <2>1 DEF IInv, OnceEach
    <3>2. RowIn(queue, f)' => \A b \in DOMAIN batch : b # uploading' => Errors(b, f)
      <4>1. uploading \in 0 .. Len(batch) /\ batch \in Seq(Batch)
        BY DEF IInv, TypeOK
      <4> QED BY <2>1, <3>1, <4>1 DEF Once
    <3> QED BY <1>1, <1>3, <3>1, <3>2 DEF Once
  <2>2. CASE f \notin chosen
    <3>1. Stored(f) = {}
      BY <2>2 DEF IInv, Rows, Stored
    <3>2. \A b \in DOMAIN batch : Errors(b, f)
      BY <2>2 DEF IInv, Rows, Distinct, Errors
    <3> QED BY <1>1, <1>3, <3>1, <3>2 DEF Once
  <2> QED BY <2>1, <2>2
<1> QED
  BY <1>5, <1>6, <1>7, <1>8, <1>9, <1>10 DEF IInv


(* The parts of a batch.                                                   *)
LEMMA BatchParts ==
  ASSUME IInv, NEW b \in DOMAIN batch
  PROVE  /\ batch[b] \in Batch /\ batch[b].client \in Client
         /\ batch[b].rows \in Seq(Row) /\ batch[b].results \in Seq(Result)
         /\ DOMAIN batch[b].results = DOMAIN batch[b].rows
         /\ Distinct(batch[b].rows)
<1>1. batch \in Seq(Batch) /\ Len(batch[b].results) = Len(batch[b].rows) /\ Distinct(batch[b].rows)
  BY DEF IInv, TypeOK, Rows
<1>2. batch[b] \in Batch
  BY <1>1
<1>3. batch[b].client \in Client /\ batch[b].rows \in Seq(Row) /\ batch[b].results \in Seq(Result)
  BY <1>2 DEF Batch
<1> QED BY <1>1, <1>2, <1>3

-----------------------------------------------------------------------------
(* The steps of the page.                                                  *)

(* Marking rows as valid changes neither their files nor their order.      *)
LEMMA RevalidatedRows ==
  ASSUME NEW list \in Seq(Row)
  PROVE  /\ Revalidated(list) \in Seq(Row) /\ Len(Revalidated(list)) = Len(list)
         /\ DOMAIN Revalidated(list) = DOMAIN list
         /\ \A i \in DOMAIN list : Revalidated(list)[i].file = list[i].file
<1>1. \A i \in DOMAIN list :
        [list[i] EXCEPT !.valid = TRUE] \in Row /\ [list[i] EXCEPT !.valid = TRUE].file = list[i].file
  <2> TAKE i \in DOMAIN list
  <2>1. list[i] \in Row
    OBVIOUS
  <2> QED BY <2>1 DEF Row
<1>2. DOMAIN list = 1 .. Len(list) /\ Len(list) \in Nat
  OBVIOUS
<1>3. Revalidated(list) \in [1 .. Len(list) -> Row]
  BY <1>1, <1>2 DEF Revalidated
<1>4. Revalidated(list) \in Seq(Row) /\ Len(Revalidated(list)) = Len(list)
  BY <1>2, <1>3
<1> QED BY <1>1, <1>2, <1>4 DEF Revalidated

(* The marks of the windows are on chosen files, and excuse them.          *)
LEMMA Marks ==
  /\ \A kind, files, f : f \in files => <<kind, f>> \in Tag(kind, files)
  /\ \A kind \in {"vouched", "full", "late", "lost"} : \A files :
       files \subseteq chosen => Tag(kind, files) \subseteq {"vouched", "full", "late", "lost"} \X chosen
BY DEF Tag

LEMMA QueueFiles ==
  ASSUME IInv
  PROVE  /\ queue \in Seq(Row) /\ FilesOf(queue) \subseteq chosen
         /\ \A f : f \in FilesOf(queue) <=> RowIn(queue, f)
BY DEF IInv, TypeOK, Rows, Distinct, FilesOf, RowIn

(* A step after which the queue has the rows of before, valid ones among   *)
(* them being vouched for.                                                 *)
LEMMA SameRows ==
  ASSUME IInv, TypeOK', UNCHANGED <<server, chosen, removed>>, slipped \subseteq slipped',
         DOMAIN queue' = DOMAIN queue,
         \A i \in DOMAIN queue : queue'[i].file = queue[i].file,
         \A i \in DOMAIN queue :
           queue'[i].valid /\ Mismatch(Name[queue[i].file], selected')
             => <<"vouched", queue[i].file>> \in slipped',
         \A f \in chosen : ~Window(f)' =>
           uploading' = uploading \/ (uploading' = 0 /\ (uploading = 0 \/ Errors(uploading, f)))
  PROVE  IInv'
<1>1. \A f : RowIn(queue, f)' <=> RowIn(queue, f)
  BY DEF RowIn
<1>2. Distinct(queue)'
  BY DEF IInv, Rows, Distinct
<1>3. QueueVouched'
  BY DEF QueueVouched
<1> QED BY <1>1, <1>2, <1>3, PageStep

LEMMA SelectClientStep ==
  ASSUME IInv, NEW c \in Client, SelectClient(c), edits' \in 0 .. MaxEdit
  PROVE  IInv'
<1> USE DEF SelectClient
<1>1. TypeOK'
  <2>1. Vouched(queue, c) \subseteq {"vouched", "full", "late", "lost"} \X chosen
    BY QueueFiles, Marks DEF Vouched
  <2> QED BY <2>1, RevalidatedRows DEF IInv, TypeOK, server
<1>2. \A i \in DOMAIN queue : Mismatch(Name[queue[i].file], c) => <<"vouched", queue[i].file>> \in slipped'
  BY Marks DEF Vouched, FilesOf
<1>3. DOMAIN queue' = DOMAIN queue /\ \A i \in DOMAIN queue : queue'[i].file = queue[i].file
  BY RevalidatedRows DEF IInv, TypeOK
<1> QED BY <1>1, <1>2, <1>3, SameRows

LEMMA EditCompanyStep ==
  ASSUME IInv, NEW i \in DOMAIN queue, EditCompany(i), edits' \in 0 .. MaxEdit
  PROVE  IInv'
<1> USE DEF EditCompany
<1>1. TypeOK'
  <2>1. queue' \in Seq(Row) /\ Len(queue') = Len(queue)
    <3>1. queue[i] \in Row
      BY DEF IInv, TypeOK
    <3>2. <<"typed">> \in Seq(Word \cup {"typed", "extracted"})
      OBVIOUS
    <3>3. [queue[i].shown EXCEPT !.company = <<"typed">>] \in Described
      BY <3>1, <3>2 DEF Row, Described
    <3>4. [queue[i] EXCEPT !.shown = [queue[i].shown EXCEPT !.company = <<"typed">>]] \in Row
      BY <3>1, <3>3 DEF Row
    <3> QED BY <3>4 DEF IInv, TypeOK
  <2> QED BY <2>1 DEF IInv, TypeOK, server
<1>2. DOMAIN queue' = DOMAIN queue
      /\ \A j \in DOMAIN queue : queue'[j].file = queue[j].file /\ queue'[j].valid = queue[j].valid
  <2>1. queue \in Seq(Row)
    BY DEF IInv, TypeOK
  <2> QED BY <2>1 DEF Row
<1>3. \A j \in DOMAIN queue :
        queue'[j].valid /\ Mismatch(Name[queue[j].file], selected) => <<"vouched", queue[j].file>> \in slipped'
  BY <1>2 DEF IInv, Vouching, QueueVouched
<1> QED BY <1>1, <1>2, <1>3, SameRows

LEMMA EditClientStep ==
  ASSUME IInv, NEW i \in DOMAIN queue, NEW matches \in BOOLEAN, EditClient(i, matches),
         edits' \in 0 .. MaxEdit
  PROVE  IInv'
<1> USE DEF EditClient
<1>1. queue \in Seq(Row) /\ queue[i] \in Row
  BY DEF IInv, TypeOK
<1>2. Vouched(<<queue[i]>>, selected) =
        IF Mismatch(Name[queue[i].file], selected) THEN {<<"vouched", queue[i].file>>} ELSE {}
  BY DEF Vouched, FilesOf, Tag
<1>3. TypeOK'
  <2>1. queue' \in Seq(Row) /\ Len(queue') = Len(queue)
    BY <1>1 DEF Row
  <2>2. slipped' \subseteq {"vouched", "full", "late", "lost"} \X chosen
    <3>1. queue[i].file \in chosen /\ slipped \subseteq {"vouched", "full", "late", "lost"} \X chosen
      BY DEF IInv, TypeOK, Rows, Distinct
    <3>2. slipped' \subseteq slipped \cup {<<"vouched", queue[i].file>>}
      BY <1>2
    <3> QED BY <3>1, <3>2
  <2> QED BY <2>1, <2>2 DEF IInv, TypeOK, server
<1>4. /\ DOMAIN queue' = DOMAIN queue
      /\ \A j \in DOMAIN queue : queue'[j].file = queue[j].file
                                 /\ queue'[j].valid = IF j = i THEN matches ELSE queue[j].valid
  BY <1>1 DEF Row
<1>5. \A j \in DOMAIN queue :
        queue'[j].valid /\ Mismatch(Name[queue[j].file], selected) => <<"vouched", queue[j].file>> \in slipped'
  BY <1>2, <1>4 DEF IInv, Vouching, QueueVouched
<1> QED BY <1>3, <1>4, <1>5, SameRows

LEMMA AutoFixAllStep ==
  ASSUME IInv, AutoFixAll, edits' \in 0 .. MaxEdit
  PROVE  IInv'
<1> USE DEF AutoFixAll
<1>1. TypeOK'
  <2>1. Vouched(queue, selected) \subseteq {"vouched", "full", "late", "lost"} \X chosen
    BY QueueFiles, Marks DEF Vouched
  <2> QED BY <2>1, RevalidatedRows DEF IInv, TypeOK, server
<1>2. \A i \in DOMAIN queue : Mismatch(Name[queue[i].file], selected) => <<"vouched", queue[i].file>> \in slipped'
  BY Marks DEF Vouched, FilesOf
<1>3. DOMAIN queue' = DOMAIN queue /\ \A i \in DOMAIN queue : queue'[i].file = queue[i].file
  BY RevalidatedRows DEF IInv, TypeOK
<1> QED BY <1>1, <1>2, <1>3, SameRows

(* A request that fails: every file of the batch may be sent once more.    *)
LEMMA AnswerLostStep ==
  ASSUME IInv, AnswerLost
  PROVE  IInv'
<1> USE DEF AnswerLost
<1>1. uploading \in DOMAIN batch /\ batch \in Seq(Batch) /\ Distinct(batch[uploading].rows)
  BY DEF IInv, TypeOK, Rows
<1>2. TypeOK'
  <2>1. Vouched(queue, selected) \subseteq {"vouched", "full", "late", "lost"} \X chosen
    BY QueueFiles, Marks DEF Vouched
  <2>2. Tag("lost", FilesOf(batch[uploading].rows)) \subseteq {"vouched", "full", "late", "lost"} \X chosen
    BY <1>1, Marks DEF Distinct, FilesOf
  <2> QED BY <2>1, <2>2, RevalidatedRows DEF IInv, TypeOK, server
<1>3. \A i \in DOMAIN queue : Mismatch(Name[queue[i].file], selected) => <<"vouched", queue[i].file>> \in slipped'
  BY Marks DEF Vouched, FilesOf
<1>4. DOMAIN queue' = DOMAIN queue /\ \A i \in DOMAIN queue : queue'[i].file = queue[i].file
  BY RevalidatedRows DEF IInv, TypeOK
<1>5. \A f : ~Window(f)' => Errors(uploading, f)
  BY Marks DEF Window, Excused, Errors, FilesOf
<1> QED BY <1>2, <1>3, <1>4, <1>5, SameRows


(* A selection of the rows: its files are among those of before, each once *)
LEMMA SelectedRows ==
  ASSUME IInv, NEW keep \in SUBSET DOMAIN queue
  PROVE  LET list == Selected(queue, keep) IN
         /\ list \in Seq(Row) /\ Len(list) <= MaxQueue
         /\ Distinct(list)
         /\ \A n \in DOMAIN list : \E i \in keep : list[n] = queue[i]
         /\ \A i \in keep : RowIn(list, queue[i].file)
<1> DEFINE list == Selected(queue, keep)
<1>1. queue \in Seq(Row) /\ Len(queue) <= MaxQueue /\ MaxQueue \in Nat /\ Distinct(queue)
  BY QueueAssumption DEF IInv, TypeOK, Rows
<1>2. /\ list \in Seq(Row) /\ Len(list) <= Len(queue)
      /\ \A n \in DOMAIN list : Nth(keep, n) \in keep /\ list[n] = queue[Nth(keep, n)]
      /\ \A n, m \in DOMAIN list : Nth(keep, n) = Nth(keep, m) => n = m
      /\ \A i \in keep : \E n \in DOMAIN list : list[n] = queue[i]
  BY <1>1, SelectedElements
<1> HIDE DEF list
<1>3. Distinct(list)
  BY <1>1, <1>2 DEF Distinct
<1>4. Len(list) <= MaxQueue
  BY <1>1, <1>2
<1>5. \A i \in keep : RowIn(list, queue[i].file)
  BY <1>2 DEF RowIn
<1> QED BY <1>2, <1>3, <1>4, <1>5 DEF list

LEMMA RemoveRowStep ==
  ASSUME IInv, NEW i \in DOMAIN queue, RemoveRow(i), edits' \in 0 .. MaxEdit
  PROVE  IInv'
<1> USE DEF RemoveRow
<1> DEFINE keep == DOMAIN queue \ {i}
<1>1. /\ queue' \in Seq(Row) /\ Len(queue') <= MaxQueue /\ Distinct(queue')
      /\ \A n \in DOMAIN queue' : \E k \in keep : queue'[n] = queue[k]
      /\ \A k \in keep : RowIn(queue', queue[k].file)
  BY SelectedRows
<1>2. Distinct(queue)'
  BY <1>1 DEF Distinct
<1>3. queue[i].file \in chosen
  BY DEF IInv, Rows, Distinct
<1>4. TypeOK'
  BY <1>1, <1>3 DEF IInv, TypeOK, server
<1>5. QueueVouched'
  BY <1>1 DEF IInv, Vouching, QueueVouched
<1>6. \A f : RowIn(queue, f) => RowIn(queue, f)' \/ f \in removed'
  BY <1>1 DEF RowIn
<1>7. \A f : RowIn(queue, f)' => RowIn(queue, f)
  BY <1>1 DEF RowIn
<1> QED BY <1>2, <1>4, <1>5, <1>6, <1>7, PageStep

LEMMA ClearStep ==
  ASSUME IInv, Clear, edits' \in 0 .. MaxEdit
  PROVE  IInv'
<1> USE DEF Clear
<1>1. TypeOK'
  BY QueueFiles, QueueAssumption DEF IInv, TypeOK, server
<1>2. Distinct(queue)' /\ \A f : ~RowIn(queue, f)'
  BY DEF Distinct, RowIn
<1>3. \A f : RowIn(queue, f) => f \in removed'
  BY QueueFiles
<1>4. QueueVouched'
  BY DEF QueueVouched
<1> QED BY <1>1, <1>2, <1>3, <1>4, PageStep

LEMMA AddFileStep ==
  ASSUME IInv, NEW f \in File, AddFile(f)
  PROVE  IInv'
<1> DEFINE row == [file |-> f, valid |-> Valid(Name[f], selected), shown |-> PageParse(Name[f])]
<1>0. /\ f \notin chosen /\ chosen' = chosen \cup {f} /\ removed' = removed /\ uploading' = uploading
      /\ selected' = selected /\ edits' = edits /\ UNCHANGED server
  BY DEF AddFile
<1>1. CASE Len(queue) < MaxQueue
  <2>1. queue' = Append(queue, row) /\ slipped' = slipped
    BY <1>1 DEF AddFile
  <2>2. row \in Row
    <3>1. Name[f] \in Seq(Word)
      BY FileAssumption
    <3>2. Valid(Name[f], selected) \in BOOLEAN
      BY DEF Valid, Natural, Mismatch
    <3>3. \A w \in Seq(Word) : w \in Seq(Word \cup {"typed", "extracted"})
      OBVIOUS
    <3>4. PageParse(Name[f]) \in Described
      BY <3>1, <3>3, PageParseType DEF Described
    <3> QED BY <3>2, <3>4 DEF Row
  <2>3. queue \in Seq(Row) /\ Len(queue) \in Nat /\ Distinct(queue)
    BY DEF IInv, TypeOK, Rows
  <2>4. /\ DOMAIN queue' = 1 .. (Len(queue) + 1) /\ queue' \in Seq(Row) /\ Len(queue') = Len(queue) + 1
        /\ \A i \in 1 .. Len(queue) : queue'[i] = queue[i]
        /\ queue'[Len(queue) + 1] = row
    BY <2>1, <2>2, <2>3
  <2>5. TypeOK'
    <3>1. Len(queue') <= MaxQueue
      BY <1>1, <2>3, <2>4, QueueAssumption
    <3>2. /\ queue' \in Seq(Row) /\ chosen' \subseteq File /\ removed' \subseteq chosen'
          /\ slipped' \subseteq {"vouched", "full", "late", "lost"} \X chosen'
      BY <1>0, <2>1, <2>4 DEF IInv, TypeOK
    <3> QED BY <1>0, <3>1, <3>2 DEF IInv, TypeOK, server
  <2>6. Distinct(queue)'
    BY <1>0, <2>3, <2>4 DEF Distinct
  <2>7. QueueVouched'
    <3>1. ~(Valid(Name[f], selected) /\ Mismatch(Name[f], selected))
      BY DEF Valid, Mismatch
    <3>2. \A i \in 1 .. Len(queue) :
            queue[i].valid /\ Mismatch(Name[queue[i].file], selected)
              => <<"vouched", queue[i].file>> \in slipped'
      BY <2>1, <2>3 DEF IInv, Vouching, QueueVouched
    <3> QED BY <1>0, <2>3, <2>4, <3>1, <3>2 DEF QueueVouched
  <2>8. \A g : RowIn(queue, g)' <=> RowIn(queue, g) \/ g = f
    BY <2>3, <2>4 DEF RowIn
  <2> QED BY <1>0, <2>1, <2>5, <2>6, <2>7, <2>8, PageStep
<1>2. CASE ~(Len(queue) < MaxQueue)
  <2>1. queue' = queue /\ slipped' = slipped \cup Tag("full", {f})
    BY <1>2 DEF AddFile
  <2>2. TypeOK'
    <3>1. /\ chosen' \subseteq File /\ removed' \subseteq chosen'
          /\ slipped' \subseteq {"vouched", "full", "late", "lost"} \X chosen'
      BY <1>0, <2>1 DEF IInv, TypeOK, Tag
    <3> QED BY <1>0, <2>1, <3>1 DEF IInv, TypeOK, server
  <2>3. Distinct(queue)'
    BY <1>0, <2>1 DEF IInv, Rows, Distinct
  <2>4. QueueVouched'
    BY <1>0, <2>1 DEF IInv, Vouching, QueueVouched
  <2>5. Excused(f, {"late", "full"})'
    BY <2>1, Marks DEF Excused
  <2>6. \A g : RowIn(queue, g)' <=> RowIn(queue, g)
    BY <2>1 DEF RowIn
  <2> QED BY <1>0, <2>1, <2>2, <2>3, <2>4, <2>5, <2>6, PageStep
<1> QED BY <1>1, <1>2

(* The answer: what stays has failed, or shares its name with what failed. *)
LEMMA SettleStep ==
  ASSUME IInv, Settle
  PROVE  IInv'
<1> USE DEF Settle
<1> DEFINE b == uploading
           sent == batch[b].rows
           keep == {i \in DOMAIN queue : Name[queue[i].file] \in FailedNames(b)}
<1>1. /\ b \in DOMAIN batch /\ batch \in Seq(Batch) /\ batch[b] \in Batch /\ Distinct(sent)
      /\ DOMAIN batch[b].results = DOMAIN sent
  <2>1. b \in DOMAIN batch /\ batch \in Seq(Batch)
    BY DEF IInv, TypeOK
  <2> QED BY <2>1, BatchParts
<1>2. LET list == Kept(b) IN
      /\ list \in Seq(Row) /\ Len(list) <= MaxQueue
      /\ Distinct(list)
      /\ \A n \in DOMAIN list : \E i \in keep : list[n] = queue[i]
      /\ \A i \in keep : RowIn(list, queue[i].file)
  BY SelectedRows DEF Kept
<1>3. /\ queue' \in Seq(Row) /\ Len(queue') <= MaxQueue
      /\ DOMAIN queue' = DOMAIN Kept(b)
      /\ \A n \in DOMAIN queue' : queue'[n].file = Kept(b)[n].file
  BY <1>2, RevalidatedRows
<1>4. Distinct(queue)'
  BY <1>2, <1>3 DEF Distinct
<1>5. FilesOf(Kept(b)) \subseteq chosen
  BY <1>2 DEF Distinct, FilesOf
<1>6. TypeOK'
  <2>1. Vouched(Kept(b), selected) \subseteq {"vouched", "full", "late", "lost"} \X chosen
    BY <1>5, Marks DEF Vouched
  <2>2. Tag("late", FilesOf(queue) \ FilesOf(sent)) \subseteq {"vouched", "full", "late", "lost"} \X chosen
    BY QueueFiles, Marks
  <2>3. slipped' \subseteq {"vouched", "full", "late", "lost"} \X chosen
    BY <2>1, <2>2 DEF IInv, TypeOK
  <2>4. /\ UNCHANGED <<selected, batch, saved, chosen, removed, edits>> /\ uploading' = 0
        /\ Len(batch) \in Nat
    BY DEF server, IInv, TypeOK
  <2>5. queue' \in Seq(Row) /\ Len(queue') <= MaxQueue
    BY <1>3
  <2> HIDE DEF Settle
  <2> QED BY <2>3, <2>4, <2>5 DEF IInv, TypeOK
<1>7. QueueVouched'
  <2>1. \A n \in DOMAIN Kept(b) :
          Mismatch(Name[Kept(b)[n].file], selected) => <<"vouched", Kept(b)[n].file>> \in slipped'
    BY Marks DEF Vouched, FilesOf
  <2> QED BY <1>3, <2>1 DEF QueueVouched
<1>8. \A f : RowIn(queue, f)' => \E i \in keep : queue[i].file = f
  <2> SUFFICES ASSUME NEW f, NEW n \in DOMAIN queue', queue'[n].file = f
               PROVE  \E i \in keep : queue[i].file = f
    BY DEF RowIn
  <2> HIDE DEF keep
  <2> QED BY <1>2, <1>3
<1>9. \A i \in keep : \E n \in DOMAIN queue' : queue'[n].file = queue[i].file
  <2> TAKE i \in keep
  <2>1. RowIn(Kept(b), queue[i].file)
    BY <1>2
  <2> HIDE DEF keep
  <2> QED BY <1>3, <2>1 DEF RowIn
<1>10. \A f \in chosen : RowIn(queue, f) =>
         RowIn(queue, f)' \/ Stored(f) # {} \/ Excused(f, {"late", "full"})'
  <2> SUFFICES ASSUME NEW i \in DOMAIN queue, i \notin keep, NEW f, f = queue[i].file
               PROVE  Stored(f) # {} \/ Excused(f, {"late", "full"})'
    BY <1>9 DEF RowIn
  <2>1. CASE f \in FilesOf(sent)
    <3>1. PICK j \in DOMAIN sent : sent[j].file = f
      BY <2>1 DEF FilesOf
    <3>2. batch[b].results[j] # "error"
      BY <3>1 DEF FailedNames
    <3>3. batch[b].results[j] = "saved"
      <4>1. batch[b].results[j] \in Result
        BY <1>1, <3>1 DEF Batch
      <4> QED BY <1>1, <3>1, <3>2, <4>1 DEF Done, Result
    <3> QED BY <1>1, <3>1, <3>3 DEF IInv, Told
  <2>2. CASE f \notin FilesOf(sent)
    BY <2>2, Marks DEF FilesOf, Excused
  <2> QED BY <2>1, <2>2
<1>11. \A f \in chosen : RowIn(queue, f)' /\ ~Window(f)' => RowIn(queue, f) /\ Errors(b, f)
  <2> SUFFICES ASSUME NEW f \in chosen, RowIn(queue, f)', ~Window(f)'
               PROVE  RowIn(queue, f) /\ Errors(b, f)
    OBVIOUS
  <2>1. PICK i \in keep : queue[i].file = f
    BY <1>8
  <2>2. PICK j \in DOMAIN sent : batch[b].results[j] = "error" /\ Name[sent[j].file] = Name[f]
    BY <2>1 DEF FailedNames
  <2>3. sent[j].file = f
    BY <1>1, <2>2 DEF Window, Share, Distinct
  <2>4. Errors(b, f)
    BY <1>1, <2>2, <2>3 DEF Distinct, Errors
  <2> QED BY <2>1, <2>4 DEF RowIn
<1> QED BY <1>4, <1>6, <1>7, <1>10, <1>11, PageStep


-----------------------------------------------------------------------------
(* The steps of a batch.                                                   *)

(* A batch is sent: every batch before it failed on each of its files.     *)
LEMMA CommitStep ==
  ASSUME IInv, Commit
  PROVE  IInv'
<1> USE DEF Commit
<1> DEFINE n == Len(batch) + 1
           fresh == [client |-> selected, rows |-> queue, results |-> [i \in DOMAIN queue |-> "pending"]]
<1>1. /\ queue \in Seq(Row) /\ batch \in Seq(Batch) /\ Len(batch) \in Nat
      /\ selected \in Client /\ uploading = 0 /\ DOMAIN queue = 1 .. Len(queue) /\ Len(queue) \in Nat
  BY DEF IInv, TypeOK
<1>2. fresh \in Batch /\ Len(fresh.results) = Len(fresh.rows) /\ DOMAIN fresh.results = DOMAIN queue
  <2>1. [i \in DOMAIN queue |-> "pending"] \in Seq(Result)
    BY <1>1 DEF Result
  <2> QED BY <1>1, <2>1 DEF Batch
<1>3. /\ DOMAIN batch' = 1 .. n /\ batch' \in Seq(Batch) /\ Len(batch') = n /\ batch'[n] = fresh
      /\ \A b \in DOMAIN batch : batch'[b] = batch[b] /\ b # n
      /\ DOMAIN batch' = DOMAIN batch \cup {n}
  <2>1. batch' = Append(batch, fresh)
    OBVIOUS
  <2> HIDE DEF fresh
  <2> QED BY <1>1, <1>2, <2>1
<1>4. UNCHANGED <<queue, selected, saved, history>> /\ uploading' = n
  OBVIOUS
<1>5. TypeOK'
  BY <1>1, <1>2, <1>3, <1>4 DEF IInv, TypeOK, history
<1>6. \A f : Stored(f)' = Stored(f) /\ (RowIn(queue, f)' <=> RowIn(queue, f))
  BY <1>4 DEF Stored, RowIn
<1>7. Rows'
  <2>1. \A b \in DOMAIN batch' : Distinct(batch[b].rows)'
    <3> TAKE b \in DOMAIN batch'
    <3>1. CASE b \in DOMAIN batch
      BY <1>3, <1>4, <3>1 DEF IInv, Rows, Distinct, history
    <3>2. CASE b = n
      BY <1>3, <1>4, <3>2 DEF IInv, Rows, Distinct, history
    <3> QED BY <1>3, <3>1, <3>2
  <2>2. Distinct(queue)' /\ \A i \in DOMAIN saved' : saved'[i].file \in chosen'
    BY <1>4 DEF IInv, Rows, Distinct, history
  <2> QED BY <2>1, <2>2 DEF Rows
<1>8. Vouching'
  <2>1. BatchesVouched'
    <3> SUFFICES ASSUME NEW b \in DOMAIN batch', NEW i \in DOMAIN batch'[b].rows,
                        Mismatch(Name[batch'[b].rows[i].file], batch'[b].client)
                 PROVE  <<"vouched", batch'[b].rows[i].file>> \in slipped'
      BY DEF BatchesVouched
    <3>1. CASE b \in DOMAIN batch
      BY <1>3, <1>4, <3>1 DEF IInv, Vouching, BatchesVouched, history
    <3>2. CASE b = n
      <4>1. i \in DOMAIN queue /\ queue[i].valid
        BY <1>3, <3>2 DEF Reviewed
      <4> QED BY <1>3, <1>4, <3>2, <4>1 DEF IInv, Vouching, QueueVouched, history
    <3> QED BY <1>3, <3>1, <3>2
  <2> QED BY <1>4, <2>1 DEF IInv, Vouching, QueueVouched, history
<1>9. ClientAsNamed' /\ SavedAsShown' /\ NothingLost'
  BY <1>4, <1>6 DEF IInv, ClientAsNamed, SavedAsShown, NothingLost, Excused, history
<1>10. Told'
  <2> SUFFICES ASSUME NEW b \in DOMAIN batch', NEW i \in DOMAIN batch'[b].rows,
                      batch'[b].results[i] = "saved"
               PROVE  Stored(batch[b].rows[i].file)' # {}
    BY DEF Told
  <2>1. CASE b \in DOMAIN batch
    BY <1>3, <1>6, <2>1 DEF IInv, Told
  <2>2. CASE b = n
    BY <1>3, <2>2
  <2> QED BY <1>3, <2>1, <2>2
<1>11. OnceEach'
  <2> SUFFICES ASSUME NEW f \in chosen, ~Window(f)
               PROVE  Once(f)'
    BY <1>4 DEF OnceEach, Window, Excused, history
  <2>1. Once(f)
    BY DEF IInv, OnceEach
  <2>2. \A b \in DOMAIN batch : Errors(b, f)' <=> Errors(b, f)
    BY <1>3 DEF Errors
  <2>3. CASE RowIn(queue, f)
    <3>1. \A b \in DOMAIN batch : Errors(b, f)
      BY <1>1, <2>1, <2>3 DEF Once
    <3> QED BY <1>3, <1>4, <1>6, <2>1, <2>2, <3>1 DEF Once
  <2>4. CASE ~RowIn(queue, f)
    <3>1. \A c : c = n => Errors(c, f)'
      <4>1. \A j \in DOMAIN queue : queue[j].file # f
        BY <2>4 DEF RowIn
      <4>2. batch'[n].rows = queue
        BY <1>3
      <4> QED BY <4>1, <4>2 DEF Errors
    <3> QED BY <1>3, <1>4, <1>6, <2>1, <2>2, <2>4, <3>1 DEF Once
  <2> QED BY <2>3, <2>4
<1> QED BY <1>5, <1>7, <1>8, <1>9, <1>10, <1>11 DEF IInv

(* The outcome of one file is entered into its batch.                      *)
Entry(b, i, outcome) == batch' = [batch EXCEPT ![b].results[i] = outcome]

LEMMA Entered ==
  ASSUME IInv, NEW b \in DOMAIN batch, NEW i \in DOMAIN batch[b].rows, NEW outcome \in Result,
         Entry(b, i, outcome)
  PROVE  /\ batch \in Seq(Batch) /\ batch[b] \in Batch /\ i \in DOMAIN batch[b].results
         /\ batch' \in Seq(Batch) /\ DOMAIN batch' = DOMAIN batch /\ Len(batch') = Len(batch)
         /\ \A c \in DOMAIN batch :
              /\ batch'[c].rows = batch[c].rows /\ batch'[c].client = batch[c].client
              /\ Len(batch'[c].results) = Len(batch'[c].rows)
              /\ \A j \in DOMAIN batch[c].rows :
                   batch'[c].results[j] = IF c = b /\ j = i THEN outcome ELSE batch[c].results[j]
<1>1. batch \in Seq(Batch) /\ \A c \in DOMAIN batch : Len(batch[c].results) = Len(batch[c].rows)
  BY DEF IInv, TypeOK
<1>2. \A c \in DOMAIN batch : /\ batch[c] \in Batch /\ batch[c].rows \in Seq(Row)
                              /\ batch[c].results \in Seq(Result)
                              /\ DOMAIN batch[c].results = DOMAIN batch[c].rows
  BY BatchParts
<1>3. /\ [batch[b].results EXCEPT ![i] = outcome] \in Seq(Result)
      /\ Len([batch[b].results EXCEPT ![i] = outcome]) = Len(batch[b].results)
  BY <1>2
<1> DEFINE new == [batch[b] EXCEPT !.results = [batch[b].results EXCEPT ![i] = outcome]]
<1>4. /\ new \in Batch /\ new.rows = batch[b].rows /\ new.client = batch[b].client
      /\ new.results = [batch[b].results EXCEPT ![i] = outcome]
  BY <1>2, <1>3 DEF Batch
<1>5. batch' = [batch EXCEPT ![b] = new]
  BY DEF Entry
<1> HIDE DEF new
<1>6. /\ batch' \in Seq(Batch) /\ DOMAIN batch' = DOMAIN batch /\ Len(batch') = Len(batch)
      /\ \A c \in DOMAIN batch : batch'[c] = IF c = b THEN new ELSE batch[c]
  <2>1. batch' \in Seq(Batch) /\ Len(batch') = Len(batch)
    BY <1>1, <1>4, <1>5
  <2>2. DOMAIN batch' = DOMAIN batch /\ \A c \in DOMAIN batch : batch'[c] = IF c = b THEN new ELSE batch[c]
    BY <1>5
  <2> QED BY <2>1, <2>2
<1>7. \A c \in DOMAIN batch :
        /\ batch'[c].rows = batch[c].rows /\ batch'[c].client = batch[c].client
        /\ Len(batch'[c].results) = Len(batch'[c].rows)
  BY <1>1, <1>3, <1>4, <1>6
<1>8. \A c \in DOMAIN batch : \A j \in DOMAIN batch[c].rows :
        batch'[c].results[j] = IF c = b /\ j = i THEN outcome ELSE batch[c].results[j]
  <2> TAKE c \in DOMAIN batch
  <2>1. CASE c = b
    BY <1>2, <1>4, <1>6, <2>1
  <2>2. CASE c # b
    BY <1>6, <2>2
  <2> QED BY <2>1, <2>2
<1> QED BY <1>1, <1>2, <1>6, <1>7, <1>8

(* A failure is told, and nothing is saved.                                *)
LEMMA RefuseFileStep ==
  ASSUME IInv, NEW b \in DOMAIN batch, NEW i \in DOMAIN batch[b].rows, RefuseFile(b, i)
  PROVE  IInv'
<1>1. /\ batch' = [batch EXCEPT ![b].results[i] = "error"]
      /\ UNCHANGED <<selected, queue, uploading, saved, chosen, removed, slipped, edits>>
      /\ batch[b].results[i] = "pending"
  BY DEF RefuseFile, Turn, page, history
<1>2. /\ batch' \in Seq(Batch) /\ DOMAIN batch' = DOMAIN batch /\ Len(batch') = Len(batch)
      /\ \A c \in DOMAIN batch :
           /\ batch'[c].rows = batch[c].rows /\ batch'[c].client = batch[c].client
           /\ Len(batch'[c].results) = Len(batch'[c].rows)
           /\ \A j \in DOMAIN batch[c].rows :
                batch'[c].results[j] = IF c = b /\ j = i THEN "error" ELSE batch[c].results[j]
  <2>1. "error" \in Result /\ Entry(b, i, "error")
    BY <1>1 DEF Result, Entry
  <2> QED BY <2>1, Entered
<1>3. TypeOK'
  BY <1>1, <1>2 DEF IInv, TypeOK
<1>4. \A f : Stored(f)' = Stored(f) /\ (RowIn(queue, f)' <=> RowIn(queue, f))
  BY <1>1 DEF Stored, RowIn
<1>5. Rows' /\ Vouching' /\ ClientAsNamed' /\ SavedAsShown' /\ NothingLost'
  <2>1. Rows'
    BY <1>1, <1>2 DEF IInv, Rows, Distinct
  <2>2. QueueVouched'
    BY <1>1 DEF IInv, Vouching, QueueVouched
  <2>3. BatchesVouched'
    <3> SUFFICES ASSUME NEW c \in DOMAIN batch, NEW k \in DOMAIN batch[c].rows,
                        Mismatch(Name[batch[c].rows[k].file], batch[c].client)
                 PROVE  <<"vouched", batch[c].rows[k].file>> \in slipped
      BY <1>1, <1>2 DEF BatchesVouched
    <3> QED BY DEF IInv, Vouching, BatchesVouched
  <2>4. ClientAsNamed' /\ SavedAsShown' /\ NothingLost'
    BY <1>1, <1>4 DEF IInv, ClientAsNamed, SavedAsShown, NothingLost, Excused
  <2> QED BY <2>1, <2>2, <2>3, <2>4 DEF Vouching
<1>6. Told'
  BY <1>2, <1>4 DEF IInv, Told
<1>7. OnceEach'
  <2> SUFFICES ASSUME NEW f \in chosen, ~Window(f)
               PROVE  Once(f)'
    BY <1>1 DEF OnceEach, Window, Excused
  <2>1. Once(f)
    BY DEF IInv, OnceEach
  <2>2. \A c \in DOMAIN batch : Errors(c, f) => Errors(c, f)'
    BY <1>2 DEF Errors
  <2>3. \A c \in DOMAIN batch : \A j \in DOMAIN batch[c].rows :
          batch[c].results[j] = "saved" => batch'[c].results[j] = "saved"
    BY <1>1, <1>2
  <2> QED BY <1>1, <1>2, <1>4, <2>1, <2>2, <2>3 DEF Once
<1> QED BY <1>3, <1>5, <1>6, <1>7 DEF IInv

(* A file is saved: no other batch has saved it, or will.                  *)
LEMMA SaveFileStep ==
  ASSUME IInv, NEW b \in DOMAIN batch, NEW i \in DOMAIN batch[b].rows, SaveFile(b, i)
  PROVE  IInv'
<1> DEFINE row == batch[b].rows[i]
           extracted == IF row.file \in Legible THEN <<"extracted">> ELSE Placeholder
           n == Len(saved) + 1
           entry == [file |-> row.file, client |-> batch[b].client, shown |-> row.shown,
                     stored |-> Merged(ShownFor(batch[b].rows, i), [f \in Field |-> extracted],
                                       Name[row.file])]
<1>1. /\ batch' = [batch EXCEPT ![b].results[i] = "saved"]
      /\ saved' = Append(saved, entry)
      /\ UNCHANGED <<selected, queue, uploading, chosen, removed, slipped, edits>>
      /\ batch[b].results[i] = "pending"
  BY DEF SaveFile, Turn, page, history
<1>2. /\ batch' \in Seq(Batch) /\ DOMAIN batch' = DOMAIN batch /\ Len(batch') = Len(batch)
      /\ \A c \in DOMAIN batch :
           /\ batch'[c].rows = batch[c].rows /\ batch'[c].client = batch[c].client
           /\ Len(batch'[c].results) = Len(batch'[c].rows)
           /\ \A j \in DOMAIN batch[c].rows :
                batch'[c].results[j] = IF c = b /\ j = i THEN "saved" ELSE batch[c].results[j]
  <2>1. "saved" \in Result /\ Entry(b, i, "saved")
    BY <1>1 DEF Result, Entry
  <2> QED BY <2>1, Entered
<1>3. /\ batch[b] \in Batch /\ batch[b].rows \in Seq(Row) /\ row \in Row /\ saved \in Seq(Saved)
      /\ Distinct(batch[b].rows) /\ row.file \in chosen /\ row.file \in File
  <2>1. batch[b] \in Batch /\ batch[b].rows \in Seq(Row) /\ Distinct(batch[b].rows)
    BY BatchParts
  <2>2. row \in Row /\ row.file \in File
    BY <2>1, RowParts
  <2> QED BY <2>1, <2>2 DEF Distinct, IInv, TypeOK
<1>4. ShownFor(batch[b].rows, i) \in Described
      /\ ((\A j \in DOMAIN batch[b].rows : Name[batch[b].rows[j].file] = Name[row.file] => j = i)
            => ShownFor(batch[b].rows, i) = row.shown)
  BY <1>3, ShownForRow
<1>5. entry \in Saved
  <2>1. Name[row.file] \in Seq(Word)
    BY <1>3, FileAssumption
  <2>2. [f \in Field |-> extracted] \in Described
    <3>1. <<"extracted">> \in Seq(Word \cup {"typed", "extracted"})
          /\ <<>> \in Seq(Word \cup {"typed", "extracted"})
      OBVIOUS
    <3> QED BY <3>1 DEF Described, Placeholder
  <2>3. entry.stored \in Described
    BY <1>4, <2>1, <2>2, MergedType
  <2> QED BY <1>3, <2>3 DEF Saved, Row, Batch
<1>6. /\ saved' \in Seq(Saved) /\ DOMAIN saved' = DOMAIN saved \cup {n} /\ saved'[n] = entry
      /\ n \notin DOMAIN saved /\ \A k \in DOMAIN saved : saved'[k] = saved[k]
  <2> HIDE DEF entry
  <2> QED BY <1>1, <1>3, <1>5
<1>7. TypeOK'
  BY <1>1, <1>2, <1>6 DEF IInv, TypeOK
<1>8. \A f : Stored(f)' = IF f = row.file THEN Stored(f) \cup {n} ELSE Stored(f)
  BY <1>6 DEF Stored
<1>9. Rows' /\ Vouching'
  <2> HIDE DEF entry
  <2>1. entry.file \in chosen
    BY <1>3 DEF entry
  <2>2. \A c \in DOMAIN batch' : Distinct(batch[c].rows)'
    BY <1>1, <1>2 DEF IInv, Rows, Distinct
  <2>3. Rows'
    BY <1>1, <1>6, <2>1, <2>2 DEF IInv, Rows, Distinct
  <2>4. QueueVouched'
    BY <1>1 DEF IInv, Vouching, QueueVouched
  <2>5. slipped' = slipped
    BY <1>1
  <2>6. BatchesVouched'
    <3> SUFFICES ASSUME NEW c \in DOMAIN batch, NEW k \in DOMAIN batch[c].rows,
                        Mismatch(Name[batch[c].rows[k].file], batch[c].client)
                 PROVE  <<"vouched", batch[c].rows[k].file>> \in slipped
      BY <1>2, <2>5 DEF BatchesVouched
    <3> QED BY DEF IInv, Vouching, BatchesVouched
  <2> QED BY <2>3, <2>4, <2>6 DEF Vouching
<1>10. ClientAsNamed'
  <2>1. Mismatch(Name[entry.file], entry.client) => <<"vouched", entry.file>> \in slipped
    BY DEF IInv, Vouching, BatchesVouched
  <2> QED BY <1>1, <1>6, <2>1 DEF IInv, ClientAsNamed, Excused
<1>11. SavedAsShown'
  <2>1. \A f \in Field : entry.shown[f] # Placeholder =>
          entry.stored[f] = entry.shown[f] \/ \E g \in chosen : Share(entry.file, g)
    <3>1. CASE \A j \in DOMAIN batch[b].rows : Name[batch[b].rows[j].file] = Name[row.file] => j = i
      BY <1>4, <3>1 DEF Merged, Prefer
    <3>2. CASE ~(\A j \in DOMAIN batch[b].rows : Name[batch[b].rows[j].file] = Name[row.file] => j = i)
      BY <1>3, <3>2 DEF Distinct, Share
    <3> QED BY <3>1, <3>2
  <2> QED BY <1>1, <1>6, <2>1 DEF IInv, SavedAsShown
<1>12. NothingLost' /\ Told'
  <2>1. \A f : Stored(f) \subseteq Stored(f)' /\ (f = row.file => Stored(f)' # {})
    BY <1>8
  <2>2. NothingLost'
    BY <1>1, <2>1 DEF IInv, NothingLost, RowIn, Excused
  <2>3. Told'
    <3> SUFFICES ASSUME NEW c \in DOMAIN batch, NEW j \in DOMAIN batch[c].rows,
                        batch'[c].results[j] = "saved"
                 PROVE  Stored(batch[c].rows[j].file)' # {}
      BY <1>2 DEF Told
    <3>1. CASE c = b /\ j = i
      BY <1>2, <2>1, <3>1
    <3>2. CASE ~(c = b /\ j = i)
      <4>1. Stored(batch[c].rows[j].file) # {}
        BY <1>2, <3>2 DEF IInv, Told
      <4>2. batch'[c].rows = batch[c].rows
        BY <1>2
      <4> QED BY <2>1, <4>1, <4>2
    <3> QED BY <3>1, <3>2
  <2> QED BY <2>2, <2>3
<1>13. OnceEach'
  <2> SUFFICES ASSUME NEW f \in chosen, ~Window(f)
               PROVE  Once(f)'
    BY <1>1 DEF OnceEach, Window, Excused
  <2>1. Once(f)
    BY DEF IInv, OnceEach
  <2>2. \A c \in DOMAIN batch : Errors(c, f) => Errors(c, f)'
    BY <1>1, <1>2 DEF Errors
  <2>3. \A c \in DOMAIN batch : \A j \in DOMAIN batch[c].rows :
          batch[c].results[j] = "saved" => batch'[c].results[j] = "saved"
    BY <1>2
  <2>4. RowIn(queue, f)' <=> RowIn(queue, f)
    BY <1>1 DEF RowIn
  <2>5. CASE f # row.file
    BY <1>1, <1>2, <1>8, <2>1, <2>2, <2>3, <2>4, <2>5 DEF Once
  <2>6. CASE f = row.file
    <3>1. ~Errors(b, f)
      BY <1>1, <2>6 DEF Errors
    <3>2. Stored(f) = {}
      <4> SUFFICES ASSUME Stored(f) # {}
                   PROVE  FALSE
        OBVIOUS
      <4>1. PICK c \in DOMAIN batch : \E j \in DOMAIN batch[c].rows :
              batch[c].rows[j].file = f /\ batch[c].results[j] = "saved"
        BY <2>1 DEF Once
      <4>2. PICK j \in DOMAIN batch[c].rows : batch[c].rows[j].file = f /\ batch[c].results[j] = "saved"
        BY <4>1
      <4>3. c = b
        BY <2>1, <3>1, <4>2 DEF Once, Errors
      <4>4. j = i
        BY <1>3, <2>6, <4>2, <4>3 DEF Distinct
      <4> QED BY <1>1, <4>2, <4>3, <4>4
    <3>3. Stored(f)' = {n}
      BY <1>8, <2>6, <3>2
    <3>4. \E c \in DOMAIN batch' : \E j \in DOMAIN batch'[c].rows :
            batch'[c].rows[j].file = f /\ batch'[c].results[j] = "saved"
      BY <1>2, <2>6
    <3> QED BY <1>1, <1>2, <2>1, <2>2, <2>4, <3>3, <3>4 DEF Once
  <2> QED BY <2>5, <2>6
<1> QED BY <1>7, <1>9, <1>10, <1>11, <1>12, <1>13 DEF IInv

-----------------------------------------------------------------------------

LEMMA Inductive == IInv /\ [Next]_vars => IInv'
<1> SUFFICES ASSUME IInv, [Next]_vars PROVE IInv'
  OBVIOUS
<1>1. CASE EditQueue
  <2>1. edits' \in 0 .. MaxEdit
    BY <1>1, QueueAssumption DEF EditQueue, IInv, TypeOK
  <2>2. ASSUME NEW i \in DOMAIN queue, QuickFix(i)
        PROVE  EditClient(i, TRUE)
    BY <2>2 DEF QuickFix
  <2> QED
    BY <1>1, <2>1, <2>2, SelectClientStep, EditCompanyStep, EditClientStep, RemoveRowStep,
       AutoFixAllStep, ClearStep DEF EditQueue
<1>2. CASE \E f \in File : AddFile(f)
  BY <1>2, AddFileStep
<1>3. CASE Commit
  BY <1>3, CommitStep
<1>4. CASE Settle
  BY <1>4, SettleStep
<1>5. CASE AnswerLost
  BY <1>5, AnswerLostStep
<1>6. CASE \E b \in DOMAIN batch : ServeFile(b)
  BY <1>6, SaveFileStep, RefuseFileStep DEF ServeFile
<1>7. CASE UNCHANGED vars
  <2>1. TypeOK'
    BY <1>7 DEF IInv, TypeOK, vars, page, server, history
  <2>2. \A f, kinds : /\ Stored(f)' = Stored(f) /\ (RowIn(queue, f)' <=> RowIn(queue, f))
                      /\ (Excused(f, kinds)' <=> Excused(f, kinds)) /\ (Window(f)' <=> Window(f))
                      /\ \A b : Errors(b, f)' <=> Errors(b, f)
    BY <1>7 DEF Stored, RowIn, Excused, Window, Errors, vars, page, server, history
  <2>3. Rows' /\ Vouching' /\ ClientAsNamed' /\ SavedAsShown' /\ Told' /\ NothingLost'
    BY <1>7, <2>2
       DEF IInv, Rows, Distinct, Vouching, QueueVouched, BatchesVouched, ClientAsNamed,
           SavedAsShown, Told, NothingLost, vars, page, server, history
  <2>4. OnceEach'
    <3>1. chosen' = chosen /\ batch' = batch /\ uploading' = uploading
      BY <1>7 DEF vars, page, server, history
    <3>2. \A f : Once(f)' <=> Once(f)
      BY <2>2, <3>1 DEF Once
    <3> QED BY <2>2, <3>1, <3>2 DEF IInv, OnceEach
  <2> QED BY <2>1, <2>3, <2>4 DEF IInv
<1> QED BY <1>1, <1>2, <1>3, <1>4, <1>5, <1>6, <1>7 DEF Next

LEMMA Invariant == Spec => []IInv
<1>1. Init => IInv
  BY Initially
<1>2. IInv /\ [Next]_vars => IInv'
  BY Inductive
<1> QED BY <1>1, <1>2, PTL DEF Spec

(* What is saved under a client is what the person was shown of it, for    *)
(* any files and names (handleCommitUpload and the handler of              *)
(* POST /resumes/upload).                                                  *)
THEOREM SavedAsToldHolds == Spec => []SavedAsTold
<1>1. IInv => SavedAsTold
  BY DEF IInv, SavedAsTold
<1> QED BY <1>1, Invariant, PTL

(* Every chosen file is saved once or still there to be sent, whatever     *)
(* happens to the requests and however the queue is edited meanwhile.      *)
THEOREM FilesAccountedHolds == Spec => []FilesAccounted
<1>1. IInv => SavedOnce
  <2> SUFFICES ASSUME IInv, NEW f \in chosen, ~Window(f)
               PROVE  Cardinality(Stored(f)) <= 1
    BY DEF SavedOnce, Window
  <2>1. \A k, l \in Stored(f) : k = l
    BY DEF IInv, OnceEach, Once
  <2>2. CASE Stored(f) = {}
    BY <2>2, FS_EmptySet
  <2>3. CASE Stored(f) # {}
    <3>1. PICK k : Stored(f) = {k}
      BY <2>1, <2>3
    <3>2. Cardinality({k}) = 1
      BY FS_Singleton
    <3> QED BY <3>1, <3>2
  <2> QED BY <2>2, <2>3
<1>2. IInv => FilesAccounted
  BY <1>1 DEF IInv, FilesAccounted
<1> QED BY <1>2, Invariant, PTL

=============================================================================
