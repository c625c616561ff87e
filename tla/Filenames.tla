------------------------------- MODULE Filenames -------------------------------
(***************************************************************************)
(* What the name of a resume file says.  Three parsers read it: the one of *)
(* the upload page, to fill in the queue, and two on the server, as a      *)
(* fallback for what the page does not tell.                               *)
(*                                                                         *)
(* A name is the sequence of the words between its separators.  Abstracted:*)
(* the separators, the case and the spelling of a word.                    *)
(***************************************************************************)
EXTENDS Selection

CONSTANTS
  Client,   \* the service clients; also stands for the words of their names
  Nobody    \* no client

ASSUME WordAssumption == Nobody \notin Client

(* "final" is noise only at the end of a name; "resume" anywhere.          *)
Word == Client \cup {"person", "company", "job", "resume", "final"}
Noise == {"resume", "final"}

(* The fields that describe a candidate are words; none is a placeholder   *)
(* ("Candidate", "Unknown Hiring Organization", "Unknown Target Role").    *)
Field == {"candidate", "company", "role"}
Placeholder == <<>>

(* cleanCandidateName                                                      *)
Cleaned(words) == Selected(words, {i \in DOMAIN words : words[i] # "resume"})

-----------------------------------------------------------------------------
(* parseFilename of the page: ServiceClient_Company_Role_Candidate.        *)

(* The name of a candidate with noise, not in that format.                 *)
Natural(stem) ==
  \/ \E i \in DOMAIN stem : stem[i] = "resume"
  \/ Len(stem) = 2 /\ stem[2] \in Noise

(* The first word is not the client that is selected.                      *)
Mismatch(stem, selected) ==
  /\ ~Natural(stem) /\ Len(stem) >= 3
  /\ selected # Nobody /\ stem[1] # selected

(* The row is marked as valid; otherwise it needs a review.                *)
Valid(stem, selected) ==
  IF Natural(stem) THEN selected # Nobody
  ELSE Len(stem) >= 3 /\ ~Mismatch(stem, selected)

First(stem) == IF stem = <<>> THEN Placeholder ELSE <<stem[1]>>

(* With three words the role is taken for the candidate too.               *)
PageParse(stem) ==
  LET last == Len(stem) IN
  CASE Natural(stem) ->
         [candidate |-> Cleaned(First(stem)), company |-> Placeholder, role |-> Placeholder]
    [] ~Natural(stem) /\ last < 3 ->
         [candidate |-> Cleaned(stem), company |-> First(stem),
          role |-> IF last = 2 THEN <<stem[2]>> ELSE Placeholder]
    [] OTHER ->
         [candidate |-> Cleaned(<<stem[last]>>), company |-> <<stem[2]>>,
          role |-> SubSeq(stem, 3, IF last = 3 THEN 3 ELSE last - 1)]

-----------------------------------------------------------------------------
(* parseResumeFilename of utils/resumeFilenameParser.ts, which the upload  *)
(* falls back to: Candidate_Company_Role.                                  *)

(* Noise at the end is left out, but for the first word.                   *)
Stripped(stem) ==
  Selected(stem, {i \in DOMAIN stem : i = 1 \/ \E j \in i .. Len(stem) : stem[j] \notin Noise})

WithoutNoise(words) ==
  LET kept == {i \in DOMAIN words : words[i] \notin Noise} IN
  IF kept = {} THEN words ELSE Selected(words, kept)

ServerParse(stem) ==
  LET words == Stripped(stem)
      count == Len(words) IN
  [candidate |-> IF count = 1 /\ words[1] \in Noise THEN Placeholder ELSE Cleaned(First(words)),
   company |-> IF count >= 2 THEN <<words[2]>> ELSE Placeholder,
   role |-> IF count >= 3 THEN WithoutNoise(SubSeq(words, 3, count)) ELSE Placeholder]

Prefer(a, b) == IF a # Placeholder THEN a ELSE b

(* Mutant of Merged: what the model extracted is preferred.                *)
MergedModelFirst(shown, extracted, stem) ==
  [f \in Field |-> Prefer(extracted[f], Prefer(shown[f], ServerParse(stem)[f]))]

(* The hierarchy of the upload: what the page sent, unless it is a         *)
(* placeholder, then what the model extracted, then the name of the file.  *)
Merged(shown, extracted, stem) ==
  [f \in Field |-> Prefer(shown[f], Prefer(extracted[f], ServerParse(stem)[f]))]

=============================================================================
