---------------------------- MODULE InvoiceIntake ----------------------------
(***************************************************************************)
(* How a document becomes an invoice, and how the document of an invoice   *)
(* is replaced (uploadAndAnalyzeInvoice, createAndSubmitInvoice,           *)
(* replaceInvoiceFile and saveAndResubmitInvoice of                        *)
(* app/(app)/invoices/actions.ts).                                         *)
(*                                                                         *)
(* Documents live in an object storage that takes no part in a database    *)
(* transaction, so every handler orders its steps such that a failure or a *)
(* crash between them leaves at worst an object nobody points to.  An      *)
(* upload is bound to its caller by a PendingInvoiceUpload row, which the  *)
(* creation of the invoice consumes in its own transaction; a submission   *)
(* id makes a repeated form return the same invoice.                       *)
(*                                                                         *)
(* A caller stands for a user together with the company and club of the    *)
(* form.  The recognition of the document, the fields, the month close and *)
(* the rate limit only refuse a request before it writes, and are left     *)
(* out; the workflow of the invoice is in InvoiceContour, here reduced to  *)
(* being under review or sent back.                                        *)
(***************************************************************************)
EXTENDS Naturals, FiniteSets

CONSTANTS
  Req,         \* request slots
  Caller,
  File,        \* storage keys the server may generate
  Submission,  \* clientSubmissionIds, one per opened form
  Opener,      \* who opened each form
  InvoiceId,
  Faults       \* what may go wrong: "storage", "database", "crash"

NoFile    == "no file"
NoInvoice == "no invoice"

ASSUME OpenerAssumption    == Opener \in [Submission -> Caller]
ASSUME FaultsAssumption    == Faults \subseteq {"storage", "database", "crash"}
ASSUME DocumentsAssumption == NoFile \notin File /\ NoInvoice \notin InvoiceId

VARIABLES
  minted,   \* the storage keys generated so far
  stored,   \* the objects in the storage
  upload,   \* the PendingInvoiceUpload rows, by storage key
  invoice,  \* the Invoice rows, by id
  request   \* what each request slot is doing

intakeVars == <<minted, stored, upload, invoice, request>>

Upload  == [by : Caller, consumed : BOOLEAN, expired : BOOLEAN]
Invoice == [by : Caller, sub : Submission, file : File, bound : File,
            status : {"needs_review", "needs_correction"}]

NoRequest == [pc |-> "idle", kind |-> "none"]

UploadJob == [pc : {"put", "record"}, kind : {"upload"}, by : Caller, file : File]

CreateJob ==
  [pc : {"lookup", "consume", "insert", "commit", "fallback", "answered"},
   kind : {"create"}, by : Caller, sub : Submission, file : File,
   answer : InvoiceId \cup {NoInvoice}]

\* file: the new document, if any; drop: the object to delete at the end.
EditJob ==
  [pc : {"put", "swap", "drop"}, kind : {"replace", "resubmit"}, id : InvoiceId,
   file : File \cup {NoFile}, old : File, drop : File \cup {NoFile}]

Job == {NoRequest} \cup UploadJob \cup CreateJob \cup EditJob

TypeOK ==
  /\ minted \subseteq File
  /\ stored \subseteq File
  /\ DOMAIN upload \subseteq File /\ upload \in [DOMAIN upload -> Upload]
  /\ DOMAIN invoice \subseteq InvoiceId /\ invoice \in [DOMAIN invoice -> Invoice]
  /\ request \in [Req -> Job]

IntakeInit ==
  /\ minted = {}
  /\ stored = {}
  /\ upload = [f \in {} |-> NoRequest]
  /\ invoice = [i \in {} |-> NoRequest]
  /\ request = [r \in Req |-> NoRequest]

-----------------------------------------------------------------------------
Running(r, kind, pc) == request[r].kind = kind /\ request[r].pc = pc

GoOn(r, pc) == request' = [request EXCEPT ![r].pc = pc]

EndRequest(r) == request' = [request EXCEPT ![r] = NoRequest]

Extend(f, x, value) == [y \in DOMAIN f \cup {x} |-> IF y = x THEN value ELSE f[y]]

\* The invoices a form has produced.
Produced(s) == {i \in DOMAIN invoice : invoice[i].sub = s}

-----------------------------------------------------------------------------
(* uploadAndAnalyzeInvoice.                                                *)

\* A fresh random key is generated for every document.
BeginUpload(r, c) ==
  /\ request[r] = NoRequest
  /\ \E f \in File \ minted :
       /\ minted' = minted \cup {f}
       /\ request' = [request EXCEPT ![r] = [pc |-> "put", kind |-> "upload", by |-> c, file |-> f]]
  /\ UNCHANGED <<stored, upload, invoice>>

\* The document is written to the storage before any row mentions it.  An
\* upload whose storage fails is still recognised, and leaves nothing.
PutFile(r) ==
  /\ request[r].pc = "put"
  /\ \/ /\ stored' = stored \cup {request[r].file}
        /\ GoOn(r, IF request[r].kind = "upload" THEN "record" ELSE "swap")
     \/ /\ "storage" \in Faults
        /\ stored' = stored
        /\ EndRequest(r)
  /\ UNCHANGED <<minted, upload, invoice>>

RecordUpload(r) ==
  /\ Running(r, "upload", "record")
  /\ \/ upload' = Extend(upload, request[r].file,
                         [by |-> request[r].by, consumed |-> FALSE, expired |-> FALSE])
     \/ "database" \in Faults /\ upload' = upload
  /\ EndRequest(r)
  /\ UNCHANGED <<minted, stored, invoice>>

\* The upload's time to live runs out.
Expire(f) ==
  /\ f \in DOMAIN upload /\ ~upload[f].expired
  /\ upload' = [upload EXCEPT ![f].expired = TRUE]
  /\ UNCHANGED <<minted, stored, invoice, request>>

-----------------------------------------------------------------------------
(* createAndSubmitInvoice.                                                 *)

ValidUpload(f, c) ==
  /\ f \in DOMAIN upload
  /\ upload[f].by = c /\ ~upload[f].consumed /\ ~upload[f].expired

\* The clock is read once: an upload that is valid now stays so for the whole
\* request.  An invalid one is refused as "no file" before anything else is asked.
BeginCreate(r, s, f) ==
  /\ request[r] = NoRequest
  /\ f \in minted
  /\ request' = [request EXCEPT ![r] =
       [pc |-> IF ValidUpload(f, Opener[s]) THEN "lookup" ELSE "answered",
        kind |-> "create", by |-> Opener[s], sub |-> s, file |-> f,
        answer |-> NoInvoice]]
  /\ UNCHANGED <<minted, stored, upload, invoice>>

\* Answers with invoice i if there is one, and goes on at pc otherwise.
AnswerOr(r, candidates, pc) ==
  IF candidates = {}
    THEN GoOn(r, pc)
    ELSE \E i \in candidates :
           request' = [request EXCEPT ![r].pc = "answered", ![r].answer = i]

FindDuplicate(r) ==
  /\ Running(r, "create", "lookup")
  /\ AnswerOr(r, {i \in Produced(request[r].sub) : invoice[i].by = request[r].by}, "consume")
  /\ UNCHANGED <<minted, stored, upload, invoice>>

\* Another transaction has consumed upload f and not committed yet.
UploadInFlight(r, f) ==
  \E q \in Req \ {r} :
    request[q].kind = "create" /\ request[q].pc \in {"insert", "commit"} /\ request[q].file = f

\* First statement of the transaction: the upload row is claimed and locked, or
\* the transaction is rolled back.
ConsumeUpload(r) ==
  /\ Running(r, "create", "consume")
  /\ ~UploadInFlight(r, request[r].file)
  /\ GoOn(r, IF upload[request[r].file].consumed THEN "fallback" ELSE "insert")
  /\ UNCHANGED <<minted, stored, upload, invoice>>

\* Another transaction has inserted an invoice with form id s and not committed.
SubmissionInFlight(r, s) ==
  \E q \in Req \ {r} : Running(q, "create", "commit") /\ request[q].sub = s

\* Second statement: the unique index on the form id lets one insertion through.
InsertInvoice(r) ==
  /\ Running(r, "create", "insert")
  /\ ~SubmissionInFlight(r, request[r].sub)
  /\ GoOn(r, IF Produced(request[r].sub) # {} THEN "fallback" ELSE "commit")
  /\ UNCHANGED <<minted, stored, upload, invoice>>

CommitCreate(r) ==
  LET j == request[r] IN
  /\ Running(r, "create", "commit")
  /\ \E i \in InvoiceId \ DOMAIN invoice :
       /\ invoice' = Extend(invoice, i,
            [by |-> j.by, sub |-> j.sub, file |-> j.file, bound |-> j.file,
             status |-> "needs_review"])
       /\ request' = [request EXCEPT ![r].pc = "answered", ![r].answer = i]
  /\ upload' = [upload EXCEPT ![j.file].consumed = TRUE]
  /\ UNCHANGED <<minted, stored>>

\* Mutant: the loser of a race is given whatever the same document has become.
AnswerLoser_ByFile(r) ==
  /\ Running(r, "create", "fallback")
  /\ AnswerOr(r, {i \in DOMAIN invoice : invoice[i].bound = request[r].file}, "answered")
  /\ UNCHANGED <<minted, stored, upload, invoice>>

\* The transaction was rolled back: the winner's invoice is the answer.
AnswerLoser(r) ==
  /\ Running(r, "create", "fallback")
  /\ AnswerOr(r, Produced(request[r].sub), "answered")
  /\ UNCHANGED <<minted, stored, upload, invoice>>

Answered(r) ==
  /\ Running(r, "create", "answered")
  /\ EndRequest(r)
  /\ UNCHANGED <<minted, stored, upload, invoice>>

-----------------------------------------------------------------------------
(* replaceInvoiceFile, and saveAndResubmitInvoice with or without a file.  *)

BeginReplacement(r, kind, i, f) ==
  /\ request[r] = NoRequest
  /\ invoice[i].status = "needs_correction"
  /\ f # NoFile => f \notin minted
  /\ minted' = minted \cup ({f} \ {NoFile})
  /\ request' = [request EXCEPT ![r] =
       [pc |-> IF f = NoFile THEN "swap" ELSE "put", kind |-> kind, id |-> i,
        file |-> f, old |-> invoice[i].file, drop |-> NoFile]]
  /\ UNCHANGED <<stored, upload, invoice>>

BeginReplace(r, i)  == \E f \in File : BeginReplacement(r, "replace", i, f)
BeginResubmit(r, i) == \E f \in File \cup {NoFile} : BeginReplacement(r, "resubmit", i, f)

\* Mutant: the row is written without comparing the status, and on a changed
\* status the new document is deleted all the same.
SwapFile_NoCompare(r) ==
  LET j       == request[r]
      applies == invoice[j.id].status = "needs_correction"
  IN
  /\ j.kind \in {"replace", "resubmit"} /\ j.pc = "swap"
  /\ invoice' = [invoice EXCEPT
                   ![j.id].file = IF j.file # NoFile THEN j.file ELSE @,
                   ![j.id].status = IF j.kind = "resubmit" THEN "needs_review" ELSE @]
  /\ request' = [request EXCEPT ![r].pc = "drop",
                        ![r].drop = IF ~applies THEN j.file
                                    ELSE IF j.file # NoFile THEN j.old ELSE NoFile]
  /\ UNCHANGED <<minted, stored, upload>>

\* Compare-and-set on the status.  Whichever document loses is deleted next: the
\* old one of the snapshot, or the new one if the status has changed.
SwapFile(r) ==
  LET j       == request[r]
      applies == invoice[j.id].status = "needs_correction"
  IN
  /\ j.kind \in {"replace", "resubmit"} /\ j.pc = "swap"
  /\ invoice' = IF ~applies THEN invoice
                ELSE [invoice EXCEPT
                        ![j.id].file = IF j.file # NoFile THEN j.file ELSE @,
                        ![j.id].status = IF j.kind = "resubmit" THEN "needs_review" ELSE @]
  /\ request' = [request EXCEPT ![r].pc = "drop",
                        ![r].drop = IF ~applies THEN j.file
                                    ELSE IF j.file # NoFile THEN j.old ELSE NoFile]
  /\ UNCHANGED <<minted, stored, upload>>

\* Best effort: a failed deletion leaves an object nobody points to.
DropFile(r) ==
  /\ request[r].pc = "drop"
  /\ \/ stored' = stored \ {request[r].drop}
     \/ "storage" \in Faults /\ stored' = stored
  /\ EndRequest(r)
  /\ UNCHANGED <<minted, upload, invoice>>

\* An approver returns the invoice to its author (transitionInvoice).
SendBack(i) ==
  /\ invoice[i].status = "needs_review"
  /\ invoice' = [invoice EXCEPT ![i].status = "needs_correction"]
  /\ UNCHANGED <<minted, stored, upload, request>>

-----------------------------------------------------------------------------
CrashRequest(r) ==
  /\ "crash" \in Faults
  /\ request[r] # NoRequest
  /\ EndRequest(r)
  /\ UNCHANGED <<minted, stored, upload, invoice>>

Arrive(r) ==
  \/ \E c \in Caller : BeginUpload(r, c)
  \/ \E s \in Submission, f \in File : BeginCreate(r, s, f)
  \/ \E i \in DOMAIN invoice : BeginReplace(r, i) \/ BeginResubmit(r, i)

Proceed(r) ==
  \/ PutFile(r) \/ RecordUpload(r)
  \/ FindDuplicate(r) \/ ConsumeUpload(r) \/ InsertInvoice(r) \/ CommitCreate(r)
  \/ AnswerLoser(r) \/ Answered(r)
  \/ SwapFile(r) \/ DropFile(r)

IntakeNext ==
  \/ \E r \in Req : Arrive(r) \/ Proceed(r) \/ CrashRequest(r)
  \/ \E f \in File : Expire(f)
  \/ \E i \in DOMAIN invoice : SendBack(i)

IntakeSpec == IntakeInit /\ [][IntakeNext]_intakeVars

-----------------------------------------------------------------------------
(* What holds under every interleaving, failure and crash.                 *)

\* The document an invoice points to is in the storage: no replacement, however
\* it fails or races, deletes the document that is authoritative.
FileIsStored == \A i \in DOMAIN invoice : invoice[i].file \in stored

\* A form never produces two invoices, through double clicks and retries, and
\* the invoice it is answered with is the one it produced, whose first document
\* is the one its author uploaded.
OneInvoicePerForm ==
  /\ \A s \in Submission : Cardinality(Produced(s)) <= 1
  /\ \A r \in Req :
       request[r].kind = "create" /\ request[r].answer # NoInvoice
         => /\ invoice[request[r].answer].sub = request[r].sub
            /\ upload[invoice[request[r].answer].bound].by = request[r].by
=============================================================================
