----------------------- MODULE IntakeContours_proofs -----------------------
(***************************************************************************)
(* What comes in from outside: the documents of invoices, and the receipts *)
(* of the cash registers.                                                  *)
(*                                                                         *)
(* InvoiceIntake, for every number of requests, callers, forms and         *)
(* documents, under every failure: the document of an invoice is in the    *)
(* storage, and a form produces at most one invoice.  A document is at any *)
(* time new (one request is writing it and nothing mentions it), offered   *)
(* (an upload row not yet consumed), authoritative (an invoice points to   *)
(* it) or left over.  A request deletes only a document left over.         *)
(*                                                                         *)
(* FiscalContour, for every number of connections, registers, drives,      *)
(* receipts, cashiers and employees, and every set of requests: what pays  *)
(* was confirmed, a drive is read for one register, a receipt keeps its    *)
(* register, and a cashier's day counts for one employee.  The handlers    *)
(* are taken by what they work on; each of the four arguments then looks   *)
(* only at the handlers that write its rows.                               *)
(***************************************************************************)
EXTENDS FiscalContour, InvoiceIntake, FiniteSetTheorems, TLAPS
Editing(r) == request[r].kind \in {"replace", "resubmit"}

\* Request r writes document f, which no row mentions yet.
Makes(r, f) ==
  /\ request[r].kind = "upload" \/ (Editing(r) /\ request[r].pc \in {"put", "swap"})
  /\ request[r].file = f

\* Request r has read f as the document of invoice i and is to replace it.
Displaces(r, i, f) ==
  Editing(r) /\ request[r].pc \in {"put", "swap"} /\ request[r].id = i /\ request[r].old = f

\* Request r is about to delete f.
Discards(r, f) == Editing(r) /\ request[r].pc = "drop" /\ request[r].drop = f

\* No request has f to replace or to delete.
Undisturbed(f) ==
  \A q \in Req : ~Discards(q, f) /\ \A i \in InvoiceId : ~Displaces(q, i, f)

\* No invoice points to f.
Unused(f) == \A i \in DOMAIN invoice : invoice[i].file # f

\* Keys are generated before anything mentions them.
KeysAreMinted ==
  /\ stored \subseteq minted
  /\ DOMAIN upload \subseteq minted
  /\ \A r \in Req, f \in File :
       /\ Discards(r, f) => f \in minted
       /\ \A i \in InvoiceId : Displaces(r, i, f) => f \in minted

\* A new document belongs to one request, and is stored once it was put.
NewIsApart ==
  \A r \in Req, f \in File : Makes(r, f) =>
    /\ f \in minted \ DOMAIN upload
    /\ \A q \in Req : Makes(q, f) => q = r
    /\ Unused(f) /\ Undisturbed(f)
    /\ request[r].pc # "put" => f \in stored

\* An upload that can still be consumed has its document in the storage.
OfferedIsStored ==
  \A f \in DOMAIN upload : ~upload[f].consumed =>
    f \in stored /\ Unused(f) /\ Undisturbed(f)

\* Document f is stored, for invoice i alone, and is not being deleted.
IsDocumentOf(f, i) ==
  /\ f \in stored
  /\ \A k \in DOMAIN invoice : invoice[k].file = f => k = i
  /\ \A q \in Req : ~Discards(q, f) /\ \A k \in InvoiceId : Displaces(q, k, f) => k = i

\* The document of an invoice is its own.
AuthoritativeIsStored == \A i \in DOMAIN invoice : IsDocumentOf(invoice[i].file, i)

\* The creation of an invoice, from the check of its upload to its commit.
Creating(r) == request[r].kind = "create" /\ request[r].pc \in {"lookup", "consume", "insert", "commit"}

\* The creation r of form s with document f: past its first statement, the upload
\* is still free and r has it alone; past its second, so is the form.
ClaimHolds(r, f, s) ==
  /\ Creating(r) => f \in DOMAIN upload /\ upload[f].by = request[r].by
  /\ request[r].pc \in {"insert", "commit"} => ~upload[f].consumed /\ ~UploadInFlight(r, f)
  /\ request[r].pc = "commit" => Produced(s) = {} /\ ~SubmissionInFlight(r, s)

ClaimsHold == \A r \in Req : request[r].kind = "create" => ClaimHolds(r, request[r].file, request[r].sub)

\* A form is its opener's, and so is what it produced.
OwnersAgree ==
  /\ \A r \in Req : request[r].kind = "create" =>
       /\ request[r].by = Opener[request[r].sub]
       /\ request[r].answer # NoInvoice =>
            request[r].answer \in DOMAIN invoice /\ invoice[request[r].answer].sub = request[r].sub
  /\ \A i \in DOMAIN invoice :
       /\ invoice[i].bound \in DOMAIN upload
       /\ upload[invoice[i].bound].by = Opener[invoice[i].sub]

OnePerForm == \A i, k \in DOMAIN invoice : invoice[i].sub = invoice[k].sub => i = k

\* An edit is of an invoice there is, and stores a document only if it has one.
EditsAreGrounded ==
  \A r \in Req : Editing(r) =>
    /\ request[r].id \in DOMAIN invoice
    /\ request[r].pc = "put" => request[r].file # NoFile

FileInv == KeysAreMinted /\ NewIsApart /\ OfferedIsStored /\ AuthoritativeIsStored
FormInv == ClaimsHold /\ OwnersAgree /\ OnePerForm
IntakeInv    == TypeOK /\ EditsAreGrounded /\ FileInv /\ FormInv

-----------------------------------------------------------------------------
(* Type correctness.                                                       *)

\* A job is known by its kind.
LEMMA JobKinds ==
  ASSUME NEW j \in Job
  PROVE  /\ j.kind = "none" => j = NoRequest
         /\ j.kind = "upload" => j \in UploadJob
         /\ j.kind = "create" => j \in CreateJob
         /\ j.kind \in {"replace", "resubmit"} => j \in EditJob
         /\ j.kind \in {"none", "upload", "create", "replace", "resubmit"}
BY DEF Job, NoRequest, UploadJob, CreateJob, EditJob

\* A slot that is freed leaves the jobs well typed.
LEMMA FinishTyped ==
  ASSUME TypeOK, NEW r \in Req, EndRequest(r)
  PROVE  request' \in [Req -> Job]
BY DEF TypeOK, EndRequest, Job

\* A slot that takes a well typed job leaves the jobs well typed.
LEMMA TakeTyped ==
  ASSUME TypeOK, NEW r \in Req, NEW j \in Job, request' = [request EXCEPT ![r] = j]
  PROVE  request' \in [Req -> Job]
BY DEF TypeOK

\* A job that moves on stays a job of its handler.
LEMMA GotoTyped ==
  ASSUME TypeOK, NEW r \in Req, NEW pc, GoOn(r, pc),
         \/ (request[r] \in UploadJob /\ pc = "record")
         \/ /\ request[r] \in CreateJob
            /\ pc \in {"lookup", "consume", "insert", "commit", "fallback", "answered"}
         \/ (request[r] \in EditJob /\ pc = "swap")
  PROVE  request' \in [Req -> Job]
<1>1. [request[r] EXCEPT !.pc = pc] \in Job
  BY DEF UploadJob, CreateJob, EditJob, Job
<1>2. request' = [request EXCEPT ![r] = [request[r] EXCEPT !.pc = pc]]
  BY DEF GoOn, TypeOK
<1>3. QED
  BY <1>1, <1>2, TakeTyped

\* Two fields of a row written at once.
LEMMA TwoFields ==
  ASSUME NEW S, NEW f \in [S -> Invoice], NEW x \in S, NEW a, NEW b
  PROVE  [f EXCEPT ![x].file = a, ![x].status = b]
           = [f EXCEPT ![x] = [f[x] EXCEPT !.file = a, !.status = b]]
OBVIOUS

\* A step of a creation that answers, or moves on, leaves the jobs well typed.
LEMMA AnswerTyped ==
  ASSUME TypeOK, NEW r \in Req, request[r].kind = "create", NEW candidates,
         candidates \subseteq InvoiceId, NEW pc \in {"consume", "answered"},
         AnswerOr(r, candidates, pc)
  PROVE  request' \in [Req -> Job]
<1>1. request[r] \in CreateJob
  BY JobKinds DEF TypeOK
<1>2. CASE candidates = {}
  BY <1>1, <1>2, GotoTyped DEF AnswerOr
<1>3. CASE candidates # {}
  <2>1. PICK i \in candidates : request' = [request EXCEPT ![r].pc = "answered", ![r].answer = i]
    BY <1>3 DEF AnswerOr
  <2>2. [request[r] EXCEPT !.pc = "answered", !.answer = i] \in Job
    BY <1>1, <2>1 DEF CreateJob, Job
  <2>3. request' = [request EXCEPT ![r] = [request[r] EXCEPT !.pc = "answered", !.answer = i]]
    BY <2>1 DEF TypeOK
  <2>4. QED BY <2>2, <2>3, TakeTyped
<1>4. QED BY <1>2, <1>3

\* Every step of a handler leaves the state well typed.
LEMMA NextTyped ==
  ASSUME TypeOK, EditsAreGrounded, IntakeNext
  PROVE  TypeOK'
<1>1. ASSUME NEW r \in Req, NEW c \in Caller, BeginUpload(r, c)
      PROVE  TypeOK'
  <2>1. PICK f \in File \ minted :
          /\ minted' = minted \cup {f}
          /\ request' = [request EXCEPT ![r] = [pc |-> "put", kind |-> "upload", by |-> c, file |-> f]]
    BY <1>1 DEF BeginUpload
  <2>2. [pc |-> "put", kind |-> "upload", by |-> c, file |-> f] \in Job
    BY DEF Job, UploadJob
  <2>3. request' \in [Req -> Job]
    BY <2>1, <2>2, TakeTyped
  <2>4. UNCHANGED <<stored, upload, invoice>>
    BY <1>1 DEF BeginUpload
  <2>5. QED BY <2>1, <2>3, <2>4 DEF TypeOK
<1>2. ASSUME NEW r \in Req, PutFile(r)
      PROVE  TypeOK'
  <2>1. request[r] \in UploadJob \/ (request[r] \in EditJob /\ request[r].file \in File)
    <3>1. request[r].kind \in {"upload", "replace", "resubmit"}
      BY <1>2, JobKinds DEF TypeOK, PutFile, NoRequest, CreateJob
    <3>2. request[r] \in UploadJob \/ request[r] \in EditJob
      BY <3>1, JobKinds DEF TypeOK
    <3>3. request[r].kind # "upload" => request[r].file # NoFile
      <4>1. request[r].kind \in {"replace", "resubmit"} /\ request[r].pc = "put" => request[r].file # NoFile
        BY DEF EditsAreGrounded, Editing
      <4>2. request[r].pc = "put"
        BY <1>2 DEF PutFile
      <4>3. QED BY <3>1, <4>1, <4>2
    <3>4. request[r] \in UploadJob => request[r].kind = "upload"
      BY DEF UploadJob
    <3>5. request[r] \in EditJob => request[r].file \in File \cup {NoFile} /\ request[r].kind # "upload"
      BY DEF EditJob
    <3>6. QED BY <3>2, <3>3, <3>4, <3>5
  <2>2. request[r].file \in File
    BY <2>1 DEF UploadJob
  <2>3. request[r] \in UploadJob => request[r].kind = "upload"
    BY DEF UploadJob
  <2>4. request[r] \in EditJob => request[r].kind # "upload"
    BY DEF EditJob
  <2>5. request' \in [Req -> Job]
    BY <1>2, <2>1, <2>3, <2>4, FinishTyped, GotoTyped DEF PutFile
  <2>6. QED
    BY <1>2, <2>2, <2>5 DEF TypeOK, PutFile
<1>3. ASSUME NEW r \in Req, RecordUpload(r)
      PROVE  TypeOK'
  <2>1. request[r] \in UploadJob
    BY <1>3, JobKinds DEF TypeOK, RecordUpload, Running
  <2>2. [by |-> request[r].by, consumed |-> FALSE, expired |-> FALSE] \in Upload
    BY <2>1 DEF UploadJob, Upload
  <2>3. DOMAIN upload' \subseteq File /\ upload' \in [DOMAIN upload' -> Upload]
    BY <1>3, <2>1, <2>2 DEF TypeOK, RecordUpload, Extend, UploadJob
  <2>4. QED
    BY <1>3, <2>3, FinishTyped DEF TypeOK, RecordUpload
<1>4. ASSUME NEW f \in File, Expire(f)
      PROVE  TypeOK'
  BY <1>4 DEF TypeOK, Expire, Upload
<1>5. ASSUME NEW r \in Req, NEW s \in Submission, NEW f \in File, BeginCreate(r, s, f)
      PROVE  TypeOK'
  <2>1. \A pc \in {"lookup", "answered"} :
          [pc |-> pc, kind |-> "create", by |-> Opener[s], sub |-> s, file |-> f,
           answer |-> NoInvoice] \in Job
    BY OpenerAssumption DEF Job, CreateJob
  <2>2. request' \in [Req -> Job]
    BY <1>5, <2>1, TakeTyped DEF BeginCreate
  <2>3. QED BY <1>5, <2>2 DEF TypeOK, BeginCreate
<1>6. ASSUME NEW r \in Req,
             FindDuplicate(r) \/ ConsumeUpload(r) \/ InsertInvoice(r) \/ AnswerLoser(r)
      PROVE  TypeOK'
  <2>1. request[r] \in CreateJob /\ request[r].kind = "create"
    BY <1>6, JobKinds
    DEF TypeOK, FindDuplicate, ConsumeUpload, InsertInvoice, AnswerLoser, Running
  <2>2. Produced(request[r].sub) \subseteq InvoiceId
        /\ {i \in Produced(request[r].sub) : invoice[i].by = request[r].by} \subseteq InvoiceId
    BY DEF Produced, TypeOK
  <2>3. request' \in [Req -> Job]
    <3>1. CASE FindDuplicate(r) \/ AnswerLoser(r)
      BY <2>1, <2>2, <3>1, AnswerTyped DEF FindDuplicate, AnswerLoser
    <3>2. CASE ConsumeUpload(r) \/ InsertInvoice(r)
      BY <2>1, <3>2, GotoTyped DEF ConsumeUpload, InsertInvoice
    <3>3. QED BY <1>6, <3>1, <3>2
  <2>4. UNCHANGED <<minted, stored, upload, invoice>>
    BY <1>6 DEF FindDuplicate, ConsumeUpload, InsertInvoice, AnswerLoser
  <2>5. QED BY <2>3, <2>4 DEF TypeOK
<1>7. ASSUME NEW r \in Req, CommitCreate(r)
      PROVE  TypeOK'
  <2>1. request[r] \in CreateJob
    BY <1>7, JobKinds DEF TypeOK, CommitCreate, Running
  <2>2. PICK i \in InvoiceId \ DOMAIN invoice :
          /\ invoice' = Extend(invoice, i,
               [by |-> request[r].by, sub |-> request[r].sub, file |-> request[r].file,
                bound |-> request[r].file, status |-> "needs_review"])
          /\ request' = [request EXCEPT ![r].pc = "answered", ![r].answer = i]
    BY <1>7 DEF CommitCreate
  <2>3. [request[r] EXCEPT !.pc = "answered", !.answer = i] \in Job
    BY <2>1 DEF CreateJob, Job
  <2>4. request' = [request EXCEPT ![r] = [request[r] EXCEPT !.pc = "answered", !.answer = i]]
    BY <2>2 DEF TypeOK
  <2>5. [by |-> request[r].by, sub |-> request[r].sub, file |-> request[r].file,
         bound |-> request[r].file, status |-> "needs_review"] \in Invoice
    BY <2>1 DEF CreateJob, Invoice
  <2>6. DOMAIN invoice' \subseteq InvoiceId /\ invoice' \in [DOMAIN invoice' -> Invoice]
    BY <2>2, <2>5 DEF TypeOK, Extend
  <2>7. DOMAIN upload' \subseteq File /\ upload' \in [DOMAIN upload' -> Upload]
    BY <1>7 DEF TypeOK, CommitCreate, Upload
  <2>8. QED BY <1>7, <2>3, <2>4, <2>6, <2>7, TakeTyped DEF TypeOK, CommitCreate
<1>8. ASSUME NEW r \in Req, NEW i \in DOMAIN invoice, NEW f \in File \cup {NoFile},
             NEW kind \in {"replace", "resubmit"}, BeginReplacement(r, kind, i, f)
      PROVE  TypeOK'
  <2>1. \A pc \in {"put", "swap"} :
          [pc |-> pc, kind |-> kind, id |-> i, file |-> f,
           old |-> invoice[i].file, drop |-> NoFile] \in Job
    BY DEF TypeOK, Invoice, Job, EditJob
  <2>2. request' \in [Req -> Job]
    BY <1>8, <2>1, TakeTyped DEF BeginReplacement
  <2>3. QED BY <1>8, <2>2 DEF TypeOK, BeginReplacement
<1>9. ASSUME NEW r \in Req, SwapFile(r)
      PROVE  TypeOK'
  <2> DEFINE d == IF ~(invoice[request[r].id].status = "needs_correction") THEN request[r].file
                  ELSE IF request[r].file # NoFile THEN request[r].old ELSE NoFile
  <2>1. request[r] \in EditJob
    BY <1>9, JobKinds DEF TypeOK, SwapFile
  <2>2. request' = [request EXCEPT ![r] = [request[r] EXCEPT !.pc = "drop", !.drop = d]]
    BY <1>9 DEF TypeOK, SwapFile
  <2>3. d \in File \cup {NoFile}
    BY <2>1 DEF EditJob
  <2>4. [request[r] EXCEPT !.pc = "drop", !.drop = d] \in Job
    <3> HIDE DEF d
    <3> QED BY <2>1, <2>3 DEF EditJob, Job
  <2>5. request' \in [Req -> Job]
    BY <2>2, <2>4, TakeTyped
  <2>6. DOMAIN invoice' = DOMAIN invoice /\ invoice' \in [DOMAIN invoice -> Invoice]
    <3>1. CASE invoice' = invoice
      BY <3>1 DEF TypeOK
    <3>2. CASE invoice' # invoice
      <4> DEFINE i   == request[r].id
                 row == [invoice[i] EXCEPT
                           !.file = IF request[r].file # NoFile THEN request[r].file ELSE @,
                           !.status = IF request[r].kind = "resubmit" THEN "needs_review" ELSE @]
      <4>1. invoice \in [DOMAIN invoice -> Invoice] /\ i \in DOMAIN invoice
        BY <1>9 DEF TypeOK, SwapFile, EditsAreGrounded, Editing
      <4>2. invoice' = [invoice EXCEPT ![i] = row]
        BY <1>9, <3>2, <4>1, TwoFields DEF SwapFile
      <4>3. row \in Invoice
        <5> DEFINE a == IF request[r].file # NoFile THEN request[r].file ELSE invoice[i].file
                   b == IF request[r].kind = "resubmit" THEN "needs_review" ELSE invoice[i].status
        <5>1. invoice[i] \in Invoice
          BY <4>1
        <5>2. a \in File /\ b \in {"needs_review", "needs_correction"}
          BY <2>1, <5>1 DEF EditJob, Invoice
        <5>3. row = [invoice[i] EXCEPT !.file = a, !.status = b]
          OBVIOUS
        <5> HIDE DEF a, b, row
        <5>4. QED BY <5>1, <5>2, <5>3 DEF Invoice
      <4> HIDE DEF row, i
      <4>4. QED BY <4>1, <4>2, <4>3
    <3>3. QED BY <3>1, <3>2
  <2>7. QED BY <1>9, <2>5, <2>6 DEF TypeOK, SwapFile
<1>10. ASSUME NEW r \in Req, DropFile(r) \/ Answered(r) \/ CrashRequest(r)
       PROVE  TypeOK'
  <2>1. request' \in [Req -> Job] /\ stored' \subseteq stored
        /\ UNCHANGED <<minted, upload, invoice>>
    BY <1>10, FinishTyped DEF DropFile, Answered, CrashRequest
  <2>2. QED BY <2>1 DEF TypeOK
<1>11. ASSUME NEW i \in DOMAIN invoice, SendBack(i)
       PROVE  TypeOK'
  BY <1>11 DEF TypeOK, SendBack, Invoice
<1>12. ASSUME NEW r \in Req, NEW i \in DOMAIN invoice, BeginReplace(r, i) \/ BeginResubmit(r, i)
       PROVE  TypeOK'
  BY <1>8, <1>12 DEF BeginReplace, BeginResubmit
<1>13. QED
  BY <1>1, <1>2, <1>3, <1>4, <1>5, <1>6, <1>7, <1>9, <1>10, <1>11, <1>12
  DEF IntakeNext, Arrive, Proceed

-----------------------------------------------------------------------------
(* Documents.                                                              *)

\* A step keeps what request q is doing to documents.
KeepsRoles(q) ==
  /\ request'[q] = request[q]
  /\ \A f : Makes(q, f)' <=> Makes(q, f)
  /\ \A f : Discards(q, f)' <=> Discards(q, f)
  /\ \A f, i : Displaces(q, i, f)' <=> Displaces(q, i, f)

\* A step of one request keeps what the others are doing.
LEMMA OthersKeepRoles ==
  ASSUME TypeOK, NEW r \in Req, NEW j, request' = [request EXCEPT ![r] = j]
  PROVE  request'[r] = j /\ \A q \in Req \ {r} : KeepsRoles(q)
<1>1. request'[r] = j /\ \A q \in Req \ {r} : request'[q] = request[q]
  BY DEF TypeOK
<1>2. QED
  BY <1>1 DEF KeepsRoles, Makes, Discards, Displaces, Editing

\* A request that moves to another step of its handler has done the same to the others.
LEMMA GotoIsStep ==
  ASSUME TypeOK, NEW r \in Req, NEW pc, GoOn(r, pc)
  PROVE  request' = [request EXCEPT ![r] = [request[r] EXCEPT !.pc = pc]]
BY DEF TypeOK, GoOn

\* If no row changes and nobody takes on a document, every document keeps its place.
LEMMA FilesFrame ==
  ASSUME TypeOK, FileInv, UNCHANGED <<minted, upload, invoice>>,
         stored \subseteq stored', stored' \subseteq minted,
         \A q \in Req, f \in File :
           /\ Makes(q, f)' => Makes(q, f) /\ (request'[q].pc # "put" => f \in stored')
           /\ Discards(q, f)' => Discards(q, f)
           /\ \A i \in InvoiceId : Displaces(q, i, f)' => Displaces(q, i, f)
  PROVE  FileInv'
<1>1. KeysAreMinted'
  BY DEF FileInv, KeysAreMinted
<1>2. \A f : (Unused(f)' <=> Unused(f))
  BY DEF Unused
<1>3. \A f \in File : Undisturbed(f) => Undisturbed(f)'
  BY DEF Undisturbed
<1>4. NewIsApart'
  BY <1>2, <1>3 DEF FileInv, NewIsApart
<1>5. OfferedIsStored'
  BY <1>2, <1>3 DEF FileInv, OfferedIsStored, TypeOK
<1>6. AuthoritativeIsStored'
  <2>1. \A i \in DOMAIN invoice : invoice[i].file \in File
    BY DEF TypeOK, Invoice
  <2>2. QED BY <2>1 DEF FileInv, AuthoritativeIsStored, IsDocumentOf
<1>7. QED BY <1>1, <1>4, <1>5, <1>6 DEF FileInv

\* A request that ends, by itself or by a crash, leaves its document where it is.
LEMMA FinishKeepsFiles ==
  ASSUME TypeOK, FileInv, NEW r \in Req, EndRequest(r), UNCHANGED <<minted, upload, invoice>>,
         stored' = stored
  PROVE  FileInv'
<1>1. \A q \in Req, f \in File :
        /\ Makes(q, f)' => Makes(q, f) /\ request'[q].pc = request[q].pc
        /\ Discards(q, f)' => Discards(q, f)
        /\ \A i \in InvoiceId : Displaces(q, i, f)' => Displaces(q, i, f)
  <2>1. request'[r] = NoRequest
    BY OthersKeepRoles DEF EndRequest
  <2>2. \A f, i : ~Makes(r, f)' /\ ~Discards(r, f)' /\ ~Displaces(r, i, f)'
    BY <2>1 DEF Makes, Discards, Displaces, Editing, NoRequest
  <2>3. \A q \in Req \ {r} : KeepsRoles(q)
    BY OthersKeepRoles DEF EndRequest
  <2>4. ASSUME NEW q \in Req, q # r, NEW f \in File
        PROVE  /\ Makes(q, f)' => Makes(q, f) /\ request'[q].pc = request[q].pc
               /\ Discards(q, f)' => Discards(q, f)
               /\ \A i \in InvoiceId : Displaces(q, i, f)' => Displaces(q, i, f)
    BY <2>3, <2>4 DEF KeepsRoles
  <2>5. QED BY <2>2, <2>4
<1>2. \A q \in Req, f \in File : Makes(q, f) /\ request[q].pc # "put" => f \in stored
  BY DEF FileInv, NewIsApart
<1>3. stored \subseteq minted
  BY DEF FileInv, KeysAreMinted
<1>4. QED BY <1>1, <1>2, <1>3, FilesFrame

\* Nor does a creation move a document before it commits.
LEMMA CreateKeepsFiles ==
  ASSUME TypeOK, FileInv, NEW r \in Req, NEW j, j.kind = "create",
         request' = [request EXCEPT ![r] = j],
         UNCHANGED <<minted, stored, upload, invoice>>
  PROVE  FileInv'
<1>1. \A q \in Req, f \in File :
        /\ Makes(q, f)' => Makes(q, f) /\ request'[q].pc = request[q].pc
        /\ Discards(q, f)' => Discards(q, f)
        /\ \A i \in InvoiceId : Displaces(q, i, f)' => Displaces(q, i, f)
  <2>1. request'[r] = j
    BY OthersKeepRoles
  <2>2. \A f, i : ~Makes(r, f)' /\ ~Discards(r, f)' /\ ~Displaces(r, i, f)'
    BY <2>1 DEF Makes, Discards, Displaces, Editing
  <2>3. \A q \in Req \ {r} : KeepsRoles(q)
    BY OthersKeepRoles
  <2>4. ASSUME NEW q \in Req, q # r, NEW f \in File
        PROVE  /\ Makes(q, f)' => Makes(q, f) /\ request'[q].pc = request[q].pc
               /\ Discards(q, f)' => Discards(q, f)
               /\ \A i \in InvoiceId : Displaces(q, i, f)' => Displaces(q, i, f)
    BY <2>3, <2>4 DEF KeepsRoles
  <2>5. QED BY <2>2, <2>4
<1>2. \A q \in Req, f \in File : Makes(q, f) /\ request[q].pc # "put" => f \in stored
  BY DEF FileInv, NewIsApart
<1>3. stored \subseteq minted
  BY DEF FileInv, KeysAreMinted
<1>4. QED BY <1>1, <1>2, <1>3, FilesFrame

\* A generated key is one that nothing mentions.
LEMMA MintedIsNew ==
  ASSUME TypeOK, FileInv, NEW f \in File \ minted
  PROVE  /\ f \notin stored /\ f \notin DOMAIN upload
         /\ Unused(f) /\ Undisturbed(f)
         /\ \A q \in Req : ~Makes(q, f)
<1>1. Unused(f)
  BY DEF FileInv, KeysAreMinted, AuthoritativeIsStored, IsDocumentOf, Unused
<1>2. QED
  BY <1>1 DEF FileInv, KeysAreMinted, NewIsApart, Undisturbed

\* A document that begins to be made is apart from every other.
LEMMA BeginUploadKeepsFiles ==
  ASSUME TypeOK, FileInv, NEW r \in Req, NEW c \in Caller, BeginUpload(r, c)
  PROVE  FileInv'
<1>1. PICK f \in File \ minted :
        /\ minted' = minted \cup {f}
        /\ request' = [request EXCEPT ![r] = [pc |-> "put", kind |-> "upload", by |-> c, file |-> f]]
  BY DEF BeginUpload
<1>2. UNCHANGED <<stored, upload, invoice>>
  BY DEF BeginUpload
<1>3. /\ request'[r] = [pc |-> "put", kind |-> "upload", by |-> c, file |-> f]
      /\ \A q \in Req \ {r} : KeepsRoles(q)
  BY <1>1, OthersKeepRoles
<1>4. \A g : /\ Makes(r, g)' <=> g = f
             /\ ~Discards(r, g)'
             /\ \A i : ~Displaces(r, i, g)'
  BY <1>3 DEF Makes, Discards, Displaces, Editing
<1>5. \A g : Unused(g)' <=> Unused(g)
  BY <1>2 DEF Unused
<1>6. \A g : Undisturbed(g) => Undisturbed(g)'
  BY <1>3, <1>4 DEF Undisturbed, KeepsRoles
<1>7. KeysAreMinted'
  BY <1>1, <1>2, <1>3, <1>4 DEF FileInv, KeysAreMinted, KeepsRoles
<1>8. NewIsApart'
  <2>1. /\ f \notin DOMAIN upload /\ Unused(f) /\ Undisturbed(f)
        /\ \A q \in Req : ~Makes(q, f)
    BY MintedIsNew
  <2>2. ASSUME NEW q \in Req, NEW g \in File, Makes(q, g)'
        PROVE  /\ g \in (minted \ DOMAIN upload)'
               /\ \A p \in Req : Makes(p, g)' => p = q
               /\ Unused(g)' /\ Undisturbed(g)'
               /\ request'[q].pc # "put" => g \in stored'
    <3>1. CASE q = r
      <4>1. g = f /\ request'[r].pc = "put"
        BY <1>3, <1>4, <2>2, <3>1
      <4>2. \A p \in Req : Makes(p, f)' => p = r
        BY <1>3, <2>1 DEF KeepsRoles
      <4>3. QED BY <1>1, <1>2, <1>5, <1>6, <2>1, <3>1, <4>1, <4>2
    <3>2. CASE q # r
      <4>1. Makes(q, g) /\ g # f
        BY <1>3, <2>1, <2>2, <3>2 DEF KeepsRoles
      <4>2. /\ g \in minted \ DOMAIN upload
            /\ \A p \in Req : Makes(p, g) => p = q
            /\ Unused(g) /\ Undisturbed(g)
            /\ request[q].pc # "put" => g \in stored
        BY <4>1 DEF FileInv, NewIsApart
      <4>3. QED
          BY <1>1, <1>2, <1>3, <1>4, <1>5, <1>6, <3>2, <4>1, <4>2 DEF KeepsRoles
    <3>3. QED BY <3>1, <3>2
  <2>3. QED BY <2>2 DEF NewIsApart
<1>9. OfferedIsStored'
  BY <1>2, <1>5, <1>6 DEF FileInv, OfferedIsStored
<1>10. AuthoritativeIsStored'
  <2>1. \A q \in Req : \A g : /\ Discards(q, g)' => Discards(q, g)
                          /\ \A i : Displaces(q, i, g)' => Displaces(q, i, g)
    BY <1>3, <1>4 DEF KeepsRoles
  <2>2. QED BY <1>2, <2>1 DEF FileInv, AuthoritativeIsStored, IsDocumentOf
<1>11. QED BY <1>7, <1>8, <1>9, <1>10 DEF FileInv

\* A document that was stored keeps its place.
LEMMA PutKeepsFiles ==
  ASSUME TypeOK, FileInv, EditsAreGrounded, NEW r \in Req, PutFile(r)
  PROVE  FileInv'
<1>1. CASE stored' = stored /\ EndRequest(r)
  BY <1>1, FinishKeepsFiles DEF PutFile
<1>2. CASE /\ stored' = stored \cup {request[r].file}
           /\ GoOn(r, IF request[r].kind = "upload" THEN "record" ELSE "swap")
  <2> DEFINE pc == IF request[r].kind = "upload" THEN "record" ELSE "swap"
  <2>1. /\ request[r].pc = "put" /\ UNCHANGED <<minted, upload, invoice>>
        /\ request' = [request EXCEPT ![r] = [request[r] EXCEPT !.pc = pc]]
    BY <1>2, GotoIsStep DEF PutFile
  <2>2. request[r] \in UploadJob \/ request[r] \in EditJob
    BY <2>1, JobKinds DEF TypeOK, NoRequest, CreateJob
  <2>3. Makes(r, request[r].file) /\ request[r].file \in File
    <3>1. CASE request[r] \in UploadJob
      BY <3>1 DEF Makes, UploadJob
    <3>2. CASE request[r] \in EditJob
      BY <2>1, <3>2 DEF Makes, EditJob, EditsAreGrounded, Editing
    <3>3. QED BY <2>2, <3>1, <3>2
  <2>4. request[r].file \in minted
    BY <2>3 DEF FileInv, NewIsApart
  <2>5. request'[r] = [request[r] EXCEPT !.pc = pc] /\ \A q \in Req \ {r} : KeepsRoles(q)
    BY <2>1, OthersKeepRoles
  <2>6. /\ request'[r].kind = request[r].kind /\ request'[r].file = request[r].file
        /\ request'[r].pc \in {"record", "swap"}
    BY <2>2, <2>5 DEF UploadJob, EditJob
  <2>7. \A f : /\ Makes(r, f)' => f = request[r].file
               /\ ~Discards(r, f)'
    BY <2>6 DEF Makes, Discards
  <2>8. \A f, i : Displaces(r, i, f)' => Displaces(r, i, f)
    BY <2>1, <2>2, <2>5 DEF Displaces, Editing, UploadJob, EditJob
  <2>9. \A q \in Req, f \in File :
          /\ Makes(q, f)' => Makes(q, f) /\ (request'[q].pc # "put" => f \in stored')
          /\ Discards(q, f)' => Discards(q, f)
          /\ \A i \in InvoiceId : Displaces(q, i, f)' => Displaces(q, i, f)
    <3>1. TAKE q \in Req, f \in File
    <3>2. CASE q = r
      BY <1>2, <2>3, <2>7, <2>8, <3>2
    <3>3. CASE q # r
      BY <1>2, <2>5, <3>3 DEF KeepsRoles, FileInv, NewIsApart
    <3>4. QED BY <3>2, <3>3
  <2>10. stored \subseteq stored' /\ stored' \subseteq minted
    BY <1>2, <2>4 DEF FileInv, KeysAreMinted
  <2>11. QED BY <2>1, <2>9, <2>10, FilesFrame
<1>3. QED
  BY <1>1, <1>2 DEF PutFile

\* What a new document becomes: an upload on offer.
LEMMA RecordKeepsFiles ==
  ASSUME TypeOK, FileInv, NEW r \in Req, RecordUpload(r)
  PROVE  FileInv'
<1>1. CASE upload' = upload
  BY <1>1, FinishKeepsFiles DEF RecordUpload
<1>2. CASE upload' = Extend(upload, request[r].file,
                            [by |-> request[r].by, consumed |-> FALSE, expired |-> FALSE])
  <2> DEFINE g == request[r].file
  <2>1. Makes(r, g) /\ request[r].pc = "record" /\ g \in File
    BY JobKinds DEF RecordUpload, Running, Makes, TypeOK, UploadJob
  <2>2. /\ g \in minted \ DOMAIN upload /\ g \in stored
        /\ \A q \in Req : Makes(q, g) => q = r
        /\ Unused(g) /\ Undisturbed(g)
    BY <2>1 DEF FileInv, NewIsApart
  <2>3. /\ DOMAIN upload' = DOMAIN upload \cup {g}
        /\ \A f \in DOMAIN upload : upload'[f] = upload[f]
    BY <1>2, <2>2 DEF Extend
  <2>4. request'[r] = NoRequest /\ \A q \in Req \ {r} : KeepsRoles(q)
    BY OthersKeepRoles DEF RecordUpload, EndRequest
  <2>5. \A f, i : ~Makes(r, f)' /\ ~Discards(r, f)' /\ ~Displaces(r, i, f)'
    BY <2>4 DEF Makes, Discards, Displaces, Editing, NoRequest
  <2>6. UNCHANGED <<minted, stored, invoice>>
    BY DEF RecordUpload
  <2>7. \A f : Unused(f)' <=> Unused(f)
    BY <2>6 DEF Unused
  <2>8. \A f : Undisturbed(f) => Undisturbed(f)'
    BY <2>4, <2>5 DEF Undisturbed, KeepsRoles
  <2>9. KeysAreMinted'
    BY <2>2, <2>3, <2>4, <2>5, <2>6 DEF FileInv, KeysAreMinted, KeepsRoles
  <2>10. NewIsApart'
    <3>1. ASSUME NEW q \in Req, NEW f \in File, Makes(q, f)'
          PROVE  q # r /\ Makes(q, f) /\ f # g /\ request'[q] = request[q]
      BY <2>2, <2>4, <2>5, <3>1 DEF KeepsRoles
    <3>2. QED BY <2>3, <2>6, <2>7, <2>8, <3>1 DEF FileInv, NewIsApart
  <2>11. OfferedIsStored'
    BY <2>2, <2>3, <2>6, <2>7, <2>8 DEF FileInv, OfferedIsStored
  <2>12. AuthoritativeIsStored'
    <3>1. \A q \in Req : \A f : /\ Discards(q, f)' => Discards(q, f)
                            /\ \A i : Displaces(q, i, f)' => Displaces(q, i, f)
      BY <2>4, <2>5 DEF KeepsRoles
    <3>2. QED BY <2>6, <3>1 DEF FileInv, AuthoritativeIsStored, IsDocumentOf
  <2>13. QED BY <2>9, <2>10, <2>11, <2>12 DEF FileInv
<1>3. QED
  BY <1>1, <1>2 DEF RecordUpload

\* The expiry of an upload and the return of an invoice move no document.
LEMMA OutsideKeepsFiles ==
  ASSUME TypeOK, FileInv,
         \/ \E f \in File : Expire(f)
         \/ \E i \in DOMAIN invoice : SendBack(i)
  PROVE  FileInv'
<1>1. /\ UNCHANGED <<minted, stored, request>>
      /\ DOMAIN upload' = DOMAIN upload
      /\ \A f \in DOMAIN upload : upload'[f].consumed = upload[f].consumed
      /\ DOMAIN invoice' = DOMAIN invoice
      /\ \A i \in DOMAIN invoice : invoice'[i].file = invoice[i].file
  BY DEF Expire, SendBack, TypeOK, Upload, Invoice
<1>2. \A f : Unused(f)' <=> Unused(f)
  BY <1>1 DEF Unused
<1>3. \A q \in Req : KeepsRoles(q)
  BY <1>1 DEF KeepsRoles, Makes, Discards, Displaces, Editing
<1>4. \A f : Undisturbed(f)' <=> Undisturbed(f)
  BY <1>3 DEF Undisturbed, KeepsRoles
<1>5. KeysAreMinted'
  BY <1>1, <1>3 DEF FileInv, KeysAreMinted, KeepsRoles
<1>6. NewIsApart'
  BY <1>1, <1>2, <1>3, <1>4 DEF FileInv, NewIsApart, KeepsRoles
<1>7. OfferedIsStored'
  BY <1>1, <1>2, <1>4 DEF FileInv, OfferedIsStored
<1>8. AuthoritativeIsStored'
  BY <1>1, <1>3 DEF FileInv, AuthoritativeIsStored, IsDocumentOf, KeepsRoles
<1>9. QED BY <1>5, <1>6, <1>7, <1>8 DEF FileInv

\* An offered document becomes an invoice's: the upload was still free at the commit.
LEMMA CommitKeepsFiles ==
  ASSUME TypeOK, FileInv, ClaimsHold, NEW r \in Req, CommitCreate(r)
  PROVE  FileInv'
<1>0. PICK g : g = request[r].file
  OBVIOUS
<1>1. /\ request[r] \in CreateJob /\ request[r].kind = "create" /\ request[r].pc = "commit"
      /\ UNCHANGED <<minted, stored>>
      /\ upload' = [upload EXCEPT ![g].consumed = TRUE]
  BY <1>0, JobKinds DEF TypeOK, CommitCreate, Running
<1>2. PICK i \in InvoiceId \ DOMAIN invoice :
        /\ invoice' = Extend(invoice, i,
             [by |-> request[r].by, sub |-> request[r].sub, file |-> g, bound |-> g,
              status |-> "needs_review"])
        /\ request' = [request EXCEPT ![r].pc = "answered", ![r].answer = i]
  BY <1>0 DEF CommitCreate
<1>3. g \in DOMAIN upload /\ ~upload[g].consumed /\ g \in File
  BY <1>0, <1>1 DEF ClaimsHold, ClaimHolds, Creating, TypeOK
<1>4. g \in stored /\ Unused(g) /\ Undisturbed(g)
  BY <1>3 DEF FileInv, OfferedIsStored
<1>5. \A q \in Req : ~Makes(q, g)
  BY <1>3 DEF FileInv, NewIsApart
<1>6. /\ DOMAIN upload' = DOMAIN upload /\ upload'[g].consumed
      /\ \A f \in DOMAIN upload : f # g => upload'[f] = upload[f]
  BY <1>1, <1>3 DEF TypeOK, Upload
<1>7. /\ DOMAIN invoice' = DOMAIN invoice \cup {i} /\ invoice'[i].file = g
      /\ \A k \in DOMAIN invoice : invoice'[k] = invoice[k]
  BY <1>2 DEF Extend
<1>8. /\ request'[r].kind = "create"
      /\ \A q \in Req \ {r} : KeepsRoles(q)
  <2>1. request' = [request EXCEPT ![r] = [request[r] EXCEPT !.pc = "answered", !.answer = i]]
    BY <1>2 DEF TypeOK
  <2>2. request'[r] = [request[r] EXCEPT !.pc = "answered", !.answer = i]
        /\ \A q \in Req \ {r} : KeepsRoles(q)
    BY <2>1, OthersKeepRoles
  <2>3. QED BY <1>1, <2>2 DEF CreateJob
<1>9. \A f, k : ~Makes(r, f)' /\ ~Discards(r, f)' /\ ~Displaces(r, k, f)'
  BY <1>8 DEF Makes, Discards, Displaces, Editing
<1>10. \A f : Undisturbed(f) => Undisturbed(f)'
  BY <1>8, <1>9 DEF Undisturbed, KeepsRoles
<1>11. \A f : Unused(f) /\ f # g => Unused(f)'
  BY <1>7 DEF Unused
<1>12. KeysAreMinted'
  BY <1>1, <1>6, <1>8, <1>9 DEF FileInv, KeysAreMinted, KeepsRoles
<1>13. NewIsApart'
  <2>1. ASSUME NEW q \in Req, NEW f \in File, Makes(q, f)'
        PROVE  q # r /\ Makes(q, f) /\ f # g /\ request'[q] = request[q]
    BY <1>5, <1>8, <1>9, <2>1 DEF KeepsRoles
  <2>2. QED BY <1>1, <1>6, <1>10, <1>11, <2>1 DEF FileInv, NewIsApart
<1>14. OfferedIsStored'
  <2>1. ASSUME NEW f \in DOMAIN upload', ~upload'[f].consumed
        PROVE  f \in DOMAIN upload /\ ~upload[f].consumed /\ f # g
    BY <1>6, <2>1
  <2>2. QED BY <1>1, <1>10, <1>11, <2>1 DEF FileInv, OfferedIsStored
<1>15. AuthoritativeIsStored'
  <2>1. \A q \in Req : \A f : /\ Discards(q, f)' => Discards(q, f)
                          /\ \A k : Displaces(q, k, f)' => Displaces(q, k, f)
    BY <1>8, <1>9 DEF KeepsRoles
  <2>2. ASSUME NEW k \in DOMAIN invoice, NEW f, f = invoice[k].file
        PROVE  invoice'[k].file = f /\ IsDocumentOf(f, k)'
    <3>1. f # g /\ invoice'[k] = invoice[k]
      BY <1>4, <1>7, <2>2 DEF Unused
    <3>2. IsDocumentOf(f, k)
      BY <2>2 DEF FileInv, AuthoritativeIsStored
    <3>3. QED BY <1>1, <1>7, <2>1, <2>2, <3>1, <3>2 DEF IsDocumentOf
  <2>3. IsDocumentOf(g, i)'
    <3>1. \A m \in DOMAIN invoice' : invoice'[m].file = g => m = i
      BY <1>4, <1>7 DEF Unused
    <3>2. \A q \in Req : ~Discards(q, g)' /\ \A m \in InvoiceId : ~Displaces(q, m, g)'
      BY <1>4, <2>1 DEF Undisturbed
    <3>3. g \in stored'
      BY <1>1, <1>4
    <3>4. QED BY <3>1, <3>2, <3>3 DEF IsDocumentOf
  <2>4. QED BY <1>7, <2>2, <2>3 DEF AuthoritativeIsStored, IsDocumentOf
<1>16. QED BY <1>12, <1>13, <1>14, <1>15 DEF FileInv

\* An edit takes on a new document, or none, and the one it is to replace.
LEMMA BeginEditKeepsFiles ==
  ASSUME TypeOK, FileInv, NEW r \in Req, NEW i \in DOMAIN invoice,
         NEW d \in File \cup {NoFile}, NEW kind \in {"replace", "resubmit"},
         BeginReplacement(r, kind, i, d)
  PROVE  FileInv'
<1>1. PICK old : old = invoice[i].file
  OBVIOUS
<1>2. /\ UNCHANGED <<stored, upload, invoice>>
      /\ minted' = minted \cup ({d} \ {NoFile})
      /\ d # NoFile => d \in File \ minted
  BY DEF BeginReplacement
<1>3. PICK pc \in {"put", "swap"} :
        /\ pc = IF d = NoFile THEN "swap" ELSE "put"
        /\ request' = [request EXCEPT ![r] =
             [pc |-> pc, kind |-> kind, id |-> i, file |-> d, old |-> old, drop |-> NoFile]]
  BY <1>1 DEF BeginReplacement
<1>4. /\ request'[r] = [pc |-> pc, kind |-> kind, id |-> i, file |-> d, old |-> old, drop |-> NoFile]
      /\ \A q \in Req \ {r} : KeepsRoles(q)
  BY <1>3, OthersKeepRoles
<1>5. /\ \A f : Makes(r, f)' => f = d
      /\ \A f : ~Discards(r, f)'
      /\ \A f, k : Displaces(r, k, f)' => k = i /\ f = old
  BY <1>4 DEF Makes, Discards, Displaces, Editing
<1>6. IsDocumentOf(old, i)
  BY <1>1 DEF FileInv, AuthoritativeIsStored
<1>7. \A f : Unused(f)' <=> Unused(f)
  BY <1>2 DEF Unused
<1>8. \A f : Unused(f) => f # old
  BY <1>1 DEF Unused
<1>9. \A f : Unused(f) /\ Undisturbed(f) => Undisturbed(f)'
  BY <1>4, <1>5, <1>8 DEF Undisturbed, KeepsRoles
<1>10. old \in minted
  BY <1>6 DEF IsDocumentOf, FileInv, KeysAreMinted
<1>11. KeysAreMinted'
  BY <1>2, <1>4, <1>5, <1>10 DEF FileInv, KeysAreMinted, KeepsRoles
<1>12. NewIsApart'
  <2>1. ASSUME NEW q \in Req, NEW f \in File, Makes(q, f)'
        PROVE  /\ f \in (minted \ DOMAIN upload)'
               /\ \A p \in Req : Makes(p, f)' => p = q
               /\ Unused(f)' /\ Undisturbed(f)'
               /\ request'[q].pc # "put" => f \in stored'
    <3>1. CASE q = r
      <4>1. f = d /\ f \in File \ minted /\ request'[r].pc = "put"
        BY <1>2, <1>3, <1>4, <1>5, <2>1, <3>1, DocumentsAssumption
      <4>2. f \notin DOMAIN upload /\ Unused(f) /\ Undisturbed(f) /\ \A p \in Req : ~Makes(p, f)
        BY <4>1, MintedIsNew
      <4>3. \A p \in Req : Makes(p, f)' => p = r
        BY <1>4, <4>2 DEF KeepsRoles
      <4>4. QED BY <1>2, <1>7, <1>9, <3>1, <4>1, <4>2, <4>3, DocumentsAssumption
    <3>2. CASE q # r
      <4>1. Makes(q, f) /\ request'[q] = request[q]
        BY <1>4, <2>1, <3>2 DEF KeepsRoles
      <4>2. /\ f \in minted \ DOMAIN upload
            /\ \A p \in Req : Makes(p, f) => p = q
            /\ Unused(f) /\ Undisturbed(f)
            /\ request[q].pc # "put" => f \in stored
        BY <4>1 DEF FileInv, NewIsApart
      <4>3. f # d
        BY <1>2, <4>2, DocumentsAssumption
      <4>4. \A p \in Req : Makes(p, f)' => p = q
        BY <1>4, <1>5, <4>2, <4>3 DEF KeepsRoles
      <4>5. QED BY <1>2, <1>7, <1>9, <4>1, <4>2, <4>4
    <3>3. QED BY <3>1, <3>2
  <2>2. QED BY <2>1 DEF NewIsApart
<1>13. OfferedIsStored'
  BY <1>2, <1>7, <1>9 DEF FileInv, OfferedIsStored
<1>14. AuthoritativeIsStored'
  <2>1. ASSUME NEW k \in DOMAIN invoice, NEW f, f = invoice[k].file
        PROVE  IsDocumentOf(f, k)'
    <3>1. IsDocumentOf(f, k)
      BY <2>1 DEF FileInv, AuthoritativeIsStored
    <3>2. f = old => k = i
      BY <1>6, <2>1 DEF IsDocumentOf
    <3>3. QED BY <1>2, <1>4, <1>5, <3>1, <3>2 DEF IsDocumentOf, KeepsRoles
  <2>2. QED BY <1>2, <2>1 DEF AuthoritativeIsStored, IsDocumentOf
<1>15. QED BY <1>11, <1>12, <1>13, <1>14 DEF FileInv

\* The swap makes the new document authoritative and the one it replaces left over,
\* or, on a changed status, the new one left over.
LEMMA SwapKeepsFiles ==
  ASSUME TypeOK, FileInv, EditsAreGrounded, NEW r \in Req, SwapFile(r)
  PROVE  FileInv'
<1>1. PICK new, old, id, drop :
        /\ new = request[r].file /\ old = request[r].old /\ id = request[r].id
        /\ drop = IF ~(invoice[id].status = "needs_correction") THEN new
                  ELSE IF new # NoFile THEN old ELSE NoFile
  OBVIOUS
<1>2. /\ request[r] \in EditJob /\ Editing(r) /\ request[r].pc = "swap" /\ id \in DOMAIN invoice
      /\ UNCHANGED <<minted, stored, upload>>
  BY <1>1, JobKinds DEF TypeOK, SwapFile, EditsAreGrounded, Editing
<1>3. request' = [request EXCEPT ![r] = [request[r] EXCEPT !.pc = "drop", !.drop = drop]]
  BY <1>1 DEF SwapFile, TypeOK
<1>4. Makes(r, new) /\ Displaces(r, id, old)
  BY <1>1, <1>2 DEF Makes, Displaces
<1>5. new \in File \cup {NoFile} /\ old \in File /\ id \in InvoiceId
  BY <1>1, <1>2 DEF EditJob
<1>6. new \in File =>
        /\ new \in minted \ DOMAIN upload /\ new \in stored
        /\ \A q \in Req : Makes(q, new) => q = r
        /\ Unused(new) /\ Undisturbed(new)
  BY <1>2, <1>4 DEF FileInv, NewIsApart
<1>7. /\ request'[r] = [request[r] EXCEPT !.pc = "drop", !.drop = drop]
      /\ \A q \in Req \ {r} : KeepsRoles(q)
  BY <1>3, OthersKeepRoles
<1>8. request'[r].pc = "drop" /\ request'[r].drop = drop /\ request'[r].kind \in {"replace", "resubmit"}
  BY <1>2, <1>7 DEF EditJob
<1>9. /\ \A f : ~Makes(r, f)'
      /\ \A f : Discards(r, f)' => f = drop
      /\ \A f, k : ~Displaces(r, k, f)'
  BY <1>8 DEF Makes, Discards, Displaces, Editing
<1>10. old # new
  BY <1>4, <1>5, <1>6, DocumentsAssumption DEF Undisturbed
<1>11. \A f \in File : Undisturbed(f) /\ f # drop => Undisturbed(f)'
  BY <1>7, <1>9 DEF Undisturbed, KeepsRoles
<1>12. old \in minted
  BY <1>4, <1>5 DEF FileInv, KeysAreMinted
<1>13. drop \in {new, old, NoFile}
  BY <1>1
<1>14. KeysAreMinted'
  BY <1>2, <1>5, <1>6, <1>7, <1>9, <1>12, <1>13, DocumentsAssumption
  DEF FileInv, KeysAreMinted, KeepsRoles
<1>15. \A q \in Req, f \in File : Makes(q, f)' =>
         q # r /\ Makes(q, f) /\ request'[q] = request[q] /\ f # new /\ f # old
  <2>1. ASSUME NEW q \in Req, NEW f \in File, Makes(q, f)'
        PROVE  q # r /\ Makes(q, f) /\ request'[q] = request[q]
    BY <1>7, <1>9, <2>1 DEF KeepsRoles
  <2>2. ASSUME NEW q \in Req, NEW f \in File, q # r, Makes(q, f)
        PROVE  f # new /\ f # old
    <3>1. f # new
      BY <1>6, <2>2
    <3>2. Undisturbed(f)
      BY <2>2 DEF FileInv, NewIsApart
    <3>3. QED BY <1>4, <1>5, <3>1, <3>2 DEF Undisturbed
  <2>3. QED BY <2>1, <2>2
<1>16. \A f \in DOMAIN upload : ~upload[f].consumed => f \in File /\ f # new /\ f # old
  BY <1>4, <1>5, <1>6 DEF FileInv, OfferedIsStored, Undisturbed, TypeOK
<1>17. CASE drop = new \/ new = NoFile
  <2>1. /\ DOMAIN invoice' = DOMAIN invoice
        /\ \A k \in DOMAIN invoice : invoice'[k].file = invoice[k].file
    <3>1. CASE invoice' = invoice
      BY <3>1
    <3>2. CASE invoice' # invoice
      <4>1. new = NoFile
        BY <1>1, <1>10, <1>17, <3>2 DEF SwapFile
      <4>2. QED BY <1>1, <4>1, <3>2 DEF SwapFile, TypeOK, Invoice
    <3>3. QED BY <3>1, <3>2
  <2>2. \A f : Unused(f)' <=> Unused(f)
    BY <2>1 DEF Unused
  <2>3. drop = new \/ drop = NoFile
    BY <1>1, <1>17
  <2>4. NewIsApart'
    BY <1>2, <1>11, <1>15, <2>2, <2>3, DocumentsAssumption DEF FileInv, NewIsApart
  <2>5. OfferedIsStored'
    BY <1>2, <1>11, <1>16, <2>2, <2>3, DocumentsAssumption DEF FileInv, OfferedIsStored
  <2>6. AuthoritativeIsStored'
    <3>1. ASSUME NEW k \in DOMAIN invoice, NEW f, f = invoice[k].file
          PROVE  IsDocumentOf(f, k)'
      <4>1. IsDocumentOf(f, k) /\ f \in File
        BY <3>1 DEF FileInv, AuthoritativeIsStored, TypeOK, Invoice
      <4>2. f # drop
        BY <1>5, <1>6, <2>3, <3>1, <4>1, DocumentsAssumption DEF Unused
      <4>3. QED BY <1>2, <1>7, <1>9, <2>1, <4>1, <4>2 DEF IsDocumentOf, KeepsRoles
    <3>2. QED BY <2>1, <3>1 DEF AuthoritativeIsStored, IsDocumentOf
  <2>7. QED BY <1>14, <2>4, <2>5, <2>6 DEF FileInv
<1>18. CASE drop # new /\ new # NoFile
  <2>1. drop = old /\ new \in File
    BY <1>1, <1>5, <1>18
  <2>2. /\ DOMAIN invoice' = DOMAIN invoice /\ invoice'[id].file = new
        /\ \A k \in DOMAIN invoice : k # id => invoice'[k] = invoice[k]
    BY <1>1, <1>2, <1>18 DEF SwapFile, TypeOK, Invoice
  <2>3. \A f : Unused(f) /\ f # new => Unused(f)'
    BY <2>2 DEF Unused
  <2>4. NewIsApart'
    BY <1>2, <1>11, <1>15, <2>1, <2>3 DEF FileInv, NewIsApart
  <2>5. OfferedIsStored'
    BY <1>2, <1>11, <1>16, <2>1, <2>3 DEF FileInv, OfferedIsStored
  <2>6. AuthoritativeIsStored'
    <3>1. ASSUME NEW k \in DOMAIN invoice, k # id, NEW f, f = invoice[k].file
          PROVE  IsDocumentOf(f, k)'
      <4>1. IsDocumentOf(f, k)
        BY <3>1 DEF FileInv, AuthoritativeIsStored
      <4>2. f # old
        BY <1>4, <1>5, <3>1, <4>1 DEF IsDocumentOf
      <4>3. f # new
        BY <1>6, <2>1, <3>1 DEF Unused
      <4>4. QED BY <1>2, <1>7, <1>9, <2>1, <2>2, <4>1, <4>2, <4>3 DEF IsDocumentOf, KeepsRoles
    <3>2. IsDocumentOf(new, id)'
      <4>1. \A k \in DOMAIN invoice' : invoice'[k].file = new => k = id
        BY <1>6, <2>1, <2>2 DEF Unused
      <4>2. \A q \in Req : ~Discards(q, new)' /\ \A k \in InvoiceId : ~Displaces(q, k, new)'
        BY <1>6, <1>7, <1>9, <1>10, <2>1 DEF Undisturbed, KeepsRoles
      <4>3. new \in stored'
        BY <1>2, <1>6, <2>1
      <4>4. QED BY <4>1, <4>2, <4>3 DEF IsDocumentOf
    <3>3. QED BY <2>2, <3>1, <3>2 DEF AuthoritativeIsStored, IsDocumentOf
  <2>7. QED BY <1>14, <2>4, <2>5, <2>6 DEF FileInv
<1>19. QED BY <1>17, <1>18

\* What is deleted is left over.
LEMMA DropKeepsFiles ==
  ASSUME TypeOK, FileInv, NEW r \in Req, DropFile(r)
  PROVE  FileInv'
<1>1. PICK d : d = request[r].drop
  OBVIOUS
<1>2. Discards(r, d) /\ UNCHANGED <<minted, upload, invoice>> /\ stored \ {d} \subseteq stored'
      /\ stored' \subseteq stored
  BY <1>1, JobKinds DEF DropFile, Discards, Editing, TypeOK, NoRequest, UploadJob, CreateJob
<1>3. request'[r] = NoRequest /\ \A q \in Req \ {r} : KeepsRoles(q)
  BY OthersKeepRoles DEF DropFile, EndRequest
<1>4. \A f, i : ~Makes(r, f)' /\ ~Discards(r, f)' /\ ~Displaces(r, i, f)'
  BY <1>3 DEF Makes, Discards, Displaces, Editing, NoRequest
<1>5. \A f : Unused(f)' <=> Unused(f)
  BY <1>2 DEF Unused
<1>6. \A f : Undisturbed(f) => Undisturbed(f)' /\ f # d
  BY <1>2, <1>3, <1>4 DEF Undisturbed, KeepsRoles
<1>7. KeysAreMinted'
  BY <1>2, <1>3, <1>4 DEF FileInv, KeysAreMinted, KeepsRoles
<1>8. NewIsApart'
  <2>1. \A q \in Req, f \in File : Makes(q, f)' => Makes(q, f) /\ request'[q] = request[q]
    BY <1>3, <1>4 DEF KeepsRoles
  <2>2. \A p, q \in Req, f \in File : Makes(p, f)' /\ Makes(q, f)' => p = q
    BY <2>1 DEF FileInv, NewIsApart
  <2>3. QED BY <1>2, <1>5, <1>6, <2>1, <2>2 DEF FileInv, NewIsApart
<1>9. OfferedIsStored'
  BY <1>2, <1>5, <1>6 DEF FileInv, OfferedIsStored
<1>10. AuthoritativeIsStored'
  <2>1. ASSUME NEW k \in DOMAIN invoice, NEW f, f = invoice[k].file
        PROVE  IsDocumentOf(f, k)'
    <3>1. IsDocumentOf(f, k)
      BY <2>1 DEF FileInv, AuthoritativeIsStored
    <3>2. f # d
      BY <1>2, <3>1 DEF IsDocumentOf
    <3>3. QED BY <1>2, <1>3, <1>4, <3>1, <3>2 DEF IsDocumentOf, KeepsRoles
  <2>2. QED BY <1>2, <2>1 DEF AuthoritativeIsStored, IsDocumentOf
<1>11. QED BY <1>7, <1>8, <1>9, <1>10 DEF FileInv

-----------------------------------------------------------------------------
(* Forms.                                                                  *)

\* What a step leaves as it was for the creations of the others.
LEMMA FormsFrame ==
  ASSUME TypeOK, FormInv,
         \A q \in Req : request'[q] = request[q] \/ request'[q].kind # "create",
         DOMAIN upload \subseteq DOMAIN upload',
         \A f \in DOMAIN upload : upload'[f].by = upload[f].by
                                  /\ upload'[f].consumed = upload[f].consumed,
         DOMAIN invoice' = DOMAIN invoice,
         \A i \in DOMAIN invoice : invoice'[i].sub = invoice[i].sub
                                   /\ invoice'[i].bound = invoice[i].bound
  PROVE  FormInv'
<1>1. \A q \in Req : request'[q] = request[q] \/ request'[q].kind # "create"
  OBVIOUS
<1>2. \A s : Produced(s)' = Produced(s)
  BY DEF Produced
<1>3. \A q \in Req : \A f : request'[q].kind = "create" => (UploadInFlight(q, f)' => UploadInFlight(q, f))
  BY <1>1 DEF UploadInFlight
<1>4. \A q \in Req : \A s : request'[q].kind = "create" => (SubmissionInFlight(q, s)' => SubmissionInFlight(q, s))
  BY <1>1 DEF SubmissionInFlight, Running
<1>5. \A q \in Req : request'[q].kind = "create" => request'[q] = request[q]
  BY <1>1
<1>6. ClaimsHold'
  <2>1. ASSUME NEW q \in Req, request'[q].kind = "create", NEW f, NEW s,
               f = request'[q].file, s = request'[q].sub
        PROVE  ClaimHolds(q, f, s)'
    <3>1. request'[q] = request[q] /\ ClaimHolds(q, f, s)
      BY <1>5, <2>1 DEF FormInv, ClaimsHold
    <3>2. QED BY <1>2, <1>3, <1>4, <2>1, <3>1 DEF ClaimHolds, Creating
  <2>2. QED
    BY <2>1 DEF ClaimsHold, ClaimHolds, Creating, UploadInFlight, SubmissionInFlight, Running,
                Produced
<1>7. OwnersAgree'
  BY <1>5 DEF FormInv, OwnersAgree
<1>8. OnePerForm'
  BY DEF FormInv, OnePerForm
<1>9. QED BY <1>6, <1>7, <1>8 DEF FormInv

\* A creation may move on if it still holds what the next step relies on.
LEMMA CreateStepKeepsForms ==
  ASSUME TypeOK, FormInv, NEW r \in Req, NEW j, request' = [request EXCEPT ![r] = j],
         UNCHANGED <<upload, invoice>>,
         j.pc \in {"lookup", "consume", "insert", "commit"} =>
           j.file \in DOMAIN upload /\ upload[j.file].by = j.by,
         j.pc \in {"insert", "commit"} =>
           ~upload[j.file].consumed /\ ~UploadInFlight(r, j.file),
         j.pc = "commit" => Produced(j.sub) = {} /\ ~SubmissionInFlight(r, j.sub),
         j.by = Opener[j.sub],
         j.answer # NoInvoice => j.answer \in DOMAIN invoice /\ invoice[j.answer].sub = j.sub
  PROVE  FormInv'
<1>1. request'[r] = j /\ \A q \in Req \ {r} : request'[q] = request[q]
  BY DEF TypeOK
<1>2. \A s : Produced(s)' = Produced(s)
  BY DEF Produced
<1>3. ASSUME NEW q \in Req, request'[q].kind = "create", NEW f, NEW s,
             f = request'[q].file, s = request'[q].sub
      PROVE  ClaimHolds(q, f, s)'
  <2>1. CASE q = r
    <3>1. UploadInFlight(r, f)' <=> UploadInFlight(r, f)
      BY <1>1 DEF UploadInFlight
    <3>2. SubmissionInFlight(r, s)' <=> SubmissionInFlight(r, s)
      BY <1>1 DEF SubmissionInFlight, Running
    <3>3. QED BY <1>1, <1>2, <1>3, <2>1, <3>1, <3>2 DEF ClaimHolds, Creating
  <2>2. CASE q # r
    <3>1. request'[q] = request[q] /\ ClaimHolds(q, f, s)
      BY <1>1, <1>3, <2>2 DEF FormInv, ClaimsHold
    <3>2. ASSUME request[q].pc \in {"insert", "commit"}
          PROVE  ~UploadInFlight(q, f)'
      <4>1. ~(j.kind = "create" /\ j.pc \in {"insert", "commit"} /\ j.file = f)
        BY <1>3, <2>2, <3>1, <3>2 DEF UploadInFlight
      <4>2. QED BY <1>1, <2>2, <3>1, <3>2, <4>1 DEF ClaimHolds, UploadInFlight
    <3>3. ASSUME request[q].pc = "commit"
          PROVE  ~SubmissionInFlight(q, s)'
      <4>1. ~(j.kind = "create" /\ j.pc = "commit" /\ j.sub = s)
        BY <1>3, <2>2, <3>1, <3>3 DEF SubmissionInFlight, Running
      <4>2. QED BY <1>1, <2>2, <3>1, <3>3, <4>1 DEF ClaimHolds, SubmissionInFlight, Running
    <3>4. QED BY <1>2, <3>1, <3>2, <3>3 DEF ClaimHolds, Creating
  <2>3. QED BY <2>1, <2>2
<1>4. ClaimsHold'
  BY <1>3 DEF ClaimsHold, ClaimHolds, Creating, UploadInFlight, SubmissionInFlight, Running,
              Produced
<1>5. OwnersAgree'
  BY <1>1 DEF FormInv, OwnersAgree
<1>6. OnePerForm'
  BY DEF FormInv, OnePerForm
<1>7. QED BY <1>4, <1>5, <1>6 DEF FormInv

\* The commit: the form had produced nothing, and holds the upload alone.
LEMMA CommitKeepsForms ==
  ASSUME TypeOK, FormInv, NEW r \in Req, CommitCreate(r)
  PROVE  FormInv'
<1>1. PICK g, s : g = request[r].file /\ s = request[r].sub
  OBVIOUS
<1>2. /\ request[r] \in CreateJob /\ request[r].kind = "create" /\ request[r].pc = "commit"
      /\ upload' = [upload EXCEPT ![g].consumed = TRUE]
  BY <1>1, JobKinds DEF TypeOK, CommitCreate, Running
<1>3. PICK i \in InvoiceId \ DOMAIN invoice :
        /\ invoice' = Extend(invoice, i,
             [by |-> request[r].by, sub |-> s, file |-> g, bound |-> g,
              status |-> "needs_review"])
        /\ request' = [request EXCEPT ![r].pc = "answered", ![r].answer = i]
  BY <1>1 DEF CommitCreate
<1>4. /\ g \in DOMAIN upload /\ upload[g].by = request[r].by /\ g \in File
      /\ ~UploadInFlight(r, g) /\ Produced(s) = {} /\ ~SubmissionInFlight(r, s)
      /\ request[r].by = Opener[s]
  BY <1>1, <1>2 DEF FormInv, ClaimsHold, ClaimHolds, OwnersAgree, Creating, TypeOK
<1>5. /\ DOMAIN upload' = DOMAIN upload
      /\ \A f \in DOMAIN upload : upload'[f].by = upload[f].by
      /\ \A f \in DOMAIN upload : f # g => upload'[f] = upload[f]
  BY <1>2, <1>4 DEF TypeOK, Upload
<1>6. /\ DOMAIN invoice' = DOMAIN invoice \cup {i}
      /\ invoice'[i].sub = s /\ invoice'[i].bound = g
      /\ \A k \in DOMAIN invoice : invoice'[k] = invoice[k]
  BY <1>3 DEF Extend
<1>7. /\ request'[r].kind = "create" /\ request'[r].pc = "answered" /\ request'[r].answer = i
      /\ request'[r].sub = s /\ request'[r].by = request[r].by
      /\ \A q \in Req \ {r} : request'[q] = request[q]
  <2>1. request' = [request EXCEPT ![r] = [request[r] EXCEPT !.pc = "answered", !.answer = i]]
    BY <1>3 DEF TypeOK
  <2>2. request'[r] = [request[r] EXCEPT !.pc = "answered", !.answer = i]
        /\ \A q \in Req \ {r} : request'[q] = request[q]
    BY <2>1 DEF TypeOK
  <2>3. QED BY <1>1, <1>2, <2>2 DEF CreateJob
<1>8. ASSUME NEW q \in Req, request'[q].kind = "create", NEW f, NEW t,
             f = request'[q].file, t = request'[q].sub
      PROVE  ClaimHolds(q, f, t)'
  <2>1. CASE q = r
    BY <1>7, <2>1 DEF ClaimHolds, Creating
  <2>2. CASE q # r
    <3>1. request'[q] = request[q] /\ ClaimHolds(q, f, t)
      BY <1>7, <1>8, <2>2 DEF FormInv, ClaimsHold
    <3>2. request[q].pc \in {"insert", "commit"} => f # g
      BY <1>1, <1>2, <1>8, <2>2, <3>1 DEF ClaimHolds, UploadInFlight
    <3>3. request[q].pc = "commit" => t # s
      BY <1>1, <1>2, <1>8, <2>2, <3>1 DEF ClaimHolds, SubmissionInFlight, Running
    <3>4. t # s => Produced(t)' = Produced(t)
      BY <1>6 DEF Produced
    <3>5. ~UploadInFlight(q, f) => ~UploadInFlight(q, f)'
      BY <1>7 DEF UploadInFlight
    <3>6. ~SubmissionInFlight(q, t) => ~SubmissionInFlight(q, t)'
      BY <1>7 DEF SubmissionInFlight, Running
    <3>7. /\ Creating(q)' => f \in DOMAIN upload' /\ upload'[f].by = request'[q].by
          /\ request'[q].pc \in {"insert", "commit"} => ~upload'[f].consumed
      BY <1>5, <1>8, <3>1, <3>2 DEF ClaimHolds, Creating
    <3>8. request'[q].pc \in {"insert", "commit"} => ~UploadInFlight(q, f)'
      BY <3>1, <3>5 DEF ClaimHolds
    <3>9. request'[q].pc = "commit" => Produced(t)' = {} /\ ~SubmissionInFlight(q, t)'
      BY <3>1, <3>3, <3>4, <3>6 DEF ClaimHolds
    <3>10. QED BY <3>7, <3>8, <3>9 DEF ClaimHolds
  <2>3. QED BY <2>1, <2>2
<1>9. ClaimsHold'
  BY <1>8 DEF ClaimsHold, ClaimHolds, Creating, UploadInFlight, SubmissionInFlight, Running,
              Produced
<1>10. OwnersAgree'
  BY <1>4, <1>5, <1>6, <1>7 DEF FormInv, OwnersAgree
<1>11. OnePerForm'
  BY <1>4, <1>6 DEF FormInv, OnePerForm, Produced
<1>12. QED BY <1>10, <1>11, <1>9 DEF FormInv

\* An answer is an invoice of the form; without one the request goes on.
LEMMA AnswerKeepsForms ==
  ASSUME TypeOK, FormInv, NEW r \in Req, request[r].kind = "create",
         request[r].pc \in {"lookup", "fallback"},
         NEW candidates \in SUBSET Produced(request[r].sub),
         NEW pc \in {"consume", "answered"}, pc = "consume" => request[r].pc = "lookup",
         AnswerOr(r, candidates, pc), UNCHANGED <<upload, invoice>>
  PROVE  FormInv'
<1>1. request[r] \in CreateJob
  BY JobKinds DEF TypeOK
<1>2. /\ Creating(r) => request[r].file \in DOMAIN upload /\ upload[request[r].file].by = request[r].by
      /\ request[r].by = Opener[request[r].sub]
      /\ request[r].answer # NoInvoice =>
           request[r].answer \in DOMAIN invoice /\ invoice[request[r].answer].sub = request[r].sub
  BY DEF FormInv, ClaimsHold, ClaimHolds, OwnersAgree
<1>3. CASE candidates = {}
  <2> DEFINE j == [request[r] EXCEPT !.pc = pc]
  <2>1. request' = [request EXCEPT ![r] = j]
    BY <1>3, GotoIsStep DEF AnswerOr
  <2>2. /\ j.pc = pc /\ j.kind = "create" /\ j.file = request[r].file /\ j.by = request[r].by
        /\ j.sub = request[r].sub /\ j.answer = request[r].answer
    BY <1>1 DEF CreateJob
  <2> HIDE DEF j
  <2>3. j.pc \in {"lookup", "consume", "insert", "commit"} =>
          j.file \in DOMAIN upload /\ upload[j.file].by = j.by
    BY <1>2, <2>2 DEF Creating
  <2>4. QED BY <1>2, <2>1, <2>2, <2>3, CreateStepKeepsForms
<1>4. CASE candidates # {}
  <2>1. PICK i \in candidates : request' = [request EXCEPT ![r].pc = "answered", ![r].answer = i]
    BY <1>4 DEF AnswerOr
  <2> DEFINE j == [request[r] EXCEPT !.pc = "answered", !.answer = i]
  <2>2. request' = [request EXCEPT ![r] = j]
    BY <2>1 DEF TypeOK
  <2>3. j.pc = "answered" /\ j.by = request[r].by /\ j.sub = request[r].sub /\ j.answer = i
    BY <1>1 DEF CreateJob
  <2>4. i \in DOMAIN invoice /\ invoice[i].sub = request[r].sub
    BY DEF Produced
  <2> HIDE DEF j
  <2>5. QED BY <1>2, <2>2, <2>3, <2>4, CreateStepKeepsForms
<1>5. QED BY <1>3, <1>4

\* The two statements of the transaction before its commit, and where a loser goes.
LEMMA GotoKeepsForms ==
  ASSUME TypeOK, FormInv, NEW r \in Req, request[r].kind = "create",
         NEW pc \in {"insert", "commit", "fallback"}, GoOn(r, pc),
         UNCHANGED <<upload, invoice>>,
         pc = "insert" =>
           /\ request[r].pc = "consume"
           /\ ~upload[request[r].file].consumed /\ ~UploadInFlight(r, request[r].file),
         pc = "commit" =>
           /\ request[r].pc = "insert"
           /\ Produced(request[r].sub) = {} /\ ~SubmissionInFlight(r, request[r].sub)
  PROVE  FormInv'
<1> DEFINE j == [request[r] EXCEPT !.pc = pc]
<1>1. request' = [request EXCEPT ![r] = j]
  BY GotoIsStep
<1>2. /\ j.pc = pc /\ j.file = request[r].file /\ j.by = request[r].by
      /\ j.sub = request[r].sub /\ j.answer = request[r].answer
  BY JobKinds DEF TypeOK, CreateJob
<1> HIDE DEF j
<1>3. /\ ClaimHolds(r, request[r].file, request[r].sub)
      /\ request[r].by = Opener[request[r].sub]
      /\ request[r].answer # NoInvoice =>
           request[r].answer \in DOMAIN invoice /\ invoice[request[r].answer].sub = request[r].sub
  BY DEF FormInv, ClaimsHold, OwnersAgree
<1>4. j.pc \in {"lookup", "consume", "insert", "commit"} =>
        j.file \in DOMAIN upload /\ upload[j.file].by = j.by
  BY <1>2, <1>3 DEF ClaimHolds, Creating
<1>5. j.pc \in {"insert", "commit"} =>
        ~upload[j.file].consumed /\ ~UploadInFlight(r, j.file)
  BY <1>2, <1>3 DEF ClaimHolds
<1>6. j.pc = "commit" => Produced(j.sub) = {} /\ ~SubmissionInFlight(r, j.sub)
  BY <1>2
<1>7. QED BY <1>1, <1>2, <1>3, <1>4, <1>5, <1>6, CreateStepKeepsForms

\* A creation starts with an upload of its caller's, or is refused.
LEMMA BeginCreateKeepsForms ==
  ASSUME TypeOK, FormInv, NEW r \in Req, NEW s \in Submission, NEW f \in File,
         BeginCreate(r, s, f)
  PROVE  FormInv'
<1>1. PICK pc : pc = IF ValidUpload(f, Opener[s]) THEN "lookup" ELSE "answered"
  OBVIOUS
<1> DEFINE j == [pc |-> pc, kind |-> "create", by |-> Opener[s], sub |-> s, file |-> f,
                 answer |-> NoInvoice]
<1>2. request' = [request EXCEPT ![r] = j] /\ UNCHANGED <<upload, invoice>>
  BY <1>1 DEF BeginCreate
<1>3. j.pc = pc /\ j.by = Opener[s] /\ j.sub = s /\ j.file = f /\ j.answer = NoInvoice
  OBVIOUS
<1> HIDE DEF j
<1>4. pc \in {"lookup", "answered"}
      /\ (pc = "lookup" => f \in DOMAIN upload /\ upload[f].by = Opener[s])
  BY <1>1 DEF ValidUpload
<1>5. QED BY <1>2, <1>3, <1>4, CreateStepKeepsForms

\* A request that ends, or is no creation, leaves the forms alone.
LEMMA OtherStepKeepsForms ==
  ASSUME TypeOK, FormInv, NEW r \in Req, NEW j, request' = [request EXCEPT ![r] = j],
         j.kind # "create", UNCHANGED upload,
         DOMAIN invoice' = DOMAIN invoice,
         \A i \in DOMAIN invoice : invoice'[i].sub = invoice[i].sub
                                   /\ invoice'[i].bound = invoice[i].bound
  PROVE  FormInv'
<1>1. request'[r] = j /\ \A q \in Req \ {r} : request'[q] = request[q]
  BY DEF TypeOK
<1>2. QED BY <1>1, FormsFrame

-----------------------------------------------------------------------------
(* The theorems.                                                           *)

\* Every step of a handler finds its way through the cases above.
LEMMA StepCases ==
  ASSUME IntakeNext
  PROVE  \/ \E r \in Req, c \in Caller : BeginUpload(r, c)
         \/ \E r \in Req, s \in Submission, f \in File : BeginCreate(r, s, f)
         \/ \E r \in Req, i \in DOMAIN invoice, f \in File \cup {NoFile},
               kind \in {"replace", "resubmit"} : BeginReplacement(r, kind, i, f)
         \/ \E r \in Req :
              \/ PutFile(r) \/ RecordUpload(r)
              \/ FindDuplicate(r) \/ ConsumeUpload(r) \/ InsertInvoice(r) \/ AnswerLoser(r)
              \/ CommitCreate(r) \/ Answered(r) \/ SwapFile(r) \/ DropFile(r) \/ CrashRequest(r)
         \/ (\E f \in File : Expire(f)) \/ \E i \in DOMAIN invoice : SendBack(i)
<1>1. ASSUME NEW r \in Req, NEW i \in DOMAIN invoice, BeginReplace(r, i) \/ BeginResubmit(r, i)
      PROVE  \E f \in File \cup {NoFile}, kind \in {"replace", "resubmit"} :
               BeginReplacement(r, kind, i, f)
  BY <1>1 DEF BeginReplace, BeginResubmit
<1>2. QED
  BY <1>1 DEF IntakeNext, Arrive, Proceed

\* An edit under way goes on with an invoice there is: rows are never deleted.
LEMMA NextKeepsEdits ==
  ASSUME TypeOK, EditsAreGrounded, IntakeNext
  PROVE  EditsAreGrounded'
<1>1. DOMAIN invoice \subseteq DOMAIN invoice'
  <2>1. ASSUME NEW r \in Req, CommitCreate(r) PROVE DOMAIN invoice \subseteq DOMAIN invoice'
    BY <2>1 DEF CommitCreate, Extend
  <2>2. ASSUME NEW r \in Req, SwapFile(r) PROVE DOMAIN invoice \subseteq DOMAIN invoice'
    BY <2>2 DEF SwapFile
  <2>3. ASSUME NEW i \in DOMAIN invoice, SendBack(i) PROVE DOMAIN invoice \subseteq DOMAIN invoice'
    BY <2>3 DEF SendBack
  <2>4. ASSUME NEW r \in Req,
               \/ PutFile(r) \/ RecordUpload(r) \/ FindDuplicate(r) \/ ConsumeUpload(r)
               \/ InsertInvoice(r) \/ AnswerLoser(r) \/ Answered(r) \/ DropFile(r) \/ CrashRequest(r)
        PROVE  invoice' = invoice
    BY <2>4 DEF PutFile, RecordUpload, FindDuplicate, ConsumeUpload, InsertInvoice,
                AnswerLoser, Answered, DropFile, CrashRequest
  <2>5. ASSUME NEW f \in File, Expire(f) PROVE invoice' = invoice
    BY <2>5 DEF Expire
  <2>6. ASSUME NEW r \in Req,
               \/ \E c \in Caller : BeginUpload(r, c)
               \/ \E s \in Submission, f \in File : BeginCreate(r, s, f)
               \/ \E i \in DOMAIN invoice, f \in File \cup {NoFile},
                     kind \in {"replace", "resubmit"} : BeginReplacement(r, kind, i, f)
        PROVE  invoice' = invoice
    BY <2>6 DEF BeginUpload, BeginCreate, BeginReplacement
  <2>7. QED BY StepCases, <2>1, <2>2, <2>3, <2>4, <2>5, <2>6
<1>2. ASSUME NEW r \in Req, NEW j, request' = [request EXCEPT ![r] = j],
             j.kind \in {"replace", "resubmit"} =>
               j.id \in DOMAIN invoice' /\ (j.pc = "put" => j.file # NoFile)
      PROVE  EditsAreGrounded'
  <2>1. request'[r] = j /\ \A q \in Req \ {r} : request'[q] = request[q]
    BY <1>2 DEF TypeOK
  <2>2. QED BY <1>1, <1>2, <2>1 DEF EditsAreGrounded, Editing
<1>3. ASSUME NEW r \in Req, EndRequest(r)
      PROVE  EditsAreGrounded'
  BY <1>2, <1>3 DEF EndRequest, NoRequest
<1>4. ASSUME NEW r \in Req, NEW pc, pc # "put", GoOn(r, pc)
      PROVE  EditsAreGrounded'
  <2> DEFINE j == [request[r] EXCEPT !.pc = pc]
  <2>1. request' = [request EXCEPT ![r] = j]
    BY <1>4, GotoIsStep
  <2>2. request[r].kind \in {"replace", "resubmit"} => request[r] \in EditJob
    BY JobKinds DEF TypeOK
  <2>3. request[r].kind \in {"none", "upload", "create"} =>
          request[r] \in {NoRequest} \cup UploadJob \cup CreateJob
    BY JobKinds DEF TypeOK
  <2>4. request[r].kind \in {"none", "upload", "create", "replace", "resubmit"}
    BY JobKinds DEF TypeOK
  <2>5. j.kind = request[r].kind
    BY <2>2, <2>3, <2>4 DEF EditJob, UploadJob, CreateJob, NoRequest
  <2>6. j.kind \in {"replace", "resubmit"} => j.id = request[r].id /\ j.pc = pc
    BY <2>2, <2>5 DEF EditJob
  <2> HIDE DEF j
  <2>7. request[r].kind \in {"replace", "resubmit"} => request[r].id \in DOMAIN invoice'
    BY <1>1 DEF EditsAreGrounded, Editing
  <2>8. QED BY <1>2, <1>4, <2>1, <2>5, <2>6, <2>7
<1>5. CASE \E r \in Req, c \in Caller : BeginUpload(r, c)
  BY <1>2, <1>5 DEF BeginUpload
<1>6. CASE \E r \in Req, s \in Submission, f \in File : BeginCreate(r, s, f)
  BY <1>2, <1>6 DEF BeginCreate
<1>7. CASE \E r \in Req, i \in DOMAIN invoice, f \in File \cup {NoFile},
             kind \in {"replace", "resubmit"} : BeginReplacement(r, kind, i, f)
  <2>1. PICK r \in Req, i \in DOMAIN invoice, f \in File \cup {NoFile},
             kind \in {"replace", "resubmit"} : BeginReplacement(r, kind, i, f)
    BY <1>7
  <2> DEFINE j == [pc |-> IF f = NoFile THEN "swap" ELSE "put", kind |-> kind, id |-> i,
                   file |-> f, old |-> invoice[i].file, drop |-> NoFile]
  <2>2. request' = [request EXCEPT ![r] = j]
    BY <2>1 DEF BeginReplacement
  <2>3. j.id = i /\ (j.pc = "put" => j.file # NoFile)
    OBVIOUS
  <2> HIDE DEF j
  <2>4. QED BY <1>1, <1>2, <2>2, <2>3
<1>8. ASSUME NEW r \in Req, RecordUpload(r) \/ Answered(r) \/ DropFile(r) \/ CrashRequest(r)
      PROVE  EditsAreGrounded'
  BY <1>3, <1>8 DEF RecordUpload, Answered, DropFile, CrashRequest
<1>9. ASSUME NEW r \in Req, PutFile(r) \/ ConsumeUpload(r) \/ InsertInvoice(r)
      PROVE  EditsAreGrounded'
  BY <1>3, <1>4, <1>9 DEF PutFile, ConsumeUpload, InsertInvoice
<1>10. ASSUME NEW r \in Req, FindDuplicate(r) \/ AnswerLoser(r)
       PROVE  EditsAreGrounded'
  <2>1. request[r] \in CreateJob
    BY <1>10, JobKinds DEF TypeOK, FindDuplicate, AnswerLoser, Running
  <2>2. PICK pc \in {"consume", "answered"} : \E candidates : AnswerOr(r, candidates, pc)
    BY <1>10 DEF FindDuplicate, AnswerLoser
  <2>3. PICK candidates : AnswerOr(r, candidates, pc)
    BY <2>2
  <2>4. CASE GoOn(r, pc)
    BY <1>4, <2>2, <2>4
  <2>5. CASE \E i \in candidates : request' = [request EXCEPT ![r].pc = "answered", ![r].answer = i]
    <3>1. PICK i : request' = [request EXCEPT ![r] = [request[r] EXCEPT !.pc = "answered", !.answer = i]]
      BY <2>5 DEF TypeOK
    <3>2. [request[r] EXCEPT !.pc = "answered", !.answer = i].kind = "create"
      BY <2>1 DEF CreateJob
    <3>3. QED BY <1>2, <3>1, <3>2
  <2>6. QED BY <2>3, <2>4, <2>5 DEF AnswerOr
<1>11. ASSUME NEW r \in Req, CommitCreate(r)
       PROVE  EditsAreGrounded'
  <2>1. request[r] \in CreateJob
    BY <1>11, JobKinds DEF TypeOK, CommitCreate, Running
  <2>2. PICK i : request' = [request EXCEPT ![r] = [request[r] EXCEPT !.pc = "answered", !.answer = i]]
    BY <1>11 DEF TypeOK, CommitCreate
  <2>3. [request[r] EXCEPT !.pc = "answered", !.answer = i].kind = "create"
    BY <2>1 DEF CreateJob
  <2>4. QED BY <1>2, <2>2, <2>3
<1>12. ASSUME NEW r \in Req, SwapFile(r)
       PROVE  EditsAreGrounded'
  <2>1. request[r] \in EditJob /\ request[r].id \in DOMAIN invoice'
    BY <1>1, <1>12, JobKinds DEF TypeOK, SwapFile, EditsAreGrounded, Editing
  <2>2. PICK d : request' = [request EXCEPT ![r] = [request[r] EXCEPT !.pc = "drop", !.drop = d]]
    BY <1>12 DEF TypeOK, SwapFile
  <2>3. [request[r] EXCEPT !.pc = "drop", !.drop = d].pc = "drop"
        /\ [request[r] EXCEPT !.pc = "drop", !.drop = d].id = request[r].id
    BY <2>1 DEF EditJob
  <2>4. QED BY <1>2, <2>1, <2>2, <2>3
<1>13. CASE (\E f \in File : Expire(f)) \/ \E i \in DOMAIN invoice : SendBack(i)
  BY <1>1, <1>13 DEF Expire, SendBack, EditsAreGrounded, Editing
<1>14. QED
  BY StepCases, <1>5, <1>6, <1>7, <1>8, <1>9, <1>10, <1>11, <1>12, <1>13

\* No step deletes a document in use.
LEMMA NextKeepsFiles ==
  ASSUME TypeOK, EditsAreGrounded, ClaimsHold, FileInv, IntakeNext
  PROVE  FileInv'
<1>1. ASSUME NEW r \in Req, NEW s \in Submission, NEW f \in File, BeginCreate(r, s, f)
      PROVE  FileInv'
  <2> DEFINE j == [pc |-> IF ValidUpload(f, Opener[s]) THEN "lookup" ELSE "answered",
                   kind |-> "create", by |-> Opener[s], sub |-> s, file |-> f,
                   answer |-> NoInvoice]
  <2>1. request' = [request EXCEPT ![r] = j] /\ UNCHANGED <<minted, stored, upload, invoice>>
    BY <1>1 DEF BeginCreate
  <2>2. j.kind = "create"
    OBVIOUS
  <2> HIDE DEF j
  <2>3. QED BY <2>1, <2>2, CreateKeepsFiles
<1>2. ASSUME NEW r \in Req,
             FindDuplicate(r) \/ ConsumeUpload(r) \/ InsertInvoice(r) \/ AnswerLoser(r)
      PROVE  FileInv'
  <2>1. request[r] \in CreateJob /\ UNCHANGED <<minted, stored, upload, invoice>>
    BY <1>2, JobKinds
    DEF TypeOK, FindDuplicate, ConsumeUpload, InsertInvoice, AnswerLoser, Running
  <2>2. PICK j : request' = [request EXCEPT ![r] = j] /\ j.kind = "create"
    <3>1. \A pc : [request[r] EXCEPT !.pc = pc].kind = "create"
      BY <2>1 DEF CreateJob
    <3>2. \A i : [request[r] EXCEPT !.pc = "answered", !.answer = i].kind = "create"
      BY <2>1 DEF CreateJob
    <3>3. ASSUME NEW pc, GoOn(r, pc)
          PROVE  \E j : request' = [request EXCEPT ![r] = j] /\ j.kind = "create"
      BY <3>1, <3>3, GotoIsStep
    <3>4. ASSUME NEW i, request' = [request EXCEPT ![r].pc = "answered", ![r].answer = i]
          PROVE  \E j : request' = [request EXCEPT ![r] = j] /\ j.kind = "create"
      <4>1. request' = [request EXCEPT ![r] = [request[r] EXCEPT !.pc = "answered", !.answer = i]]
        BY <3>4 DEF TypeOK
      <4>2. QED BY <3>2, <4>1
    <3>5. ASSUME NEW pc, NEW candidates, AnswerOr(r, candidates, pc)
          PROVE  \E j : request' = [request EXCEPT ![r] = j] /\ j.kind = "create"
      BY <3>3, <3>4, <3>5 DEF AnswerOr
    <3>6. QED
      BY <1>2, <3>3, <3>5 DEF FindDuplicate, ConsumeUpload, InsertInvoice, AnswerLoser
  <2>3. QED BY <2>1, <2>2, CreateKeepsFiles
<1>3. ASSUME NEW r \in Req, Answered(r) \/ CrashRequest(r)
      PROVE  FileInv'
  BY <1>3, FinishKeepsFiles DEF Answered, CrashRequest
<1>4. QED
  BY StepCases, <1>1, <1>2, <1>3, BeginUploadKeepsFiles, BeginEditKeepsFiles, PutKeepsFiles,
     RecordKeepsFiles, CommitKeepsFiles, SwapKeepsFiles, DropKeepsFiles, OutsideKeepsFiles

\* No step lets a form produce a second invoice.
LEMMA NextKeepsForms ==
  ASSUME TypeOK, EditsAreGrounded, FormInv, FileInv, IntakeNext
  PROVE  FormInv'
<1>1. ASSUME NEW r \in Req, NEW c \in Caller, BeginUpload(r, c)
      PROVE  FormInv'
  <2>1. PICK f : request' = [request EXCEPT ![r] = [pc |-> "put", kind |-> "upload", by |-> c, file |-> f]]
    BY <1>1 DEF BeginUpload
  <2> DEFINE j == [pc |-> "put", kind |-> "upload", by |-> c, file |-> f]
  <2>2. request' = [request EXCEPT ![r] = j] /\ j.kind # "create" /\ UNCHANGED <<upload, invoice>>
    BY <1>1, <2>1 DEF BeginUpload
  <2> HIDE DEF j
  <2>3. QED BY <2>2, OtherStepKeepsForms
<1>2. ASSUME NEW r \in Req, NEW i \in DOMAIN invoice, NEW f \in File \cup {NoFile},
             NEW kind \in {"replace", "resubmit"}, BeginReplacement(r, kind, i, f)
      PROVE  FormInv'
  <2> DEFINE j == [pc |-> IF f = NoFile THEN "swap" ELSE "put", kind |-> kind, id |-> i,
                   file |-> f, old |-> invoice[i].file, drop |-> NoFile]
  <2>1. request' = [request EXCEPT ![r] = j] /\ UNCHANGED <<upload, invoice>>
    BY <1>2 DEF BeginReplacement
  <2>2. j.kind # "create"
    OBVIOUS
  <2> HIDE DEF j
  <2>3. QED BY <2>1, <2>2, OtherStepKeepsForms
<1>3. ASSUME NEW r \in Req, EndRequest(r), UNCHANGED <<upload, invoice>>
      PROVE  FormInv'
  <2>1. NoRequest.kind # "create" /\ request' = [request EXCEPT ![r] = NoRequest]
    BY <1>3 DEF NoRequest, EndRequest
  <2>2. QED BY <1>3, <2>1, OtherStepKeepsForms
<1>4. ASSUME NEW r \in Req, PutFile(r)
      PROVE  FormInv'
  <2>1. CASE EndRequest(r)
    BY <1>3, <1>4, <2>1 DEF PutFile
  <2>2. ASSUME NEW pc, GoOn(r, pc)
        PROVE  FormInv'
    <3>1. request' = [request EXCEPT ![r] = [request[r] EXCEPT !.pc = pc]]
      BY <2>2, GotoIsStep
    <3>2. request[r] \in UploadJob \/ request[r] \in EditJob
      BY <1>4, JobKinds DEF TypeOK, PutFile, NoRequest, CreateJob
    <3>3. [request[r] EXCEPT !.pc = pc].kind # "create"
      BY <3>2 DEF UploadJob, EditJob
    <3>4. QED BY <1>4, <3>1, <3>3, OtherStepKeepsForms DEF PutFile
  <2>3. QED BY <1>4, <2>1, <2>2 DEF PutFile
<1>5. ASSUME NEW r \in Req, RecordUpload(r)
      PROVE  FormInv'
  <2>1. CASE upload' = upload
    BY <1>3, <1>5, <2>1 DEF RecordUpload
  <2>2. CASE upload' # upload
    <3>1. /\ \A f \in DOMAIN upload : f # request[r].file => upload'[f] = upload[f]
          /\ DOMAIN upload \subseteq DOMAIN upload'
      BY <1>5, <2>2 DEF RecordUpload, Extend
    <3>2. request[r].file \notin DOMAIN upload
      <4>1. Makes(r, request[r].file) /\ request[r].file \in File
        BY <1>5, JobKinds DEF RecordUpload, Running, Makes, TypeOK, UploadJob
      <4>2. QED BY <4>1 DEF FileInv, NewIsApart
    <3>3. request'[r] = NoRequest /\ \A q \in Req \ {r} : request'[q] = request[q]
      BY <1>5 DEF RecordUpload, EndRequest, TypeOK
    <3>4. UNCHANGED invoice
      BY <1>5 DEF RecordUpload
    <3>5. request'[r].kind # "create"
      BY <3>3 DEF NoRequest
    <3>6. QED BY <3>1, <3>2, <3>3, <3>4, <3>5, FormsFrame
  <2>3. QED BY <2>1, <2>2
<1>6. ASSUME NEW r \in Req, FindDuplicate(r) \/ AnswerLoser(r)
      PROVE  FormInv'
  <2>1. {i \in Produced(request[r].sub) : invoice[i].by = request[r].by} \subseteq Produced(request[r].sub)
    OBVIOUS
  <2>2. QED BY <1>6, <2>1, AnswerKeepsForms DEF FindDuplicate, AnswerLoser, Running
<1>7. ASSUME NEW r \in Req, ConsumeUpload(r) \/ InsertInvoice(r)
      PROVE  FormInv'
  BY <1>7, GotoKeepsForms DEF ConsumeUpload, InsertInvoice, Running
<1>8. ASSUME NEW r \in Req, Answered(r) \/ DropFile(r) \/ CrashRequest(r)
      PROVE  FormInv'
  BY <1>3, <1>8 DEF Answered, DropFile, CrashRequest
<1>9. ASSUME NEW r \in Req, SwapFile(r)
      PROVE  FormInv'
  <2>1. request[r] \in EditJob
    BY <1>9, JobKinds DEF TypeOK, SwapFile
  <2>2. PICK d : request' = [request EXCEPT ![r] = [request[r] EXCEPT !.pc = "drop", !.drop = d]]
    BY <1>9 DEF TypeOK, SwapFile
  <2>3. [request[r] EXCEPT !.pc = "drop", !.drop = d].kind # "create"
    BY <2>1 DEF EditJob
  <2>4. /\ UNCHANGED upload /\ DOMAIN invoice' = DOMAIN invoice
        /\ \A i \in DOMAIN invoice : invoice'[i].sub = invoice[i].sub
                                     /\ invoice'[i].bound = invoice[i].bound
    BY <1>9 DEF SwapFile, TypeOK, Invoice
  <2>5. QED BY <2>2, <2>3, <2>4, OtherStepKeepsForms
<1>10. CASE (\E f \in File : Expire(f)) \/ \E i \in DOMAIN invoice : SendBack(i)
  <2>1. /\ UNCHANGED request /\ DOMAIN upload' = DOMAIN upload /\ DOMAIN invoice' = DOMAIN invoice
        /\ \A f \in DOMAIN upload : upload'[f].by = upload[f].by
                                    /\ upload'[f].consumed = upload[f].consumed
        /\ \A i \in DOMAIN invoice : invoice'[i].sub = invoice[i].sub
                                     /\ invoice'[i].bound = invoice[i].bound
    BY <1>10 DEF Expire, SendBack, TypeOK, Upload, Invoice
  <2>2. QED BY <2>1, FormsFrame
<1>11. QED
  BY StepCases, <1>1, <1>2, <1>4, <1>5, <1>6, <1>7, <1>8, <1>9, <1>10,
     BeginCreateKeepsForms, CommitKeepsForms

\* Together they are inductive.
LEMMA IntakeFollows == IntakeInv /\ [IntakeNext]_intakeVars => IntakeInv'
<1>1. SUFFICES ASSUME IntakeInv, [IntakeNext]_intakeVars PROVE IntakeInv'
  OBVIOUS
<1>2. CASE IntakeNext
  BY <1>1, <1>2, NextTyped, NextKeepsEdits, NextKeepsFiles, NextKeepsForms DEF IntakeInv, FormInv
<1>3. CASE UNCHANGED intakeVars
  BY <1>1, <1>3
  DEF intakeVars, IntakeInv, TypeOK, EditsAreGrounded, FileInv, FormInv, KeysAreMinted, NewIsApart,
      OfferedIsStored, AuthoritativeIsStored, IsDocumentOf, ClaimsHold, ClaimHolds,
      OwnersAgree, OnePerForm, Makes, Displaces, Discards, Editing, Undisturbed, Unused,
      Creating, UploadInFlight, SubmissionInFlight, Running, Produced
<1>4. QED BY <1>1, <1>2, <1>3

\* Without rows and jobs there is nothing to violate.
LEMMA IntakeStarts == IntakeInit => IntakeInv
<1>1. SUFFICES ASSUME IntakeInit PROVE IntakeInv
  OBVIOUS
<1>2. TypeOK
  BY <1>1 DEF IntakeInit, TypeOK, Job
<1>3. \A r \in Req : request[r] = NoRequest /\ NoRequest.kind = "none" /\ NoRequest.pc = "idle"
  BY <1>1 DEF IntakeInit, NoRequest
<1>4. \A r \in Req : \A f, i : ~Makes(r, f) /\ ~Discards(r, f) /\ ~Displaces(r, i, f)
  BY <1>3 DEF Makes, Discards, Displaces, Editing
<1>5. FileInv
  BY <1>1, <1>4 DEF IntakeInit, FileInv, KeysAreMinted, NewIsApart, OfferedIsStored,
                    AuthoritativeIsStored
<1>6. FormInv
  BY <1>1, <1>3 DEF IntakeInit, FormInv, ClaimsHold, OwnersAgree, OnePerForm
<1>7. EditsAreGrounded
  BY <1>3 DEF EditsAreGrounded, Editing
<1>8. QED BY <1>2, <1>5, <1>6, <1>7 DEF IntakeInv

\* The document an invoice points to is in the storage, whatever uploads,
\* replacements (replaceInvoiceFile, saveAndResubmitInvoice) and crashes overlap.
THEOREM DocumentIsKept == IntakeSpec => []FileIsStored
<1>1. IntakeInv => FileIsStored
  BY DEF IntakeInv, FileInv, AuthoritativeIsStored, IsDocumentOf, FileIsStored
<1>2. QED
  BY <1>1, IntakeStarts, IntakeFollows, PTL DEF IntakeSpec

\* A form (createAndSubmitInvoice) produces at most one invoice, however often it is
\* sent and whichever of the attempts crash, and is answered with its own.
THEOREM FormMakesOne == IntakeSpec => []OneInvoicePerForm
<1>1. IntakeInv => OneInvoicePerForm
  <2>1. SUFFICES ASSUME IntakeInv PROVE OneInvoicePerForm
    OBVIOUS
  <2>2. ASSUME NEW s \in Submission PROVE Cardinality(Produced(s)) <= 1
    <3>1. CASE Produced(s) = {}
      BY <3>1, FS_EmptySet
    <3>2. CASE Produced(s) # {}
      <4>1. PICK i : Produced(s) = {i}
        BY <2>1, <3>2 DEF IntakeInv, FormInv, OnePerForm, Produced
      <4>2. QED BY <4>1, FS_Singleton
    <3>3. QED BY <3>1, <3>2
  <2>3. ASSUME NEW r \in Req, request[r].kind = "create", request[r].answer # NoInvoice
        PROVE  /\ invoice[request[r].answer].sub = request[r].sub
               /\ upload[invoice[request[r].answer].bound].by = request[r].by
    BY <2>1, <2>3 DEF IntakeInv, FormInv, OwnersAgree
  <2>4. QED BY <2>2, <2>3 DEF OneInvoicePerForm
<1>2. QED
  BY <1>1, IntakeStarts, IntakeFollows, PTL DEF IntakeSpec

\* Every reachable state is well typed.
THEOREM TypeCorrect == IntakeSpec => []TypeOK
<1>1. IntakeInv => TypeOK
  BY DEF IntakeInv
<1>2. QED
  BY <1>1, IntakeStarts, IntakeFollows, PTL DEF IntakeSpec

\* The handlers by what they work on, and the steps of each.
RegisterSteps == {"edit reads", "edit writes", "toggle", "bind", "archive", "hard delete", "purge"}
ImportSteps   == {"batch", "open", "registers", "next", "check", "store", "items", "sum up",
                  "read day", "write day", "read lines", "clear", "write categories", "lines",
                  "close"}
CashierSteps  == {"identities", "suggestion", "suggest", "open mappings", "lock", "guard",
                  "assign", "closing", "exclude"}
SalesSteps    == {"receipts", "attribute", "calculations"}

RegisterStep(s) ==
  \/ EditReads(s)
  \/ EditWrites(s)
  \/ Toggle(s)
  \/ Bind(s)
  \/ Archive(s)
  \/ HardDelete(s)
  \/ Purge(s)

RunStep(s) ==
  \/ TakeConnection(s)
  \/ OpenRun(s)
  \/ ReadRegisters(s)
  \/ WrongAccount(s)
  \/ CloseRun(s)

FetchStep(s) ==
  \/ FetchRegister(s)
  \/ FetchPage(s)
  \/ EndOfRegisters(s)
  \/ CheckStored(s)
  \/ StoreReceipts(s)
  \/ SaveItems(s)

SumUpStep(s) ==
  \/ NextDay(s)
  \/ ReadDay(s)
  \/ WriteDay(s)
  \/ ReadLines(s)
  \/ ClearCategories(s)
  \/ WriteCategories(s)
  \/ Reclassify(s)

ImportStep(s) == RunStep(s) \/ FetchStep(s) \/ SumUpStep(s)

CashierStep(s) ==
  \/ SyncIdentity(s)
  \/ FindMapping(s)
  \/ Suggest(s)
  \/ ReadOpen(s)
  \/ LockMappings(s)
  \/ Guard(s)
  \/ Assign(s)
  \/ LockOpen(s)
  \/ Exclude(s)

SalesStep(s) ==
  \/ ResolveSale(s)
  \/ Attribute(s)
  \/ UpdateCalculation(s)

\* Only one slot moves.
Elsewhere(s) == \A q \in Slot \ {s} : job'[q] = job[q]

JobFields == {"step", "call", "queue", "conn", "legal", "todo", "batch", "touched", "key", "read",
              "rule", "bad", "good", "register", "to", "seen", "receipt", "sums", "locks"}

\* Every job has its fields; what some of them hold depends on the handler.
JobsAreShaped == DOMAIN job = Slot /\ \A s \in Slot : DOMAIN job[s] = JobFields

Moves(s, from, to) ==
  /\ Elsewhere(s) /\ scenario' = scenario /\ JobsAreShaped'
  /\ job[s].step \in from /\ job'[s].step \in to

LEMMA WriteIsStep ==
  ASSUME NEW s \in Slot
  PROVE  Write(s) <=> RegisterStep(s) \/ ImportStep(s) \/ CashierStep(s) \/ SalesStep(s)
BY DEF Write, RegisterStep, ImportStep, CashierStep, SalesStep, RunStep, FetchStep, SumUpStep

LEMMA RegisterStepMoves ==
  ASSUME JobsAreShaped, NEW s \in Slot, RegisterStep(s)
  PROVE  Moves(s, RegisterSteps, {"edit writes", "idle"})
<1> USE DEF Moves, Elsewhere, JobsAreShaped, JobFields, RegisterSteps, At, Finish, Idle, Goto
<1>1. CASE EditReads(s)   BY <1>1 DEF EditReads
<1>2. CASE EditWrites(s)  BY <1>2 DEF EditWrites
<1>3. CASE Toggle(s)      BY <1>3 DEF Toggle
<1>4. CASE Bind(s)        BY <1>4 DEF Bind
<1>5. CASE Archive(s)     BY <1>5 DEF Archive
<1>6. CASE HardDelete(s)  BY <1>6 DEF HardDelete
<1>7. CASE Purge(s)       BY <1>7 DEF Purge
<1>8. QED
  BY <1>1, <1>2, <1>3, <1>4, <1>5, <1>6, <1>7 DEF RegisterStep

LEMMA RunStepMoves ==
  ASSUME JobsAreShaped, NEW s \in Slot, RunStep(s)
  PROVE  Moves(s, ImportSteps, ImportSteps \cup {"idle"})
<1> USE DEF Moves, Elsewhere, JobsAreShaped, JobFields, ImportSteps, At, Finish, Idle, Goto, NextConnection
<1>1. CASE TakeConnection(s)
  <2>1. CASE job[s].queue = {} /\ Finish(s)
    BY <1>1, <2>1 DEF TakeConnection
  <2>2. CASE ~(job[s].queue = {} /\ Finish(s))
    <3>1. PICK c \in job[s].queue :
            LET left == [Idle EXCEPT !.step = "batch", !.call = "import", !.queue = job[s].queue \ {c}]
            IN  job' = [job EXCEPT ![s] =
                  IF ~connection[c].isActive \/ Busy(c) THEN left
                  ELSE [left EXCEPT !.step = "open", !.conn = c, !.legal = connection[c].legal]]
      BY <1>1, <2>2 DEF TakeConnection
    <3>2. QED
      BY <1>1, <3>1 DEF TakeConnection
  <2>3. QED
    BY <2>1, <2>2
<1>2. CASE OpenRun(s)         BY <1>2 DEF OpenRun
<1>3. CASE ReadRegisters(s)   BY <1>3 DEF ReadRegisters
<1>4. CASE WrongAccount(s)    BY <1>4 DEF WrongAccount
<1>5. CASE CloseRun(s)        BY <1>5 DEF CloseRun
<1>6. QED
  BY <1>1, <1>2, <1>3, <1>4, <1>5 DEF RunStep

LEMMA FetchStepMoves ==
  ASSUME JobsAreShaped, NEW s \in Slot, FetchStep(s)
  PROVE  Moves(s, ImportSteps, ImportSteps \cup {"idle"})
<1> USE DEF Moves, Elsewhere, JobsAreShaped, JobFields, ImportSteps, At, Finish, Idle, Goto, NextConnection
<1>1. CASE FetchRegister(s)
  <2>1. PICK m \in job[s].todo :
           \/ SkipRegister(s, m)
           \/ \E got \in SUBSET {x \in Receipt : DriveOf[x] = m.drive /\ SourceOf[x] = "taxcom"},
                 failed \in BOOLEAN : TakeRegister(s, m, got, failed)
    BY <1>1 DEF FetchRegister
  <2>2. job[s].step = "next" /\ scenario' = scenario
    BY <1>1 DEF FetchRegister
  <2>3. CASE SkipRegister(s, m)
    BY <2>2, <2>3 DEF SkipRegister
  <2>4. CASE ~SkipRegister(s, m)
    <3>1. PICK got, failed : TakeRegister(s, m, got, failed)
      BY <2>1, <2>4
    <3>2. CASE got = {}
      BY <2>2, <3>1, <3>2 DEF TakeRegister
    <3>3. CASE got # {}
      BY <2>2, <3>1, <3>3 DEF TakeRegister
    <3>4. QED
      BY <3>2, <3>3
  <2>5. QED
    BY <2>3, <2>4
<1>2. CASE FetchPage(s)       BY <1>2 DEF FetchPage
<1>3. CASE EndOfRegisters(s)  BY <1>3 DEF EndOfRegisters
<1>4. CASE CheckStored(s)     BY <1>4 DEF CheckStored
<1>5. CASE StoreReceipts(s)
  <2>1. \/ NextConnection(s)
        \/ job' = [job EXCEPT ![s].step = "items", ![s].good = TRUE,
                              ![s].touched = @ \cup Touched(s, job[s].batch)]
    BY <1>5 DEF StoreReceipts
  <2>2. job[s].step = "store" /\ scenario' = scenario
    BY <1>5 DEF StoreReceipts
  <2>3. QED
    BY <2>1, <2>2
<1>6. CASE SaveItems(s)       BY <1>6 DEF SaveItems
<1>7. QED
  BY <1>1, <1>2, <1>3, <1>4, <1>5, <1>6 DEF FetchStep

LEMMA SumUpStepMoves ==
  ASSUME JobsAreShaped, NEW s \in Slot, SumUpStep(s)
  PROVE  Moves(s, ImportSteps, ImportSteps \cup {"idle"})
<1> USE DEF Moves, Elsewhere, JobsAreShaped, JobFields, ImportSteps, At, Finish, Idle, Goto, NextConnection
<1>1. CASE NextDay(s)
  <2>1. CASE job[s].touched = {} /\ (Finish(s) \/ Goto(s, "close"))
    <3>1. CASE Finish(s)
      BY <1>1, <3>1 DEF NextDay
    <3>2. CASE Goto(s, "close")
      BY <1>1, <3>2 DEF NextDay
    <3>3. QED
      BY <2>1, <3>1, <3>2
  <2>2. CASE ~(job[s].touched = {} /\ (Finish(s) \/ Goto(s, "close")))
    <3>1. PICK k \in job[s].touched :
            job' = [job EXCEPT ![s].key = k, ![s].touched = @ \ {k},
                      ![s].step = IF job[s].call = "reclassify" THEN "read lines" ELSE "read day"]
      BY <1>1, <2>2 DEF NextDay
    <3>2. QED
      BY <1>1, <3>1 DEF NextDay
  <2>3. QED
    BY <2>1, <2>2
<1>2. CASE ReadDay(s)          BY <1>2 DEF ReadDay
<1>3. CASE WriteDay(s)         BY <1>3 DEF WriteDay
<1>4. CASE ReadLines(s)        BY <1>4 DEF ReadLines
<1>5. CASE ClearCategories(s)  BY <1>5 DEF ClearCategories
<1>6. CASE WriteCategories(s)
  <2>1. \/ Finish(s)
        \/ NextConnection(s)
        \/ job' = [job EXCEPT ![s].step = "sum up", ![s].key = <<>>, ![s].read = {}]
    BY <1>6 DEF WriteCategories
  <2>2. job[s].step = "write categories" /\ scenario' = scenario
    BY <1>6 DEF WriteCategories
  <2>3. CASE Finish(s)
    BY <2>2, <2>3
  <2>4. CASE NextConnection(s)
    BY <2>2, <2>4
  <2>5. CASE job' = [job EXCEPT ![s].step = "sum up", ![s].key = <<>>, ![s].read = {}]
    BY <2>2, <2>5
  <2>6. QED
    BY <2>1, <2>3, <2>4, <2>5
<1>7. CASE Reclassify(s)
  <2>1. \/ Finish(s)
        \/ Goto(s, "sum up")
        \/ \E x \in job[s].todo : job' = [job EXCEPT ![s].todo = @ \ {x}]
    BY <1>7 DEF Reclassify
  <2>2. job[s].step = "lines" /\ scenario' = scenario
    BY <1>7 DEF Reclassify
  <2>3. CASE Finish(s)
    BY <2>2, <2>3
  <2>4. CASE Goto(s, "sum up")
    BY <2>2, <2>4
  <2>5. CASE \E x \in job[s].todo : job' = [job EXCEPT ![s].todo = @ \ {x}]
    BY <2>2, <2>5
  <2>6. QED
    BY <2>1, <2>3, <2>4, <2>5
<1>8. QED
  BY <1>1, <1>2, <1>3, <1>4, <1>5, <1>6, <1>7 DEF SumUpStep

LEMMA ImportStepMoves ==
  ASSUME JobsAreShaped, NEW s \in Slot, ImportStep(s)
  PROVE  Moves(s, ImportSteps, ImportSteps \cup {"idle"})
BY RunStepMoves, FetchStepMoves, SumUpStepMoves DEF ImportStep

LEMMA CashierStepMoves ==
  ASSUME JobsAreShaped, NEW s \in Slot, CashierStep(s)
  PROVE  Moves(s, CashierSteps, CashierSteps \cup {"idle"})
<1> USE DEF Moves, Elsewhere, JobsAreShaped, JobFields, CashierSteps, At, Finish, Idle, Goto
<1>1. CASE SyncIdentity(s)
  <2>1. \/ Finish(s)
        \/ \E i \in job[s].todo :
             job' = [job EXCEPT ![s].todo = @ \ {i}, ![s].key = i, ![s].step = "suggestion"]
    BY <1>1 DEF SyncIdentity
  <2>2. job[s].step = "identities" /\ scenario' = scenario
    BY <1>1 DEF SyncIdentity
  <2>3. CASE Finish(s)
    BY <2>2, <2>3
  <2>4. CASE \E i \in job[s].todo :
             job' = [job EXCEPT ![s].todo = @ \ {i}, ![s].key = i, ![s].step = "suggestion"]
    <3>1. PICK i \in job[s].todo :
            job' = [job EXCEPT ![s].todo = @ \ {i}, ![s].key = i, ![s].step = "suggestion"]
      BY <2>4
    <3>2. QED
      BY <2>2, <3>1
  <2>5. QED
    BY <2>1, <2>3, <2>4
<1>2. CASE FindMapping(s)   BY <1>2 DEF FindMapping
<1>3. CASE Suggest(s)       BY <1>3 DEF Suggest
<1>4. CASE ReadOpen(s)      BY <1>4 DEF ReadOpen
<1>5. CASE LockMappings(s)  BY <1>5 DEF LockMappings
<1>6. CASE Guard(s)
  <2>1. Finish(s) \/ Goto(s, "assign")
    BY <1>6 DEF Guard
  <2>2. job[s].step = "guard" /\ scenario' = scenario
    BY <1>6 DEF Guard
  <2>3. CASE Finish(s)
    BY <2>2, <2>3
  <2>4. CASE Goto(s, "assign")
    BY <2>2, <2>4
  <2>5. QED
    BY <2>1, <2>3, <2>4
<1>7. CASE Assign(s)        BY <1>7 DEF Assign
<1>8. CASE LockOpen(s)      BY <1>8 DEF LockOpen
<1>9. CASE Exclude(s)       BY <1>9 DEF Exclude
<1>10. QED
  BY <1>1, <1>2, <1>3, <1>4, <1>5, <1>6, <1>7, <1>8, <1>9 DEF CashierStep

LEMMA SalesStepMoves ==
  ASSUME JobsAreShaped, NEW s \in Slot, SalesStep(s)
  PROVE  Moves(s, SalesSteps, SalesSteps \cup {"idle"})
<1> USE DEF Moves, Elsewhere, JobsAreShaped, JobFields, SalesSteps, At, Finish, Idle, Goto
<1>1. CASE ResolveSale(s)
  <2>1. \/ job' = [job EXCEPT ![s].step = "calculations", ![s].todo = Employee]
        \/ \E x \in job[s].todo :
             LET e == IF receipt[x] = NoReceipt THEN None ELSE SaleEmployee(x)
             IN  job' = [job EXCEPT ![s].todo = @ \ {x},
                           ![s].step = IF e = None THEN "receipts" ELSE "attribute",
                           ![s].receipt = x, ![s].to = [employee |-> e]]
    BY <1>1 DEF ResolveSale
  <2>2. job[s].step = "receipts" /\ scenario' = scenario
    BY <1>1 DEF ResolveSale
  <2>3. CASE job' = [job EXCEPT ![s].step = "calculations", ![s].todo = Employee]
    BY <2>2, <2>3
  <2>4. CASE \E x \in job[s].todo :
             LET e == IF receipt[x] = NoReceipt THEN None ELSE SaleEmployee(x)
             IN  job' = [job EXCEPT ![s].todo = @ \ {x},
                           ![s].step = IF e = None THEN "receipts" ELSE "attribute",
                           ![s].receipt = x, ![s].to = [employee |-> e]]
    <3>1. PICK x \in job[s].todo :
            LET e == IF receipt[x] = NoReceipt THEN None ELSE SaleEmployee(x)
             IN  job' = [job EXCEPT ![s].todo = @ \ {x},
                           ![s].step = IF e = None THEN "receipts" ELSE "attribute",
                           ![s].receipt = x, ![s].to = [employee |-> e]]
      BY <2>4
    <3>2. QED
      BY <2>2, <3>1
  <2>5. QED
    BY <2>1, <2>3, <2>4
<1>2. CASE Attribute(s)          BY <1>2 DEF Attribute
<1>3. CASE UpdateCalculation(s)  BY <1>3 DEF UpdateCalculation
<1>4. QED
  BY <1>1, <1>2, <1>3 DEF SalesStep

\* Rows that only other handlers write.
Registers == <<register, history>>
Sales     == <<attribution, sales>>
Cashiers  == <<identity, mapping>>

\* What is stored stays, with the binding it was imported with.
ReceiptsStay == \A x \in Stored : receipt'[x] = receipt[x]

LEMMA RegisterKeeps ==
  ASSUME NEW s \in Slot, RegisterStep(s)
  PROVE  /\ UNCHANGED <<connection, sync, daily, category, rule, sales, scenario>>
         /\ job[s].step # "purge" => UNCHANGED <<receipt, item, Cashiers, Sales>>
BY DEF RegisterStep, EditReads, EditWrites, Toggle, Bind, Archive, HardDelete, Purge,
       OnlyRegisters, At, rows, Cashiers, Sales

LEMMA ImportKeeps ==
  ASSUME NEW s \in Slot, ImportStep(s)
  PROVE  UNCHANGED <<connection, Registers, Cashiers, Sales, scenario>> /\ ReceiptsStay
<1>1. ASSUME RunStep(s)
      PROVE  UNCHANGED <<connection, Registers, Cashiers, Sales, scenario, receipt>>
  BY <1>1 DEF RunStep, TakeConnection, OpenRun, ReadRegisters, WrongAccount, CloseRun, OnlySync,
              At, rows, Registers, Cashiers, Sales
<1>2. ASSUME SumUpStep(s)
      PROVE  UNCHANGED <<connection, Registers, Cashiers, Sales, scenario, receipt>>
  BY <1>2 DEF SumUpStep, NextDay, ReadDay, WriteDay, ReadLines, ClearCategories, WriteCategories,
              Reclassify, OnlySummaries, At, rows, Registers, Cashiers, Sales
<1>3. CASE StoreReceipts(s)
  <2>1. UNCHANGED <<connection, Registers, Cashiers, Sales, scenario>>
    BY <1>3 DEF StoreReceipts, OnlyReceipts, At, Registers, Cashiers, Sales
  <2>2. ReceiptsStay
    BY <1>3 DEF StoreReceipts, ReceiptsStay, Stored
  <2>3. QED
    BY <2>1, <2>2
<1>4. ASSUME FetchStep(s), ~StoreReceipts(s)
      PROVE  UNCHANGED <<connection, Registers, Cashiers, Sales, scenario, receipt>>
  BY <1>4 DEF FetchStep, FetchRegister, FetchPage, EndOfRegisters, CheckStored, SaveItems,
              At, rows, Registers, Cashiers, Sales
<1>5. QED
  BY <1>1, <1>2, <1>3, <1>4 DEF ImportStep, ReceiptsStay

LEMMA CashierKeeps ==
  ASSUME NEW s \in Slot, CashierStep(s)
  PROVE  UNCHANGED <<connection, Registers, sync, receipt, item, daily, category, rule, Sales, scenario>>
BY DEF CashierStep, SyncIdentity, FindMapping, Suggest, ReadOpen, LockMappings, Guard, Assign,
       LockOpen, Exclude, OnlyCashiers, At, rows, Registers, Sales

LEMMA SalesKeep ==
  ASSUME NEW s \in Slot, SalesStep(s)
  PROVE  UNCHANGED <<connection, Registers, sync, receipt, item, daily, category, rule, Cashiers, scenario>>
BY DEF SalesStep, ResolveSale, Attribute, UpdateCalculation, At, rows, Registers, Cashiers

LEMMA SettingsKeep ==
  ASSUME Settings
  PROVE  UNCHANGED <<history, sync, receipt, item, daily, category, Cashiers, Sales, scenario, job>>
BY DEF Settings, AddRegister, UpdateBinding, Unbind, ToggleConnection, SelectOrganization, SaveRule,
       OnlyRegisters, Cashiers, Sales

-----------------------------------------------------------------------------
\* A request begins.
Starts(s) ==
  \/ \E r \in Register : BeginRegister(s, r)
  \/ \E c \in Connection : BeginSource(s, c)
  \/ \E i \in Identity : BeginCashier(s, i)
  \/ BeginBatch(s)
  \/ BeginReclassify(s)
  \/ BeginSync(s)
  \/ BeginApply(s)

FirstSteps == {"edit reads", "toggle", "bind", "archive", "hard delete", "purge", "batch", "lines",
               "identities", "receipts", "open mappings", "closing"}

Mapped == {m \in Mid : mapping[m] # NoMapping}

\* What an edit, a switch, a binding and a deletion go by.
EditGoesBy(j) ==
  /\ j.register \in Existing /\ j.to.drive \in Drive
  /\ j.seen.status = register[j.register].status
  /\ "renumber" \notin scenario.calls => j.to.drive = register[j.register].drive

ToggleGoesBy(j) ==
  /\ j.register \in Existing /\ ProviderAt(j.register) = "taxcom"
  /\ j.seen.drive = register[j.register].drive

BindGoesBy(j) ==
  /\ j.register \in Register /\ ProviderOf[j.conn] = "astral" /\ j.to.drive \in Drive
  /\ j.seen # NoRegister => /\ j.register \in Existing
                            /\ ProviderAt(j.register) = "astral"
                            /\ register[j.register].drive = j.to.drive

DeleteGoesBy(j) == j.register \in Existing /\ ImportedBy(j.register) = {}

\* Whom an assignment is about, and from when.
KnownOn(j) == j.key \in Identity /\ identity[j.key] # NoIdentity /\ j.to.from \in {DayOf[x] : x \in Receipt}

\* What is known of a job that begins, besides the step it begins at.
Fresh(call, j) ==
  /\ DOMAIN j = JobFields /\ j.step \in FirstSteps
  /\ j.sums = [e \in Employee |-> {}]
  /\ j.step = "receipts" => j.todo \subseteq Stored
  /\ j.step = "closing" => j.todo = {m \in RowsOf(j.key) : mapping[m].to = Open}
  /\ j.step = "open mappings" => KnownOn(j)
  /\ call \in {"assign", "apply"} => j.step \in {"open mappings", "receipts"}
  /\ j.step = "purge" => call = "purge"
  /\ j.step = "edit reads" => EditGoesBy(j)
  /\ j.step = "toggle" => ToggleGoesBy(j)
  /\ j.step = "bind" => BindGoesBy(j)
  /\ j.step = "hard delete" => DeleteGoesBy(j)
  /\ j.step \in {"archive", "purge"} => j.register \in Existing

LEMMA StartIsFresh ==
  ASSUME NEW s \in Slot, Starts(s)
  PROVE  \E call, j : Begin(s, call, j) /\ Fresh(call, j)
<1>1. ASSUME NEW r \in Register, NEW d \in Drive, NEW b \in scenario.bindings,
             BeginEdit(s, r, d, b[1], b[2])
      PROVE  \E call, j : Begin(s, call, j) /\ Fresh(call, j)
  <2> DEFINE j == [Idle EXCEPT !.step = "edit reads", !.register = r, !.seen = register[r],
                        !.to = [drive |-> d, club |-> b[1], legal |-> b[2]]]
  <2>1. Begin(s, "edit", j)
    BY <1>1 DEF BeginEdit
  <2>2. Fresh("edit", j)
    BY <1>1 DEF Fresh, JobFields, FirstSteps, Idle, BeginEdit, EditGoesBy
  <2> HIDE DEF j
  <2>3. QED
    BY <2>1, <2>2
<1>2. ASSUME NEW r \in Register, BeginToggle(s, r)
      PROVE  \E call, j : Begin(s, call, j) /\ Fresh(call, j)
  <2> DEFINE j == [Idle EXCEPT !.step = "toggle", !.register = r, !.seen = register[r]]
  <2>1. Begin(s, "toggle", j)
    BY <1>2 DEF BeginToggle
  <2>2. Fresh("toggle", j)
    BY <1>2 DEF Fresh, JobFields, FirstSteps, Idle, BeginToggle, ToggleGoesBy
  <2> HIDE DEF j
  <2>3. QED
    BY <2>1, <2>2
<1>3. ASSUME NEW r \in Register, BeginDelete(s, r)
      PROVE  \E call, j : Begin(s, call, j) /\ Fresh(call, j)
  <2> DEFINE j == [Idle EXCEPT !.register = r,
                        !.step = IF BlockingHistory(r) THEN "archive" ELSE "hard delete"]
  <2>1. Begin(s, "delete", j)
    BY <1>3 DEF BeginDelete
  <2>2. Fresh("delete", j)
    BY <1>3 DEF Fresh, JobFields, FirstSteps, Idle, BeginDelete, DeleteGoesBy, BlockingHistory
  <2> HIDE DEF j
  <2>3. QED
    BY <2>1, <2>2
<1>4. ASSUME NEW r \in Register, BeginPurge(s, r)
      PROVE  \E call, j : Begin(s, call, j) /\ Fresh(call, j)
  <2> DEFINE j == [Idle EXCEPT !.step = "purge", !.register = r, !.seen = register[r],
                        !.batch = ImportedBy(r)]
  <2>1. Begin(s, "purge", j)
    BY <1>4 DEF BeginPurge
  <2>2. Fresh("purge", j)
    BY <1>4 DEF Fresh, JobFields, FirstSteps, Idle, BeginPurge
  <2> HIDE DEF j
  <2>3. QED
    BY <2>1, <2>2
<1>5. ASSUME NEW c \in Connection, BeginImport(s, c)
      PROVE  \E call, j : Begin(s, call, j) /\ Fresh(call, j)
  <2> DEFINE j == [Idle EXCEPT !.step = "batch", !.call = "import", !.queue = {c}]
  <2>1. Begin(s, "import", j)
    BY <1>5 DEF BeginImport
  <2>2. Fresh("import", j)
    BY DEF Fresh, JobFields, FirstSteps, Idle
  <2> HIDE DEF j
  <2>3. QED
    BY <2>1, <2>2
<1>6. ASSUME NEW c \in Connection, NEW d \in Drive, NEW b \in scenario.bindings,
             BeginBind(s, c, d, b[1], b[2])
      PROVE  \E call, j : Begin(s, call, j) /\ Fresh(call, j)
  <2>0. /\ ProviderOf[c] = "astral"
        /\ \E r \in Register :
             /\ LET found == {q \in Existing : ProviderAt(q) = "astral" /\ register[q].drive = d}
                IN  r \in (IF found # {} THEN found ELSE Register \ Existing)
             /\ Begin(s, "bind", [Idle EXCEPT !.step = "bind", !.register = r, !.conn = c,
                                  !.seen = register[r], !.to = [drive |-> d, club |-> b[1], legal |-> b[2]]])
    BY <1>6 DEF BeginBind
  <2> DEFINE found == {q \in Existing : ProviderAt(q) = "astral" /\ register[q].drive = d}
  <2> PICK r \in Register :
         /\ r \in (IF found # {} THEN found ELSE Register \ Existing)
         /\ Begin(s, "bind", [Idle EXCEPT !.step = "bind", !.register = r, !.conn = c,
                              !.seen = register[r], !.to = [drive |-> d, club |-> b[1], legal |-> b[2]]])
    BY <2>0
  <2> DEFINE j == [Idle EXCEPT !.step = "bind", !.register = r, !.conn = c, !.seen = register[r],
                        !.to = [drive |-> d, club |-> b[1], legal |-> b[2]]]
  <2>1. Begin(s, "bind", j)
    OBVIOUS
  <2>2. Fresh("bind", j)
    BY <2>0 DEF Fresh, JobFields, FirstSteps, Idle, BindGoesBy, Existing
  <2> HIDE DEF j
  <2>3. QED
    BY <2>1, <2>2
<1>7. ASSUME NEW i \in Identity, BeginExclude(s, i)
      PROVE  \E call, j : Begin(s, call, j) /\ Fresh(call, j)
  <2> DEFINE j == [Idle EXCEPT !.step = "closing", !.key = i,
                        !.todo = {m \in RowsOf(i) : mapping[m].to = Open}]
  <2>1. Begin(s, "exclude", j)
    BY <1>7 DEF BeginExclude
  <2>2. Fresh("exclude", j)
    BY DEF Fresh, JobFields, FirstSteps, Idle
  <2> HIDE DEF j
  <2>3. QED
    BY <2>1, <2>2
<1>8. ASSUME NEW i \in Identity, NEW e \in Employee, NEW d \in {DayOf[x] : x \in Receipt},
             BeginAssign(s, i, e, d)
      PROVE  \E call, j : Begin(s, call, j) /\ Fresh(call, j)
  <2> DEFINE j == [Idle EXCEPT !.step = "open mappings", !.key = i,
                        !.to = [employee |-> e, from |-> d]]
  <2>1. Begin(s, "assign", j)
    BY <1>8 DEF BeginAssign
  <2>2. Fresh("assign", j)
    BY <1>8 DEF Fresh, JobFields, FirstSteps, Idle, BeginAssign, KnownOn
  <2> HIDE DEF j
  <2>3. QED
    BY <2>1, <2>2
<1>9. CASE BeginBatch(s)
  <2> DEFINE j == [Idle EXCEPT !.step = "batch", !.call = "import",
                     !.queue = {c \in Connection : connection[c].isActive}]
  <2>1. Begin(s, "batch", j)
    BY <1>9 DEF BeginBatch
  <2>2. Fresh("batch", j)
    BY DEF Fresh, JobFields, FirstSteps, Idle
  <2> HIDE DEF j
  <2>3. QED
    BY <2>1, <2>2
<1>10. CASE BeginReclassify(s)
  <2> DEFINE j == [Idle EXCEPT !.step = "lines", !.call = "reclassify", !.rule = rule,
                        !.todo = {x \in WithLines : item[x].category # rule},
                        !.touched = {LinesKey(x) : x \in WithLines}]
  <2>1. Begin(s, "reclassify", j)
    BY <1>10 DEF BeginReclassify
  <2>2. Fresh("reclassify", j)
    BY DEF Fresh, JobFields, FirstSteps, Idle
  <2> HIDE DEF j
  <2>3. QED
    BY <2>1, <2>2
<1>11. CASE BeginSync(s)
  <2> DEFINE j == [Idle EXCEPT !.step = "identities", !.todo = {i \in Identity : SeenOf(i) # {}}]
  <2>1. Begin(s, "sync", j)
    BY <1>11 DEF BeginSync
  <2>2. Fresh("sync", j)
    BY DEF Fresh, JobFields, FirstSteps, Idle
  <2> HIDE DEF j
  <2>3. QED
    BY <2>1, <2>2
<1>12. CASE BeginApply(s)
  <2> DEFINE j == [Idle EXCEPT !.step = "receipts", !.todo = {x \in Stored : CashierOf[x] # None}]
  <2>1. Begin(s, "apply", j)
    BY <1>12 DEF BeginApply
  <2>2. Fresh("apply", j)
    BY DEF Fresh, JobFields, FirstSteps, Idle
  <2> HIDE DEF j
  <2>3. QED
    BY <2>1, <2>2
<1>13. QED
  BY <1>1, <1>2, <1>3, <1>4, <1>5, <1>6, <1>7, <1>8, <1>9, <1>10, <1>11, <1>12
     DEF Starts, BeginRegister, BeginSource, BeginCashier

LEMMA BeginMoves ==
  ASSUME JobsAreShaped, NEW s \in Slot, NEW call, NEW j, Begin(s, call, j), DOMAIN j = JobFields
  PROVE  /\ Elsewhere(s) /\ JobsAreShaped' /\ job'[s] = j /\ job[s].step = "idle"
         /\ UNCHANGED <<rows, scenario>> /\ call \in scenario.calls /\ s \in scenario.slots
BY DEF Begin, Elsewhere, JobsAreShaped

LEMMA CrashMoves ==
  ASSUME JobsAreShaped, NEW s \in Slot, Crash(s)
  PROVE  /\ Elsewhere(s) /\ JobsAreShaped' /\ job'[s] = Idle /\ job[s].step # "idle"
         /\ UNCHANGED <<rows, scenario>> /\ "crash" \in scenario.calls
BY DEF Crash, Finish, Elsewhere, JobsAreShaped, Idle, JobFields

\* The kinds of steps.
LEMMA NextIsStep ==
  ASSUME [Next]_vars
  PROVE  \/ UNCHANGED vars
         \/ Settings
         \/ \E s \in Slot :
              \/ Starts(s)
              \/ RegisterStep(s)
              \/ ImportStep(s)
              \/ CashierStep(s)
              \/ SalesStep(s)
              \/ Crash(s)
BY WriteIsStep DEF Next, Starts

-----------------------------------------------------------------------------
(* What is paid was confirmed.  Without a purge, a mapping that exists     *)
(* keeps its cashier, its employee and its first day, and stays confirmed  *)
(* once it is; a stored receipt keeps its connection.  So the mapping that *)
(* backs a sale when it is resolved backs it for ever.                     *)

MappingFields == {"cashier", "employee", "status", "from", "to", "confirmed"}

MappingsAreShaped ==
  /\ DOMAIN mapping = Mid
  /\ \A m \in Mapped : /\ DOMAIN mapping[m] = MappingFields
                       /\ mapping[m].status = "confirmed" => mapping[m].confirmed

\* The mappings a request goes by exist.
MappingsAreKnown ==
  \A s \in Slot :
    /\ job[s].step \in {"lock", "guard", "assign", "closing"} => job[s].todo \subseteq Mapped
    /\ job[s].step = "exclude" => job[s].locks \subseteq Mapped

Backed(x, e) ==
  /\ x \in Stored
  /\ \E m \in Mapped : /\ mapping[m].cashier = CashierAt(x) /\ mapping[m].employee = e
                       /\ mapping[m].confirmed /\ mapping[m].from <= DayOf[x]

SalesAreBacked ==
  /\ \A x \in Receipt, e \in Employee : attribution[x] = e \/ x \in sales[e] => Backed(x, e)
  /\ \A s \in Slot :
       /\ job[s].step \in {"receipts", "attribute"} => job[s].todo \subseteq Receipt
       /\ job[s].step = "attribute" => Backed(job[s].receipt, job[s].to.employee)
       /\ job[s].step \in SalesSteps => /\ DOMAIN job[s].sums = Employee
                                        /\ \A e \in Employee : \A x \in job[s].sums[e] : Backed(x, e)

RowsHaveIds == DOMAIN attribution = Receipt /\ DOMAIN sales = Employee /\ DOMAIN receipt = Receipt

NoPurge == \A s \in Slot : job[s].step # "purge"

PayInv ==
  JobsAreShaped /\ NoPurge /\ MappingsAreShaped /\ MappingsAreKnown /\ RowsHaveIds /\ SalesAreBacked

\* What a step may do to the mappings that exist.
MappingsStay ==
  \A m \in Mapped :
    /\ m \in Mapped'
    /\ mapping'[m].cashier = mapping[m].cashier /\ mapping'[m].employee = mapping[m].employee
    /\ mapping'[m].from = mapping[m].from
    /\ mapping[m].confirmed => mapping'[m].confirmed

LEMMA BackingStays ==
  ASSUME NEW x, NEW e, Backed(x, e), MappingsStay, ReceiptsStay
  PROVE  Backed(x, e)'
<1>1. x \in Stored /\ x \in Stored' /\ receipt'[x] = receipt[x]
  BY DEF Backed, ReceiptsStay, Stored
<1>2. CashierAt(x)' = CashierAt(x)
  BY <1>1 DEF CashierAt
<1>3. PICK m \in Mapped : /\ mapping[m].cashier = CashierAt(x) /\ mapping[m].employee = e
                          /\ mapping[m].confirmed /\ mapping[m].from <= DayOf[x]
  BY DEF Backed
<1>4. QED
  BY <1>1, <1>2, <1>3 DEF Backed, MappingsStay

\* A row that has the fields of a mapping is one.
LEMMA RowIsMapping ==
  ASSUME NEW row, DOMAIN row = MappingFields
  PROVE  row # NoMapping
BY DEF MappingFields, NoMapping

LEMMA NewMappingIsShaped ==
  ASSUME NEW i, NEW e, NEW status, NEW from
  PROVE  LET row == Mapping(i, e, status, from)
         IN  /\ DOMAIN row = MappingFields /\ row # NoMapping
             /\ row.status = "confirmed" => row.confirmed
<1>1. DOMAIN Mapping(i, e, status, from) = MappingFields
  BY DEF Mapping, MappingFields
<1>2. QED
  BY <1>1, RowIsMapping DEF Mapping

\* The rest of the invariant, for a step that pays nothing.
LEMMA BackingIsKept ==
  ASSUME PayInv, NEW s \in Slot, Elsewhere(s), JobsAreShaped',
         MappingsStay, ReceiptsStay, UNCHANGED Sales, DOMAIN receipt' = Receipt,
         job'[s].step \notin SalesSteps
  PROVE  SalesAreBacked' /\ RowsHaveIds'
<1>1. RowsHaveIds'
  BY DEF PayInv, RowsHaveIds, Sales
<1>2. \A x \in Receipt, e \in Employee : (attribution[x] = e \/ x \in sales[e] => Backed(x, e))'
  BY BackingStays DEF PayInv, SalesAreBacked, Sales
<1>3. ASSUME NEW q \in Slot
      PROVE  /\ job'[q].step \in {"receipts", "attribute"} => job'[q].todo \subseteq Receipt
             /\ job'[q].step = "attribute" => Backed(job[q].receipt, job[q].to.employee)'
             /\ job'[q].step \in SalesSteps =>
                  /\ DOMAIN job'[q].sums = Employee
                  /\ \A e \in Employee : \A x \in job'[q].sums[e] : Backed(x, e)'
  <2>1. CASE q = s
    BY <2>1 DEF SalesSteps
  <2>2. CASE q # s
    BY <2>2, BackingStays DEF Elsewhere, PayInv, SalesAreBacked
  <2>3. QED
    BY <2>1, <2>2
<1>4. QED
  BY <1>1, <1>2, <1>3 DEF SalesAreBacked

\* A step of a handler that touches neither mappings nor sales.
LEMMA OthersKeepPay ==
  ASSUME PayInv, NEW s \in Slot, Elsewhere(s), JobsAreShaped', job'[s].step # "purge",
         MappingsStay, ReceiptsStay, UNCHANGED <<Cashiers, Sales>>, DOMAIN receipt' = Receipt,
         job'[s].step \notin SalesSteps,
         job'[s].step \in {"lock", "guard", "assign", "closing"} => job'[s].todo \subseteq Mapped,
         job'[s].step = "exclude" => job'[s].locks \subseteq Mapped
  PROVE  PayInv'
<1>1. SalesAreBacked' /\ RowsHaveIds'
  BY BackingIsKept
<1>2. MappingsAreShaped' /\ Mapped' = Mapped
  BY DEF PayInv, MappingsAreShaped, Mapped, Cashiers
<1>3. MappingsAreKnown'
  BY <1>2 DEF PayInv, MappingsAreKnown, Elsewhere
<1>4. NoPurge'
  BY DEF PayInv, NoPurge, Elsewhere
<1>5. QED
  BY <1>1, <1>2, <1>3, <1>4 DEF PayInv

LEMMA UnchangedMappingsStay ==
  ASSUME UNCHANGED Cashiers
  PROVE  MappingsStay
BY DEF MappingsStay, Mapped, Cashiers

LEMMA RegisterKeepsPay ==
  ASSUME PayInv, NEW s \in Slot, RegisterStep(s)
  PROVE  PayInv'
<1>1. Moves(s, RegisterSteps, {"edit writes", "idle"})
  BY RegisterStepMoves DEF PayInv
<1>2. job[s].step # "purge"
  BY DEF PayInv, NoPurge
<1>3. UNCHANGED <<receipt, Cashiers, Sales>>
  BY <1>2, RegisterKeeps
<1>4. job'[s].step # "purge"
  BY <1>1 DEF Moves
<1>5. job'[s].step \notin SalesSteps \cup {"lock", "guard", "assign", "closing", "exclude"}
  BY <1>1 DEF Moves, SalesSteps
<1>6. QED
  BY <1>1, <1>3, <1>4, <1>5, UnchangedMappingsStay, OthersKeepPay
     DEF Moves, ReceiptsStay, PayInv, RowsHaveIds

LEMMA ImportKeepsPay ==
  ASSUME PayInv, NEW s \in Slot, ImportStep(s)
  PROVE  PayInv'
<1>1. Moves(s, ImportSteps, ImportSteps \cup {"idle"})
  BY ImportStepMoves DEF PayInv
<1>2. UNCHANGED <<Cashiers, Sales>> /\ ReceiptsStay
  BY ImportKeeps
<1>3. job'[s].step \notin SalesSteps \cup {"lock", "guard", "assign", "closing", "exclude", "purge"}
  BY <1>1 DEF Moves, ImportSteps, SalesSteps
<1>4. DOMAIN receipt' = Receipt
  <2>1. CASE StoreReceipts(s)
    BY <2>1 DEF StoreReceipts, PayInv, RowsHaveIds
  <2>2. CASE ~StoreReceipts(s)
    BY <2>2 DEF ImportStep, RunStep, FetchStep, SumUpStep, TakeConnection, OpenRun, ReadRegisters,
                WrongAccount, CloseRun, OnlySync, FetchRegister, FetchPage, EndOfRegisters,
                CheckStored, SaveItems, NextDay, ReadDay, WriteDay, ReadLines, ClearCategories,
                WriteCategories, Reclassify, OnlySummaries, rows, PayInv, RowsHaveIds
  <2>3. QED
    BY <2>1, <2>2
<1>5. QED
  BY <1>1, <1>2, <1>3, <1>4, UnchangedMappingsStay, OthersKeepPay DEF Moves

LEMMA CrashKeepsPay ==
  ASSUME PayInv, NEW s \in Slot, Crash(s)
  PROVE  PayInv'
<1>1. /\ Elsewhere(s) /\ JobsAreShaped' /\ job'[s].step = "idle"
      /\ UNCHANGED <<receipt, Cashiers, Sales>>
  BY CrashMoves DEF PayInv, Idle, rows, Cashiers, Sales
<1>2. QED
  BY <1>1, UnchangedMappingsStay, OthersKeepPay
     DEF ReceiptsStay, PayInv, RowsHaveIds, SalesSteps

LEMMA SettingsKeepPay ==
  ASSUME PayInv, Settings
  PROVE  PayInv'
<1>1. UNCHANGED <<receipt, Cashiers, Sales, job>>
  BY SettingsKeep
<1>2. \A x, e : Backed(x, e)' <=> Backed(x, e)
  BY <1>1 DEF Backed, Stored, Mapped, CashierAt, Cashiers
<1>3. QED
  BY <1>1, <1>2 DEF PayInv, JobsAreShaped, NoPurge, MappingsAreShaped, MappingsAreKnown,
                    RowsHaveIds, SalesAreBacked, Mapped, Stored, Cashiers, Sales

LEMMA StartKeepsPay ==
  ASSUME PayInv, NEW s \in Slot, Starts(s), ~Purging
  PROVE  PayInv'
<1>1. PICK call, j : Begin(s, call, j) /\ Fresh(call, j)
  BY StartIsFresh
<1>2. /\ Elsewhere(s) /\ JobsAreShaped' /\ job'[s] = j
      /\ UNCHANGED <<receipt, Cashiers, Sales>> /\ call # "purge"
  BY <1>1, BeginMoves DEF PayInv, Fresh, rows, Cashiers, Sales, Purging
<1>3. j.step # "purge" /\ j.step \in FirstSteps
  BY <1>1, <1>2 DEF Fresh
<1>4. MappingsStay /\ ReceiptsStay
  BY <1>2, UnchangedMappingsStay DEF ReceiptsStay
<1>5. MappingsAreShaped' /\ Mapped' = Mapped /\ RowsHaveIds'
  BY <1>2 DEF PayInv, MappingsAreShaped, Mapped, Cashiers, RowsHaveIds, Sales
<1>6. MappingsAreKnown' /\ NoPurge'
  BY <1>1, <1>2, <1>3, <1>5 DEF PayInv, MappingsAreKnown, NoPurge, Elsewhere, Fresh, FirstSteps, RowsOf, Mapped
<1>7. SalesAreBacked'
  <2>1. \A x \in Receipt, e \in Employee : (attribution[x] = e \/ x \in sales[e] => Backed(x, e))'
    BY <1>2, <1>4, BackingStays DEF PayInv, SalesAreBacked, Sales
  <2>2. ASSUME NEW q \in Slot
        PROVE  /\ job'[q].step \in {"receipts", "attribute"} => job'[q].todo \subseteq Receipt
               /\ job'[q].step = "attribute" => Backed(job[q].receipt, job[q].to.employee)'
               /\ job'[q].step \in SalesSteps =>
                    /\ DOMAIN job'[q].sums = Employee
                    /\ \A e \in Employee : \A x \in job'[q].sums[e] : Backed(x, e)'
    <3>1. CASE q = s
      BY <1>1, <1>2, <3>1 DEF Fresh, FirstSteps, Stored
    <3>2. CASE q # s
      BY <1>2, <1>4, <3>2, BackingStays DEF Elsewhere, PayInv, SalesAreBacked
    <3>3. QED
      BY <3>1, <3>2
  <2>3. QED
    BY <2>1, <2>2 DEF SalesAreBacked
<1>8. QED
  BY <1>2, <1>5, <1>6, <1>7 DEF PayInv

\* A step of a cashier's request: which mappings it writes, and what it goes on with.
LEMMA CashierKeepsPay ==
  ASSUME PayInv, NEW s \in Slot, CashierStep(s)
  PROVE  PayInv'
<1>1. Moves(s, CashierSteps, CashierSteps \cup {"idle"})
  BY CashierStepMoves DEF PayInv
<1>2. UNCHANGED <<receipt, Sales>>
  BY CashierKeeps DEF Sales
<1>3. /\ job'[s].step \notin SalesSteps \cup {"purge"}
      /\ ReceiptsStay /\ DOMAIN receipt' = Receipt
  BY <1>1, <1>2 DEF Moves, CashierSteps, SalesSteps, ReceiptsStay, PayInv, RowsHaveIds
<1>4. ASSUME UNCHANGED mapping,
             job'[s].step \in {"lock", "guard", "assign", "closing"} => job'[s].todo \subseteq Mapped,
             job'[s].step = "exclude" => job'[s].locks \subseteq Mapped
      PROVE  PayInv'
  <2>1. MappingsStay
    BY <1>4 DEF MappingsStay, Mapped
  <2>2. SalesAreBacked' /\ RowsHaveIds'
    BY <1>1, <1>2, <1>3, <2>1, BackingIsKept DEF Moves
  <2>3. MappingsAreShaped' /\ Mapped' = Mapped
    BY <1>4 DEF PayInv, MappingsAreShaped, Mapped
  <2>4. MappingsAreKnown' /\ NoPurge'
    BY <1>1, <1>3, <1>4, <2>3 DEF PayInv, MappingsAreKnown, NoPurge, Moves, Elsewhere
  <2>5. QED
    BY <1>1, <2>2, <2>3, <2>4 DEF PayInv, Moves
<1>5. ASSUME MappingsStay, MappingsAreShaped', job'[s].step \in {"identities", "idle"}
      PROVE  PayInv'
  <2>1. SalesAreBacked' /\ RowsHaveIds'
    BY <1>1, <1>2, <1>3, <1>5, BackingIsKept DEF Moves
  <2>2. Mapped \subseteq Mapped'
    BY <1>5 DEF MappingsStay
  <2>3. MappingsAreKnown' /\ NoPurge'
    BY <1>1, <1>3, <1>5, <2>2 DEF PayInv, MappingsAreKnown, NoPurge, Moves, Elsewhere
  <2>4. QED
    BY <1>1, <1>5, <2>1, <2>3 DEF PayInv, Moves
<1>6. CASE SyncIdentity(s)
  <2>1. UNCHANGED mapping
    BY <1>6 DEF SyncIdentity
  <2>2. job'[s].step \in {"suggestion", "idle"}
    <3>1. CASE Finish(s)
      BY <3>1 DEF Finish, Idle, PayInv, JobsAreShaped
    <3>2. CASE ~Finish(s)
      <4>1. PICK i \in job[s].todo :
              job' = [job EXCEPT ![s].todo = @ \ {i}, ![s].key = i, ![s].step = "suggestion"]
        BY <1>6, <3>2 DEF SyncIdentity
      <4>2. QED
        BY <4>1 DEF PayInv, JobsAreShaped, JobFields
    <3>3. QED
      BY <3>1, <3>2
  <2>3. QED
    BY <1>4, <2>1, <2>2
<1>7. CASE FindMapping(s)
  <2>1. UNCHANGED mapping
    BY <1>7 DEF FindMapping, rows
  <2>2. job'[s].step \in {"identities", "suggest"}
    BY <1>7 DEF FindMapping, Goto, PayInv, JobsAreShaped, JobFields
  <2>3. QED
    BY <1>4, <2>1, <2>2
<1>8. CASE Suggest(s)
  <2>1. PICK m \in Mid, e \in Employee \cup {None},
             status \in {"auto_matched", "ambiguous", "unmatched"} :
          /\ Free(m)
          /\ mapping' = [mapping EXCEPT ![m] = Mapping(job[s].key, e, status, FirstSeen(job[s].key))]
    BY <1>8 DEF Suggest
  <2>2. job'[s].step = "identities"
    BY <1>8 DEF Suggest, PayInv, JobsAreShaped, JobFields
  <2>3. PICK row : /\ row = Mapping(job[s].key, e, status, FirstSeen(job[s].key))
                   /\ DOMAIN row = MappingFields /\ row # NoMapping
                   /\ row.status = "confirmed" => row.confirmed
    BY NewMappingIsShaped
  <2>4. mapping' = [mapping EXCEPT ![m] = row] /\ m \notin Mapped
    BY <2>1, <2>3 DEF Free, Mapped
  <2>5. MappingsStay /\ MappingsAreShaped'
    BY <2>3, <2>4 DEF MappingsStay, MappingsAreShaped, Mapped, PayInv
  <2>6. QED
    BY <1>5, <2>2, <2>5
<1>9. CASE ReadOpen(s)
  <2>1. UNCHANGED mapping
    BY <1>9 DEF ReadOpen, rows
  <2>2. job'[s].step = "lock" /\ job'[s].todo = OpenOf(job[s].key)
    BY <1>9 DEF ReadOpen, PayInv, JobsAreShaped, JobFields
  <2>3. OpenOf(job[s].key) \subseteq Mapped
    BY DEF OpenOf, ActiveOf, RowsOf, Mapped
  <2>4. QED
    BY <1>4, <2>1, <2>2, <2>3
<1>10. CASE LockMappings(s)
  <2>1. UNCHANGED mapping
    BY <1>10 DEF LockMappings, rows
  <2>2. job'[s].step = "guard" /\ job'[s].todo = job[s].todo /\ job[s].step = "lock"
    BY <1>10 DEF LockMappings, At, PayInv, JobsAreShaped, JobFields
  <2>3. QED
    BY <1>4, <2>1, <2>2 DEF PayInv, MappingsAreKnown
<1>11. CASE Guard(s)
  <2>1. UNCHANGED mapping
    BY <1>11 DEF Guard, rows
  <2>2. CASE Finish(s)
    <3>1. job'[s].step = "idle"
      BY <2>2 DEF Finish, Idle, PayInv, JobsAreShaped
    <3>2. QED
      BY <1>4, <2>1, <3>1
  <2>3. CASE Goto(s, "assign")
    <3>1. job'[s].step = "assign" /\ job'[s].todo = job[s].todo /\ job[s].step = "guard"
      BY <1>11, <2>3 DEF Guard, At, Goto, PayInv, JobsAreShaped, JobFields
    <3>2. QED
      BY <1>4, <2>1, <3>1 DEF PayInv, MappingsAreKnown
  <2>4. QED
    BY <1>11, <2>2, <2>3 DEF Guard
<1>12. CASE Assign(s)
  <2>1. job'[s].step = "idle" /\ job[s].step = "assign"
    BY <1>12 DEF Assign, At, Finish, Idle, PayInv, JobsAreShaped
  <2> DEFINE after == [m \in Mid |-> IF m \in Closing(s) THEN Closed(s, m) ELSE mapping[m]]
  <2>2. Closing(s) \subseteq Mapped /\ Same(s) \subseteq Mapped /\ Closing(s) \cap Same(s) = {}
    BY <2>1 DEF Closing, Same, PayInv, MappingsAreKnown
  <2>3. ASSUME NEW m \in Mapped
        PROVE  /\ DOMAIN after[m] = MappingFields
               /\ after[m].cashier = mapping[m].cashier /\ after[m].employee = mapping[m].employee
               /\ after[m].from = mapping[m].from /\ after[m].confirmed = mapping[m].confirmed
               /\ after[m].status = "confirmed" => after[m].confirmed
    BY DEF Closed, PayInv, MappingsAreShaped, MappingFields, Mapped
  <2>4. DOMAIN after = Mid /\ \A m \in Mid \ Mapped : after[m] = mapping[m]
    BY <2>2
  <2> HIDE DEF after
  <2>5. CASE \E m \in Same(s) : mapping' = [after EXCEPT ![m] = Confirmed(s, m)]
    <3>1. PICK m \in Same(s) : mapping' = [after EXCEPT ![m] = Confirmed(s, m)]
      BY <2>5
    <3>2. PICK row : row = Confirmed(s, m)
      OBVIOUS
    <3>3. /\ DOMAIN row = MappingFields /\ row.cashier = mapping[m].cashier
          /\ row.employee = mapping[m].employee /\ row.from = mapping[m].from /\ row.confirmed
      BY <2>2, <3>2 DEF Confirmed, PayInv, MappingsAreShaped, MappingFields, Mapped
    <3>4. mapping' = [after EXCEPT ![m] = row] /\ m \in Mapped /\ row # NoMapping
      BY <2>2, <3>1, <3>2, <3>3, RowIsMapping
    <3>5. \A n \in Mapped : after[n] # NoMapping
      BY <2>3, RowIsMapping
    <3>6. MappingsStay
      BY <2>3, <2>4, <3>3, <3>4, <3>5 DEF MappingsStay, Mapped
    <3>7. MappingsAreShaped'
      BY <2>3, <2>4, <3>3, <3>4 DEF MappingsAreShaped, Mapped
    <3>8. QED
      BY <1>5, <2>1, <3>6, <3>7
  <2>6. CASE \E m \in Mid : /\ Free(m)
                            /\ mapping' = [after EXCEPT ![m] = Mapping(job[s].key,
                                             job[s].to.employee, "confirmed", job[s].to.from)]
    <3>1. PICK m \in Mid : /\ Free(m)
                           /\ mapping' = [after EXCEPT ![m] = Mapping(job[s].key,
                                            job[s].to.employee, "confirmed", job[s].to.from)]
      BY <2>6
    <3>2. PICK row : /\ row = Mapping(job[s].key, job[s].to.employee, "confirmed", job[s].to.from)
                     /\ DOMAIN row = MappingFields /\ row # NoMapping
                     /\ row.status = "confirmed" => row.confirmed
      BY NewMappingIsShaped
    <3>3. mapping' = [after EXCEPT ![m] = row] /\ m \notin Mapped
      BY <3>1, <3>2 DEF Free, Mapped
    <3>4. \A n \in Mapped : after[n] # NoMapping
      BY <2>3, RowIsMapping
    <3>5. MappingsStay
      BY <2>3, <2>4, <3>2, <3>3, <3>4 DEF MappingsStay, Mapped
    <3>6. MappingsAreShaped'
      BY <2>3, <2>4, <3>2, <3>3 DEF MappingsAreShaped, Mapped
    <3>7. QED
      BY <1>5, <2>1, <3>5, <3>6
  <2>7. QED
    BY <1>12, <2>5, <2>6 DEF Assign, after
<1>13. CASE LockOpen(s)
  <2>1. UNCHANGED mapping
    BY <1>13 DEF LockOpen, rows
  <2>2. job'[s].step = "exclude" /\ job'[s].locks \subseteq Mapped
    <3>1. job'[s].step = "exclude" /\ job[s].step = "closing"
      BY <1>13 DEF LockOpen, At, PayInv, JobsAreShaped, JobFields
    <3>2. job'[s].locks = {m \in job[s].todo : mapping[m] # NoMapping /\ mapping[m].to = Open}
      BY <1>13 DEF LockOpen, PayInv, JobsAreShaped, JobFields
    <3>3. QED
      BY <3>1, <3>2 DEF PayInv, MappingsAreKnown
  <2>3. QED
    BY <1>4, <2>1, <2>2
<1>14. CASE Exclude(s)
  <2>1. job'[s].step = "idle" /\ job[s].step = "exclude"
    BY <1>14 DEF Exclude, At, Finish, Idle, PayInv, JobsAreShaped
  <2>2. job[s].locks \subseteq Mapped
    BY <2>1 DEF PayInv, MappingsAreKnown
  <2>3. PICK m \in Mid :
          /\ Free(m)
          /\ mapping' = [n \in Mid |->
               IF n = m THEN Mapping(job[s].key, None, "excluded", EPOCH)
               ELSE IF n \in job[s].locks THEN [mapping[n] EXCEPT !.status = "inactive", !.to = LastDay]
               ELSE mapping[n]]
    BY <1>14 DEF Exclude
  <2>4. PICK row : /\ row = Mapping(job[s].key, None, "excluded", EPOCH)
                   /\ DOMAIN row = MappingFields /\ row # NoMapping
                   /\ row.status = "confirmed" => row.confirmed
    BY NewMappingIsShaped
  <2>5. m \notin Mapped
    BY <2>3 DEF Free, Mapped
  <2>6. ASSUME NEW n \in Mapped
        PROVE  /\ DOMAIN mapping'[n] = MappingFields
               /\ mapping'[n].cashier = mapping[n].cashier /\ mapping'[n].employee = mapping[n].employee
               /\ mapping'[n].from = mapping[n].from /\ mapping'[n].confirmed = mapping[n].confirmed
               /\ mapping'[n].status = "confirmed" => mapping'[n].confirmed
    <3>1. n # m /\ n \in Mid
      BY <2>5 DEF Mapped
    <3>2. mapping'[n] = [mapping[n] EXCEPT !.status = "inactive", !.to = LastDay] \/ mapping'[n] = mapping[n]
      BY <2>3, <3>1
    <3>3. QED
      BY <3>2 DEF PayInv, MappingsAreShaped, MappingFields
  <2>7. /\ mapping'[m] = row /\ DOMAIN mapping' = Mid
        /\ \A n \in Mid \ {m} : n \notin Mapped => mapping'[n] = mapping[n]
    BY <2>2, <2>3, <2>4
  <2>8. \A n \in Mapped : mapping'[n] # NoMapping
    BY <2>6, RowIsMapping
  <2>9. MappingsStay
    BY <2>6, <2>8 DEF MappingsStay, Mapped
  <2>10. MappingsAreShaped'
    BY <2>4, <2>6, <2>7 DEF MappingsAreShaped, Mapped
  <2>11. QED
    BY <1>5, <2>1, <2>9, <2>10
<1>15. QED
  BY <1>6, <1>7, <1>8, <1>9, <1>10, <1>11, <1>12, <1>13, <1>14 DEF CashierStep

\* Nobody pays on a mapping that does not back the sale.
LEMMA SaleIsBacked ==
  ASSUME PayInv, NEW x \in Stored, SaleEmployee(x) # None
  PROVE  Backed(x, SaleEmployee(x))
<1> DEFINE ms == Covering(CashierAt(x), DayOf[x])
<1>1. Cardinality(ms) = 1 /\ SaleEmployee(x) = mapping[CHOOSE m \in ms : TRUE].employee
  BY DEF SaleEmployee
<1>2. ms # {}
  BY <1>1, FS_EmptySet
<1>3. PICK m : m = (CHOOSE n \in ms : TRUE) /\ m \in ms
  BY <1>2
<1>4. m \in Mapped /\ mapping[m].cashier = CashierAt(x) /\ mapping[m].status = "confirmed"
      /\ mapping[m].from <= DayOf[x]
  BY <1>3 DEF Covering, RowsOf, Mapped, Attributing, CoversDay
<1>5. QED
  BY <1>1, <1>3, <1>4 DEF Backed, PayInv, MappingsAreShaped

LEMMA SalesKeepPay ==
  ASSUME PayInv, NEW s \in Slot, SalesStep(s)
  PROVE  PayInv'
<1>1. Moves(s, SalesSteps, SalesSteps \cup {"idle"})
  BY SalesStepMoves DEF PayInv
<1>2. UNCHANGED <<receipt, Cashiers>>
  BY SalesKeep
<1>3. \A x, e : Backed(x, e)' <=> Backed(x, e)
  BY <1>2 DEF Backed, Stored, Mapped, CashierAt, Cashiers
<1>4. MappingsAreShaped' /\ Mapped' = Mapped
  BY <1>2 DEF PayInv, MappingsAreShaped, Mapped, Cashiers
<1>5. MappingsAreKnown' /\ NoPurge'
  BY <1>1, <1>4 DEF PayInv, MappingsAreKnown, NoPurge, Moves, Elsewhere, SalesSteps
<1>6. ASSUME DOMAIN attribution' = Receipt, DOMAIN sales' = Employee,
             \A x \in Receipt, e \in Employee : attribution'[x] = e \/ x \in sales'[e] => Backed(x, e),
             job'[s].step \in {"receipts", "attribute"} => job'[s].todo \subseteq Receipt,
             job'[s].step = "attribute" => Backed(job'[s].receipt, job'[s].to.employee),
             job'[s].step # "idle" =>
               /\ DOMAIN job'[s].sums = Employee
               /\ \A e \in Employee : \A x \in job'[s].sums[e] : Backed(x, e)
      PROVE  PayInv'
  <2>1. RowsHaveIds'
    BY <1>2, <1>6 DEF PayInv, RowsHaveIds
  <2>2. ASSUME NEW q \in Slot
        PROVE  /\ job'[q].step \in {"receipts", "attribute"} => job'[q].todo \subseteq Receipt
               /\ job'[q].step = "attribute" => Backed(job'[q].receipt, job'[q].to.employee)
               /\ job'[q].step \in SalesSteps =>
                    /\ DOMAIN job'[q].sums = Employee
                    /\ \A e \in Employee : \A x \in job'[q].sums[e] : Backed(x, e)
    BY <1>1, <1>6 DEF Moves, Elsewhere, PayInv, SalesAreBacked, SalesSteps
  <2>3. SalesAreBacked'
    BY <1>3, <1>6, <2>2 DEF SalesAreBacked
  <2>4. QED
    BY <1>1, <1>4, <1>5, <2>1, <2>3 DEF PayInv, Moves
<1>7. /\ DOMAIN job[s].sums = Employee
      /\ \A e \in Employee : \A x \in job[s].sums[e] : Backed(x, e)
  BY <1>1 DEF PayInv, SalesAreBacked, Moves
<1>8. CASE ResolveSale(s)
  <2>1. job[s].step = "receipts" /\ job[s].todo \subseteq Receipt /\ UNCHANGED Sales
    BY <1>8 DEF ResolveSale, At, PayInv, SalesAreBacked, rows, Sales
  <2>2. CASE job' = [job EXCEPT ![s].step = "calculations", ![s].todo = Employee]
    <3>1. job'[s].step = "calculations" /\ job'[s].sums = job[s].sums
      BY <2>2 DEF PayInv, JobsAreShaped, JobFields
    <3>2. QED
      BY <1>6, <1>7, <2>1, <3>1 DEF PayInv, RowsHaveIds, SalesAreBacked, Sales
  <2>3. CASE ~(job' = [job EXCEPT ![s].step = "calculations", ![s].todo = Employee])
    <3>1. PICK x \in job[s].todo :
            LET e == IF receipt[x] = NoReceipt THEN None ELSE SaleEmployee(x)
            IN  job' = [job EXCEPT ![s].todo = @ \ {x},
                          ![s].step = IF e = None THEN "receipts" ELSE "attribute",
                          ![s].receipt = x, ![s].to = [employee |-> e]]
      BY <1>8, <2>3 DEF ResolveSale
    <3>2. PICK e : e = IF receipt[x] = NoReceipt THEN None ELSE SaleEmployee(x)
      OBVIOUS
    <3>3. job' = [job EXCEPT ![s].todo = @ \ {x},
                             ![s].step = IF e = None THEN "receipts" ELSE "attribute",
                             ![s].receipt = x, ![s].to = [employee |-> e]]
      BY <3>1, <3>2
    <3>4. /\ job'[s].step = (IF e = None THEN "receipts" ELSE "attribute")
          /\ job'[s].todo = job[s].todo \ {x} /\ job'[s].receipt = x
          /\ job'[s].to.employee = e /\ job'[s].sums = job[s].sums
      BY <3>3 DEF PayInv, JobsAreShaped, JobFields
    <3>5. e # None => Backed(x, e)
      BY <2>1, <3>2, SaleIsBacked DEF Stored
    <3>6. QED
      BY <1>6, <1>7, <2>1, <3>4, <3>5 DEF PayInv, RowsHaveIds, SalesAreBacked, Sales
  <2>4. QED
    BY <2>2, <2>3
<1>9. CASE Attribute(s)
  <2>1. Backed(job[s].receipt, job[s].to.employee)
    BY <1>9 DEF Attribute, At, PayInv, SalesAreBacked
  <2>2. UNCHANGED sales /\ attribution' = [attribution EXCEPT ![job[s].receipt] = job[s].to.employee]
    BY <1>9 DEF Attribute
  <2>3. job'[s].step = "receipts" /\ job'[s].todo = job[s].todo
        /\ job'[s].sums = [job[s].sums EXCEPT ![job[s].to.employee] = @ \cup {job[s].receipt}]
    BY <1>9 DEF Attribute, PayInv, JobsAreShaped, JobFields
  <2>4. job[s].todo \subseteq Receipt
    BY <1>9 DEF Attribute, At, PayInv, SalesAreBacked
  <2>5. /\ DOMAIN job'[s].sums = Employee
        /\ \A e \in Employee : \A x \in job'[s].sums[e] : Backed(x, e)
    BY <1>7, <2>1, <2>3
  <2>6. \A x \in Receipt, e \in Employee : attribution'[x] = e \/ x \in sales'[e] => Backed(x, e)
    BY <2>1, <2>2 DEF PayInv, RowsHaveIds, SalesAreBacked
  <2>7. QED
    BY <1>6, <2>2, <2>3, <2>4, <2>5, <2>6 DEF PayInv, RowsHaveIds
<1>10. CASE UpdateCalculation(s)
  <2>1. UNCHANGED attribution
    BY <1>10 DEF UpdateCalculation
  <2>2. CASE Finish(s) /\ UNCHANGED sales
    <3>1. job'[s].step = "idle"
      BY <2>2 DEF Finish, Idle, PayInv, JobsAreShaped
    <3>2. QED
      BY <1>6, <2>1, <2>2, <3>1 DEF PayInv, RowsHaveIds, SalesAreBacked
  <2>3. CASE ~(Finish(s) /\ UNCHANGED sales)
    <3>1. PICK e \in job[s].todo :
            /\ sales' = [sales EXCEPT ![e] = AutomaticSales(s, e)]
            /\ job' = [job EXCEPT ![s].todo = @ \ {e}]
      BY <1>10, <2>3 DEF UpdateCalculation
    <3>2. job'[s].step = "calculations" /\ job'[s].sums = job[s].sums
      BY <1>10, <3>1 DEF UpdateCalculation, At, PayInv, JobsAreShaped, JobFields
    <3>3. e \in Employee => \A x \in AutomaticSales(s, e) : Backed(x, e)
      BY <1>7 DEF AutomaticSales, AttributedTo, PayInv, SalesAreBacked
    <3>4. DOMAIN sales' = Employee
      BY <3>1 DEF PayInv, RowsHaveIds
    <3>5. ASSUME NEW x \in Receipt, NEW f \in Employee, attribution'[x] = f \/ x \in sales'[f]
          PROVE  Backed(x, f)
      <4>1. CASE f = e
        BY <2>1, <3>1, <3>3, <3>5, <4>1 DEF PayInv, RowsHaveIds, SalesAreBacked
      <4>2. CASE f # e
        BY <2>1, <3>1, <3>5, <4>2 DEF PayInv, RowsHaveIds, SalesAreBacked
      <4>3. QED
        BY <4>1, <4>2
    <3>6. QED
      BY <1>6, <1>7, <2>1, <3>2, <3>4, <3>5 DEF PayInv, RowsHaveIds
  <2>4. QED
    BY <2>2, <2>3
<1>11. QED
  BY <1>8, <1>9, <1>10 DEF SalesStep

\* RowsAssumption and StartAssumption, for the scenario that was chosen.
LEMMA StartPays ==
  ASSUME Init
  PROVE  PayInv
<1>1. JobsAreShaped /\ \A s \in Slot : job[s] = Idle
  BY DEF Init, JobsAreShaped, JobFields, Idle
<1>2. NoPurge /\ MappingsAreKnown
  BY <1>1 DEF NoPurge, MappingsAreKnown, Idle
<1>3. mapping \in [Mid -> MappingRow \cup {NoMapping}] /\ receipt \in [Receipt -> ReceiptRow \cup {NoReceipt}]
  BY RowsAssumption DEF Init, RowsAssumption
<1>4. \A m \in Mapped : mapping[m].status = "confirmed" => mapping[m].confirmed
  BY StartAssumption DEF Init, StartAssumption, Mapped
<1>5. MappingsAreShaped
  BY <1>3, <1>4 DEF MappingsAreShaped, Mapped, MappingRow, MappingFields
<1>6. RowsHaveIds
  BY <1>3 DEF Init, RowsHaveIds
<1>7. SalesAreBacked
  BY <1>1, NamesAssumption DEF Init, SalesAreBacked, Idle, SalesSteps, None
<1>8. QED
  BY <1>1, <1>2, <1>5, <1>6, <1>7 DEF PayInv

LEMMA NextKeepsPay ==
  ASSUME ~Purging => PayInv, [Next]_vars
  PROVE  (~Purging => PayInv)'
<1> SUFFICES ASSUME ~Purging'
             PROVE  PayInv'
  OBVIOUS
<1>1. CASE UNCHANGED vars
  <2>1. \A x, e : Backed(x, e)' <=> Backed(x, e)
    BY <1>1 DEF vars, rows, Backed, Mapped, Stored, CashierAt
  <2>2. Mapped' = Mapped /\ (MappingsAreShaped' <=> MappingsAreShaped)
    BY <1>1 DEF vars, rows, Mapped, MappingsAreShaped
  <2>3. PayInv
    BY <1>1 DEF vars, Purging
  <2>4. JobsAreShaped' /\ NoPurge' /\ RowsHaveIds' /\ MappingsAreKnown'
    BY <1>1, <2>2, <2>3 DEF vars, rows, PayInv, JobsAreShaped, NoPurge, RowsHaveIds, MappingsAreKnown
  <2>5. SalesAreBacked'
    BY <1>1, <2>1, <2>3 DEF vars, rows, PayInv, SalesAreBacked
  <2>6. QED
    BY <2>2, <2>3, <2>4, <2>5 DEF PayInv
<1>2. CASE Settings
  BY <1>2, SettingsKeep, SettingsKeepPay DEF Purging
<1>3. ASSUME NEW s \in Slot, Starts(s)
      PROVE  PayInv'
  BY <1>3, StartIsFresh, StartKeepsPay DEF Purging, Begin
<1>4. ASSUME NEW s \in Slot, RegisterStep(s)
      PROVE  PayInv'
  BY <1>4, RegisterKeeps, RegisterKeepsPay DEF Purging
<1>5. ASSUME NEW s \in Slot, ImportStep(s)
      PROVE  PayInv'
  BY <1>5, ImportKeeps, ImportKeepsPay DEF Purging
<1>6. ASSUME NEW s \in Slot, CashierStep(s)
      PROVE  PayInv'
  BY <1>6, CashierKeeps, CashierKeepsPay DEF Purging
<1>7. ASSUME NEW s \in Slot, SalesStep(s)
      PROVE  PayInv'
  BY <1>7, SalesKeep, SalesKeepPay DEF Purging
<1>8. ASSUME NEW s \in Slot, Crash(s)
      PROVE  PayInv'
  BY <1>8, CrashKeepsPay DEF Purging, Crash
<1>9. QED
  BY <1>1, <1>2, <1>3, <1>4, <1>5, <1>6, <1>7, <1>8, NextIsStep

(* "A suggestion never pays out" (lib/ofd/cashier-mapping-service.ts):     *)
(* whatever imports, assignments, exclusions and crashes run together, in  *)
(* any number of slots, sales are attributed to an employee and counted in *)
(* the calculation only where somebody confirmed a mapping of the          *)
(* receipt's cashier to that employee that had begun by that day.          *)
THEOREM SalesAreConfirmed == Spec => []OnlyConfirmedPays
<1>1. Init => (~Purging => PayInv)
  BY StartPays
<1>2. (~Purging => PayInv) /\ [Next]_vars => (~Purging => PayInv)'
  BY NextKeepsPay
<1>3. (~Purging => PayInv) => OnlyConfirmedPays
  <2> SUFFICES ASSUME PayInv, NEW x \in Stored, NEW e \in Employee, attribution[x] = e \/ x \in sales[e]
               PROVE  \E m \in RowsOf(CashierAt(x)) :
                        mapping[m].employee = e /\ mapping[m].confirmed /\ mapping[m].from <= DayOf[x]
    BY DEF OnlyConfirmedPays
  <2>1. Backed(x, e)
    BY DEF PayInv, SalesAreBacked, Stored
  <2>2. QED
    BY <2>1 DEF Backed, RowsOf, Mapped
<1>4. QED
  BY <1>1, <1>2, <1>3, PTL DEF Spec

-----------------------------------------------------------------------------
(* One request at a time: the request under way is alone, and the          *)
(* registers it has read change only by the settings, which leave a        *)
(* register its provider, its drive and its status.                        *)

SlotsInv ==
  /\ JobsAreShaped /\ scenario \in Scenarios
  /\ \A s \in Slot : job[s].step # "idle" => s \in scenario.slots

Alone(s) == \A q \in Slot \ {s} : job[q].step = "idle"

LEMMA SerialIsAlone ==
  ASSUME SlotsInv, Serial, NEW s \in Slot, s \in scenario.slots
  PROVE  Alone(s)
<1>1. IsFiniteSet(scenario.slots)
  BY RowsAssumption DEF RowsAssumption, SlotsInv
<1>2. PICK a : scenario.slots = {a}
  BY <1>1, FS_Singleton DEF Serial
<1>3. QED
  BY <1>2 DEF Alone, SlotsInv

LEMMA SlotsStart ==
  ASSUME Init
  PROVE  SlotsInv
BY DEF Init, SlotsInv, JobsAreShaped, JobFields, Idle

LEMMA SlotsFollow ==
  ASSUME SlotsInv, [Next]_vars
  PROVE  SlotsInv'
<1>1. CASE UNCHANGED vars
  BY <1>1 DEF vars, SlotsInv, JobsAreShaped
<1>2. CASE Settings
  BY <1>2, SettingsKeep DEF SlotsInv, JobsAreShaped
<1>3. ASSUME NEW s \in Slot, Starts(s)
      PROVE  SlotsInv'
  <2>1. PICK call, j : Begin(s, call, j) /\ Fresh(call, j)
    BY <1>3, StartIsFresh
  <2>2. Elsewhere(s) /\ JobsAreShaped' /\ scenario' = scenario /\ s \in scenario.slots
    BY <2>1, BeginMoves DEF SlotsInv, Fresh
  <2>3. QED
    BY <2>2 DEF SlotsInv, Elsewhere
<1>4. ASSUME NEW s \in Slot, RegisterStep(s) \/ ImportStep(s) \/ CashierStep(s) \/ SalesStep(s)
      PROVE  SlotsInv'
  <2>1. Elsewhere(s) /\ JobsAreShaped' /\ scenario' = scenario /\ job[s].step # "idle"
    BY <1>4, RegisterStepMoves, ImportStepMoves, CashierStepMoves, SalesStepMoves
       DEF SlotsInv, Moves, RegisterSteps, ImportSteps, CashierSteps, SalesSteps
  <2>2. QED
    BY <2>1 DEF SlotsInv, Elsewhere
<1>5. ASSUME NEW s \in Slot, Crash(s)
      PROVE  SlotsInv'
  <2>1. Elsewhere(s) /\ JobsAreShaped' /\ scenario' = scenario /\ job[s].step # "idle"
    BY <1>5, CrashMoves DEF SlotsInv
  <2>2. QED
    BY <2>1 DEF SlotsInv, Elsewhere
<1>6. QED
  BY <1>1, <1>2, <1>3, <1>4, <1>5, NextIsStep

-----------------------------------------------------------------------------
(* The active keys.                                                        *)

RegisterFields == {"conn", "drive", "club", "legal", "isActive", "key", "status"}

\* What one row of a register is, by itself.
IsSound(row) ==
  /\ DOMAIN row = RegisterFields /\ row.drive \in Drive
  /\ row.status = "active" /\ row.isActive => row.key = row.drive

KeysDiffer ==
  \A q, r \in Existing : ProviderAt(q) = ProviderAt(r) /\ register[q].key = register[r].key
                         => q = r \/ register[r].key = None

RegistersAreSound ==
  /\ DOMAIN register = Register
  /\ \A r \in Existing : IsSound(register[r])
  /\ KeysDiffer

RegisterJobs ==
  \A s \in Slot :
    /\ job[s].step \in {"edit reads", "edit writes"} => EditGoesBy(job[s])
    /\ job[s].step = "toggle" => ToggleGoesBy(job[s])
    /\ job[s].step = "bind" => BindGoesBy(job[s])
    /\ job[s].step \in {"archive", "hard delete", "purge"} => job[s].register \in Existing

RegInv == SlotsInv /\ RegistersAreSound /\ RegisterJobs

LEMMA SoundRowExists ==
  ASSUME NEW row, IsSound(row)
  PROVE  row # NoRegister
BY DEF IsSound, RegisterFields, NoRegister

LEMMA ReplaceRegister ==
  ASSUME RegistersAreSound, NEW r \in Register, NEW row, IsSound(row),
         register' = [register EXCEPT ![r] = row],
         row.key = None \/ ~KeyTaken(ProviderOf[row.conn], row.key, r)
  PROVE  /\ RegistersAreSound'
         /\ Existing' = Existing \cup {r}
         /\ \A q \in Register \ {r} : register'[q] = register[q]
         /\ register'[r] = row
<1>1. /\ register'[r] = row /\ row # NoRegister /\ DOMAIN register' = Register
      /\ \A q \in Register \ {r} : register'[q] = register[q]
  BY SoundRowExists DEF RegistersAreSound
<1>2. Existing' = Existing \cup {r}
  BY <1>1 DEF Existing
<1>3. \A q \in Existing' : IsSound(register'[q])
  BY <1>1, <1>2 DEF RegistersAreSound, Existing
<1>4. ASSUME NEW q \in Existing', NEW p \in Existing',
             ProviderAt(q)' = ProviderAt(p)', register'[q].key = register'[p].key, q # p
      PROVE  register'[p].key = None
  <2>1. CASE q # r /\ p # r
    BY <1>1, <1>2, <1>4, <2>1 DEF RegistersAreSound, KeysDiffer, ProviderAt, Existing
  <2>2. CASE q = r \/ p = r
    BY <1>1, <1>2, <1>4, <2>2 DEF KeyTaken, ProviderAt, Existing
  <2>3. QED
    BY <2>1, <2>2
<1>5. KeysDiffer'
  BY <1>4 DEF KeysDiffer
<1>6. QED
  BY <1>1, <1>2, <1>3, <1>5 DEF RegistersAreSound

LEMMA DropRegister ==
  ASSUME RegistersAreSound, NEW r \in Register, register' = [register EXCEPT ![r] = NoRegister]
  PROVE  RegistersAreSound'
<1>1. /\ DOMAIN register' = Register /\ Existing' = Existing \ {r}
      /\ \A q \in Existing \ {r} : register'[q] = register[q]
  BY DEF RegistersAreSound, Existing
<1>2. QED
  BY <1>1 DEF RegistersAreSound, KeysDiffer, ProviderAt

\* The key that a register holds is its own.
LEMMA OwnKeyIsFree ==
  ASSUME RegistersAreSound, NEW r \in Existing
  PROVE  register[r].key = None \/ ~KeyTaken(ProviderAt(r), register[r].key, r)
BY DEF RegistersAreSound, KeysDiffer, KeyTaken

\* What no setting changes.
RegistersStay ==
  /\ Existing \subseteq Existing' /\ scenario' = scenario
  /\ \A r \in Existing : /\ register'[r].conn = register[r].conn
                         /\ register'[r].drive = register[r].drive
                         /\ register'[r].status = register[r].status

LEMMA SettingsKeepRegisters ==
  ASSUME RegistersAreSound, Settings
  PROVE  RegistersAreSound' /\ RegistersStay
<1>1. scenario' = scenario
  BY SettingsKeep
<1>2. ASSUME NEW r \in Register, NEW c \in Connection, NEW d \in Drive, NEW k, NEW e,
             AddRegister(r, c, d, k, e)
      PROVE  RegistersAreSound' /\ RegistersStay
  <2>1. PICK row : row = Row(c, d, k, IF e = None THEN connection[c].legal ELSE e)
    OBVIOUS
  <2>2. register' = [register EXCEPT ![r] = row] /\ r \notin Existing
    BY <1>2, <2>1 DEF AddRegister, Existing
  <2>3. IsSound(row) /\ row.key = d /\ row.conn = c
    BY <2>1 DEF Row, IsSound, RegisterFields
  <2>4. ~KeyTaken(ProviderOf[row.conn], row.key, r)
    BY <1>2, <2>3 DEF AddRegister
  <2>5. QED
    BY <1>1, <2>2, <2>3, <2>4, ReplaceRegister DEF RegistersStay, Existing
<1>3. ASSUME NEW r \in Register, NEW k, NEW e, UpdateBinding(r, k, e)
      PROVE  RegistersAreSound' /\ RegistersStay
  <2>1. PICK row : row = [register[r] EXCEPT !.club = k, !.legal = e]
    OBVIOUS
  <2>2. r \in Existing /\ register' = [register EXCEPT ![r] = row]
    BY <1>3, <2>1 DEF UpdateBinding, RegistersAreSound, IsSound
  <2>3. /\ IsSound(row) /\ row.key = register[r].key /\ row.conn = register[r].conn
        /\ row.drive = register[r].drive /\ row.status = register[r].status
    BY <2>1, <2>2 DEF RegistersAreSound, IsSound, RegisterFields
  <2>4. row.key = None \/ ~KeyTaken(ProviderOf[row.conn], row.key, r)
    BY <2>2, <2>3, OwnKeyIsFree DEF ProviderAt
  <2>5. /\ RegistersAreSound' /\ Existing' = Existing \cup {r} /\ register'[r] = row
        /\ \A q \in Register \ {r} : register'[q] = register[q]
    BY <2>2, <2>3, <2>4, ReplaceRegister DEF Existing
  <2>6. QED
    BY <1>1, <2>2, <2>3, <2>5 DEF RegistersStay, Existing
<1>4. ASSUME NEW r \in Register, Unbind(r)
      PROVE  RegistersAreSound' /\ RegistersStay
  <2>1. PICK row : row = [register[r] EXCEPT !.isActive = FALSE, !.key = None]
    OBVIOUS
  <2>2. r \in Existing /\ register' = [register EXCEPT ![r] = row]
    BY <1>4, <2>1 DEF Unbind, RegistersAreSound, IsSound
  <2>3. /\ IsSound(row) /\ row.key = None /\ row.conn = register[r].conn
        /\ row.drive = register[r].drive /\ row.status = register[r].status
    BY <2>1, <2>2 DEF RegistersAreSound, IsSound, RegisterFields
  <2>4. QED
    BY <1>1, <2>2, <2>3, ReplaceRegister DEF RegistersStay, Existing
<1>5. ASSUME UNCHANGED register
      PROVE  RegistersAreSound' /\ RegistersStay
  BY <1>1, <1>5 DEF RegistersAreSound, KeysDiffer, ProviderAt, Existing, RegistersStay
<1>6. ASSUME NEW c, ToggleConnection(c) \/ \E e \in Legal : SelectOrganization(c, e)
      PROVE  UNCHANGED register
  BY <1>6 DEF ToggleConnection, SelectOrganization
<1>7. ASSUME NEW c, SaveRule(c)
      PROVE  UNCHANGED register
  BY <1>7 DEF SaveRule
<1>8. QED
  BY <1>2, <1>3, <1>4, <1>5, <1>6, <1>7 DEF Settings

\* What a request goes by stays true while only the settings change.
LEMMA RegisterJobsStay ==
  ASSUME RegistersStay, NEW j
  PROVE  /\ EditGoesBy(j) => EditGoesBy(j)'
         /\ ToggleGoesBy(j) => ToggleGoesBy(j)'
         /\ BindGoesBy(j) => BindGoesBy(j)'
         /\ j.register \in Existing => j.register \in Existing'
BY DEF RegistersStay, EditGoesBy, ToggleGoesBy, BindGoesBy, ProviderAt

LEMMA UnchangedRegistersStay ==
  ASSUME UNCHANGED <<register, scenario>>
  PROVE  RegistersStay /\ (RegistersAreSound => RegistersAreSound')
BY DEF RegistersStay, RegistersAreSound, KeysDiffer, ProviderAt, Existing

\* A step of a request that is alone.
LEMMA AloneStep ==
  ASSUME RegInv, Serial, NEW s \in Slot, Elsewhere(s), job[s].step # "idle", SlotsInv'
  PROVE  /\ Alone(s) /\ Alone(s)'
         /\ (/\ job[s].step \in {"edit reads", "edit writes"} => EditGoesBy(job[s])
             /\ job[s].step = "toggle" => ToggleGoesBy(job[s])
             /\ job[s].step = "bind" => BindGoesBy(job[s])
             /\ job[s].step \in {"archive", "hard delete", "purge"} => job[s].register \in Existing)'
            => RegisterJobs'
<1>1. Alone(s)
  BY SerialIsAlone DEF RegInv, SlotsInv
<1>2. Alone(s)'
  BY <1>1 DEF Alone, Elsewhere
<1>3. QED
  BY <1>1, <1>2 DEF Alone, RegisterJobs

LEMMA RegisterStepIsSound ==
  ASSUME RegInv, Serial, NEW s \in Slot, RegisterStep(s), SlotsInv'
  PROVE  RegInv'
<1>1. Moves(s, RegisterSteps, {"edit writes", "idle"})
  BY RegisterStepMoves DEF RegInv, SlotsInv
<1>2. Elsewhere(s) /\ job[s].step # "idle"
  BY <1>1 DEF Moves, RegisterSteps
<1>3. ASSUME RegistersAreSound', job'[s].step = "idle"
      PROVE  RegInv'
  BY <1>2, <1>3, AloneStep DEF RegInv
<1> DEFINE r == job[s].register
<1>4. CASE EditReads(s)
  <2>1. UNCHANGED <<register, scenario>>
    BY <1>4 DEF EditReads, At, rows
  <2>2. RegistersAreSound' /\ RegistersStay
    BY <2>1, UnchangedRegistersStay DEF RegInv
  <2>3. /\ job'[s].step = "edit writes" /\ job'[s].register = r /\ job'[s].to = job[s].to
        /\ job'[s].seen = job[s].seen /\ job[s].step = "edit reads"
    BY <1>4 DEF EditReads, At, RegInv, SlotsInv, JobsAreShaped, JobFields
  <2>4. EditGoesBy(job[s])
    BY <2>3 DEF RegInv, RegisterJobs
  <2>5. EditGoesBy(job[s])'
    BY <2>1, <2>3, <2>4 DEF EditGoesBy, Existing
  <2>6. QED
    BY <1>2, <2>2, <2>3, <2>5, AloneStep DEF RegInv
<1>5. CASE EditWrites(s)
  <2>1. job'[s].step = "idle" /\ job[s].step = "edit writes"
    BY <1>5 DEF EditWrites, At, Finish, Idle, RegInv, SlotsInv, JobsAreShaped
  <2>2. EditGoesBy(job[s])
    BY <2>1 DEF RegInv, RegisterJobs
  <2> DEFINE key == KeyAfterEdit(job[s].seen, job[s].to.drive)
  <2>3. CASE key # None /\ KeyTaken(ProviderAt(r), key, r)
    BY <1>1, <1>3, <1>5, <2>1, <2>3, UnchangedRegistersStay DEF EditWrites, RegInv, Moves
  <2>4. CASE ~(key # None /\ KeyTaken(ProviderAt(r), key, r))
    <3>1. register' = [register EXCEPT ![r].drive = job[s].to.drive, ![r].club = job[s].to.club,
                                       ![r].legal = job[s].to.legal, ![r].key = key]
      BY <1>5, <2>2, <2>4 DEF EditWrites, EditGoesBy
    <3>2. PICK row : row = [register[r] EXCEPT !.drive = job[s].to.drive, !.club = job[s].to.club,
                                               !.legal = job[s].to.legal, !.key = key]
      OBVIOUS
    <3>3. register' = [register EXCEPT ![r] = row] /\ r \in Existing /\ r \in Register
      BY <2>2, <3>1, <3>2 DEF EditGoesBy, RegInv, RegistersAreSound, Existing
    <3>4. DOMAIN register[r] = RegisterFields
      BY <3>3 DEF RegInv, RegistersAreSound, IsSound
    <3>5. /\ DOMAIN row = RegisterFields /\ row.drive = job[s].to.drive /\ row.key = key
          /\ row.conn = register[r].conn /\ row.status = register[r].status
      BY <3>2, <3>4 DEF RegisterFields
    <3>6. IsSound(row)
      BY <2>2, <3>5 DEF IsSound, EditGoesBy, KeyAfterEdit
    <3>7. row.key = None \/ ~KeyTaken(ProviderOf[row.conn], row.key, r)
      BY <2>4, <3>5 DEF ProviderAt
    <3>8. QED
      BY <1>3, <2>1, <3>3, <3>6, <3>7, ReplaceRegister DEF RegInv
  <2>5. QED
    BY <2>3, <2>4
<1>6. CASE Toggle(s)
  <2>1. job'[s].step = "idle" /\ job[s].step = "toggle"
    BY <1>6 DEF Toggle, At, Finish, Idle, RegInv, SlotsInv, JobsAreShaped
  <2>2. ToggleGoesBy(job[s])
    BY <2>1 DEF RegInv, RegisterJobs
  <2> DEFINE on == ~job[s].seen.isActive
             d == job[s].seen.drive
  <2>3. CASE on /\ KeyTaken("taxcom", d, r)
    BY <1>1, <1>3, <1>6, <2>1, <2>3, UnchangedRegistersStay DEF Toggle, RegInv, Moves
  <2>4. CASE ~(on /\ KeyTaken("taxcom", d, r))
    <3>1. register' = [register EXCEPT ![r].isActive = on, ![r].key = IF on THEN d ELSE None]
      BY <1>6, <2>2, <2>4 DEF Toggle, ToggleGoesBy
    <3>2. PICK row : row = [register[r] EXCEPT !.isActive = on, !.key = IF on THEN d ELSE None]
      OBVIOUS
    <3>3. register' = [register EXCEPT ![r] = row] /\ r \in Existing /\ r \in Register
      BY <2>2, <3>1, <3>2 DEF ToggleGoesBy, RegInv, RegistersAreSound, Existing
    <3>4. DOMAIN register[r] = RegisterFields /\ register[r].drive \in Drive
      BY <3>3 DEF RegInv, RegistersAreSound, IsSound
    <3>5. /\ DOMAIN row = RegisterFields /\ row.drive = register[r].drive /\ row.isActive = on
          /\ row.conn = register[r].conn /\ row.key = IF on THEN d ELSE None
      BY <3>2, <3>4 DEF RegisterFields
    <3>6. IsSound(row)
      BY <2>2, <3>4, <3>5 DEF IsSound, ToggleGoesBy
    <3>7. row.key = None \/ ~KeyTaken(ProviderOf[row.conn], row.key, r)
      BY <2>2, <2>4, <3>5 DEF ProviderAt, ToggleGoesBy
    <3>8. QED
      BY <1>3, <2>1, <3>3, <3>6, <3>7, ReplaceRegister DEF RegInv
  <2>5. QED
    BY <2>3, <2>4
<1>7. CASE Bind(s)
  <2>1. job'[s].step = "idle" /\ job[s].step = "bind"
    BY <1>7 DEF Bind, At, Finish, Idle, RegInv, SlotsInv, JobsAreShaped
  <2>2. BindGoesBy(job[s])
    BY <2>1 DEF RegInv, RegisterJobs
  <2> DEFINE b == Row(job[s].conn, job[s].to.drive, job[s].to.club, job[s].to.legal)
  <2>3. CASE UNCHANGED register
    BY <1>1, <1>3, <2>1, <2>3, UnchangedRegistersStay DEF RegInv, Moves
  <2>4. CASE ~UNCHANGED register
    <3>1. /\ ~KeyTaken("astral", job[s].to.drive, r)
          /\ register' = [register EXCEPT
               ![r] = IF r \in Existing THEN [b EXCEPT !.status = register[r].status] ELSE b]
      BY <1>7, <2>4 DEF Bind
    <3>2. PICK row : row = IF r \in Existing THEN [b EXCEPT !.status = register[r].status] ELSE b
      OBVIOUS
    <3>3. register' = [register EXCEPT ![r] = row] /\ r \in Register
      BY <2>2, <3>1, <3>2 DEF BindGoesBy
    <3>4. /\ IsSound(row) /\ row.conn = job[s].conn /\ row.key = job[s].to.drive
      BY <2>2, <3>2 DEF IsSound, Row, RegisterFields, BindGoesBy
    <3>5. ~KeyTaken(ProviderOf[row.conn], row.key, r)
      BY <2>2, <3>1, <3>4 DEF BindGoesBy
    <3>6. QED
      BY <1>3, <2>1, <3>3, <3>4, <3>5, ReplaceRegister DEF RegInv
  <2>5. QED
    BY <2>3, <2>4
<1>8. CASE Archive(s)
  <2>1. job'[s].step = "idle" /\ job[s].step = "archive"
    BY <1>8 DEF Archive, At, Finish, Idle, RegInv, SlotsInv, JobsAreShaped
  <2>2. r \in Existing
    BY <2>1 DEF RegInv, RegisterJobs
  <2>3. register' = [register EXCEPT ![r].status = "archived", ![r].isActive = FALSE, ![r].key = None]
    BY <1>8, <2>2 DEF Archive
  <2>4. PICK row : row = [register[r] EXCEPT !.status = "archived", !.isActive = FALSE, !.key = None]
    OBVIOUS
  <2>5. register' = [register EXCEPT ![r] = row] /\ r \in Register
    BY <2>2, <2>3, <2>4 DEF RegInv, RegistersAreSound, Existing
  <2>6. IsSound(row) /\ row.key = None
    BY <2>2, <2>4 DEF RegInv, RegistersAreSound, IsSound, RegisterFields
  <2>7. QED
    BY <1>3, <2>1, <2>5, <2>6, ReplaceRegister DEF RegInv
<1>9. CASE HardDelete(s)
  <2>1. job'[s].step = "idle" /\ job[s].step = "hard delete"
    BY <1>9 DEF HardDelete, At, Finish, Idle, RegInv, SlotsInv, JobsAreShaped
  <2>2. r \in Register /\ register' = [register EXCEPT ![r] = NoRegister]
    BY <1>9, <2>1 DEF HardDelete, RegInv, RegisterJobs, Existing
  <2>3. QED
    BY <1>3, <2>1, <2>2, DropRegister DEF RegInv
<1>10. CASE Purge(s)
  <2>1. job'[s].step = "idle" /\ job[s].step = "purge"
    BY <1>10 DEF Purge, At, Finish, Idle, RegInv, SlotsInv, JobsAreShaped
  <2>2. r \in Existing /\ r \in Register
    BY <2>1 DEF RegInv, RegisterJobs, Existing
  <2>3. register' = [register EXCEPT ![r] = NoRegister]
    BY <1>10, <2>2 DEF Purge
  <2>4. QED
    BY <1>3, <2>1, <2>2, <2>3, DropRegister DEF RegInv
<1>11. QED
  BY <1>4, <1>5, <1>6, <1>7, <1>8, <1>9, <1>10 DEF RegisterStep

\* A step that is not about registers.
LEMMA OtherStepIsSound ==
  ASSUME RegInv, Serial, NEW s \in Slot, Elsewhere(s), job[s].step # "idle", SlotsInv',
         UNCHANGED <<register, scenario>>, job'[s].step \notin RegisterSteps
  PROVE  RegInv'
<1>1. RegistersAreSound'
  BY UnchangedRegistersStay DEF RegInv
<1>2. RegisterJobs'
  BY AloneStep DEF RegisterSteps
<1>3. QED
  BY <1>1, <1>2 DEF RegInv

LEMMA StartIsSound ==
  ASSUME RegInv, Serial, NEW s \in Slot, Starts(s), SlotsInv'
  PROVE  RegInv'
<1>1. PICK call, j : Begin(s, call, j) /\ Fresh(call, j)
  BY StartIsFresh
<1>2. Elsewhere(s) /\ job'[s] = j /\ UNCHANGED <<register, scenario>>
  BY <1>1, BeginMoves DEF RegInv, SlotsInv, Fresh, rows
<1>3. RegistersStay /\ RegistersAreSound'
  BY <1>2, UnchangedRegistersStay DEF RegInv
<1>4. /\ j.step \in {"edit reads", "edit writes"} => EditGoesBy(j)'
      /\ j.step = "toggle" => ToggleGoesBy(j)'
      /\ j.step = "bind" => BindGoesBy(j)'
      /\ j.step \in {"archive", "hard delete", "purge"} => j.register \in Existing'
  BY <1>1, <1>3, RegisterJobsStay DEF Fresh, FirstSteps, DeleteGoesBy
<1>5. RegisterJobs'
  BY <1>2, <1>3, <1>4, RegisterJobsStay DEF RegisterJobs, RegInv, Elsewhere
<1>6. QED
  BY <1>3, <1>5 DEF RegInv

LEMMA NextIsSound ==
  ASSUME Serial => RegInv, SlotsInv, SlotsInv', [Next]_vars
  PROVE  (Serial => RegInv)'
<1> SUFFICES ASSUME Serial'
             PROVE  RegInv'
  OBVIOUS
<1>1. CASE UNCHANGED vars
  <2>1. UNCHANGED <<register, scenario, job>>
    BY <1>1 DEF vars, rows
  <2>2. RegInv
    BY <2>1 DEF Serial
  <2>3. RegistersStay /\ RegistersAreSound'
    BY <2>1, <2>2, UnchangedRegistersStay DEF RegInv
  <2>4. QED
    BY <2>1, <2>2, <2>3, RegisterJobsStay DEF RegInv, RegisterJobs
<1>2. CASE Settings
  <2>1. UNCHANGED <<scenario, job>> /\ RegInv
    BY <1>2, SettingsKeep DEF Serial
  <2>2. RegistersAreSound' /\ RegistersStay
    BY <1>2, <2>1, SettingsKeepRegisters DEF RegInv
  <2>3. QED
    BY <2>1, <2>2, RegisterJobsStay DEF RegInv, RegisterJobs
<1>3. ASSUME NEW s \in Slot, Starts(s)
      PROVE  RegInv'
  <2>1. scenario' = scenario
    BY <1>3, StartIsFresh DEF Begin
  <2>2. QED
    BY <1>3, <2>1, StartIsSound DEF Serial
<1>4. ASSUME NEW s \in Slot, RegisterStep(s)
      PROVE  RegInv'
  BY <1>4, RegisterKeeps, RegisterStepIsSound DEF Serial
<1>5. ASSUME NEW s \in Slot, ImportStep(s) \/ CashierStep(s) \/ SalesStep(s)
      PROVE  RegInv'
  <2>1. /\ Elsewhere(s) /\ job[s].step # "idle" /\ job'[s].step \notin RegisterSteps
    BY <1>5, ImportStepMoves, CashierStepMoves, SalesStepMoves
       DEF SlotsInv, Moves, ImportSteps, CashierSteps, SalesSteps, RegisterSteps
  <2>2. UNCHANGED <<register, scenario>>
    BY <1>5, ImportKeeps, CashierKeeps, SalesKeep DEF Registers
  <2>3. QED
    BY <2>1, <2>2, OtherStepIsSound DEF Serial
<1>6. ASSUME NEW s \in Slot, Crash(s)
      PROVE  RegInv'
  <2>1. /\ Elsewhere(s) /\ job[s].step # "idle" /\ job'[s].step = "idle"
        /\ UNCHANGED <<register, scenario>>
    BY <1>6, CrashMoves DEF SlotsInv, Idle, rows
  <2>2. QED
    BY <2>1, OtherStepIsSound DEF Serial, RegisterSteps
<1>7. QED
  BY <1>1, <1>2, <1>3, <1>4, <1>5, <1>6, NextIsStep

LEMMA RegistersStart ==
  ASSUME Init
  PROVE  RegInv
<1>1. register \in [Register -> RegisterRow \cup {NoRegister}]
  BY RowsAssumption DEF Init, RowsAssumption
<1>2. \A r \in Existing : register[r] \in RegisterRow
  BY <1>1 DEF Existing
<1>3. /\ \A r \in Existing : register[r].status = "active" /\ register[r].isActive
                            => register[r].key = register[r].drive
      /\ KeysDiffer
  BY StartAssumption DEF Init, StartAssumption, Existing, KeysDiffer, ProviderAt
<1>4. \A r \in Existing : IsSound(register[r])
  BY <1>2, <1>3 DEF IsSound, RegisterRow, RegisterFields
<1>5. RegisterJobs
  BY DEF Init, RegisterJobs, Idle
<1>6. QED
  BY <1>1, <1>3, <1>4, <1>5, SlotsStart DEF RegInv, RegistersAreSound

(* "One active mapping per (provider, fnNumber)" (schema.prisma): one      *)
(* request at a time, of the registers an import reads no two have the     *)
(* same drive, whatever is added, edited, switched, bound, archived and    *)
(* deleted, and however often.                                             *)
THEOREM DrivesStayExclusive == Spec => []DrivesAreExclusive
<1>1. Init => SlotsInv /\ (Serial => RegInv)
  BY SlotsStart, RegistersStart
<1>2. SlotsInv /\ (Serial => RegInv) /\ [Next]_vars => (SlotsInv /\ (Serial => RegInv))'
  BY SlotsFollow, NextIsSound
<1>3. (Serial => RegInv) => DrivesAreExclusive
  <2> SUFFICES ASSUME RegInv, NEW q \in Existing, NEW r \in Existing,
                      register[q].status = "active", register[q].isActive,
                      register[r].status = "active", register[r].isActive,
                      ProviderAt(q) = ProviderAt(r), register[q].drive = register[r].drive
               PROVE  q = r
    BY DEF DrivesAreExclusive
  <2>1. register[q].key = register[q].drive /\ register[r].key = register[r].drive
        /\ register[r].drive \in Drive
    BY DEF RegInv, RegistersAreSound, IsSound
  <2>2. QED
    BY <2>1, NamesAssumption DEF RegInv, RegistersAreSound, KeysDiffer, None
<1>4. QED
  BY <1>1, <1>2, <1>3, PTL DEF Spec

-----------------------------------------------------------------------------
(* Receipts keep their register.  An import stores receipts of registers   *)
(* it has read; alone, it finds them still there.  A deletion looked for   *)
(* receipts of the drive, and none has been stored since.                  *)

\* A register, if only an archived one, of a provider and a drive.
Held(p, d) == \E r \in Existing : ProviderAt(r) = p /\ register[r].drive = d

ReceiptsHeld == \A x \in Stored : Held(SourceOf[x], DriveOf[x])

FetchGoesBy(j) ==
  /\ \A m \in j.todo : Held(ProviderOf[j.conn], m.drive)
  /\ j.step # "next" => \A b \in j.batch : /\ SourceOf[b.receipt] = ProviderOf[j.conn]
                                          /\ Held(SourceOf[b.receipt], DriveOf[b.receipt])
  /\ j.step = "store" => j.read \subseteq j.batch

Fetching == {"next", "check", "store", "items"}

HeldInv ==
  /\ RegInv /\ ReceiptsHeld
  /\ \A s \in Slot : /\ job[s].step \in Fetching => FetchGoesBy(job[s])
                     /\ job[s].step = "hard delete" => DeleteGoesBy(job[s])
                     /\ job[s].step # "purge"

\* What this is about: one request at a time, no purge, and drives as they were entered.
Kept == Serial /\ ~Purging /\ "renumber" \notin scenario.calls

LEMMA HeldStays ==
  ASSUME RegistersStay, NEW p, NEW d, Held(p, d)
  PROVE  Held(p, d)'
BY DEF Held, RegistersStay, ProviderAt

LEMMA FetchStays ==
  ASSUME RegistersStay, NEW j, FetchGoesBy(j)
  PROVE  FetchGoesBy(j)'
BY HeldStays DEF FetchGoesBy

LEMMA DeleteStays ==
  ASSUME RegistersStay, UNCHANGED receipt, NEW j, DeleteGoesBy(j)
  PROVE  DeleteGoesBy(j)'
BY DEF DeleteGoesBy, ImportedBy, Stored, RegistersStay, ProviderAt

\* Receipts and registers as they were.
LEMMA ReceiptsStayHeld ==
  ASSUME ReceiptsHeld, RegistersStay, UNCHANGED receipt
  PROVE  ReceiptsHeld'
BY HeldStays DEF ReceiptsHeld, Stored

\* A step of a request that is alone, which ends or goes on with nothing of its own to keep.
LEMMA AloneHolds ==
  ASSUME HeldInv, Serial, NEW s \in Slot, Elsewhere(s), job[s].step # "idle", RegInv', ReceiptsHeld',
         job'[s].step \in Fetching => FetchGoesBy(job[s])',
         job'[s].step \notin {"hard delete", "purge"}
  PROVE  HeldInv'
<1>1. Alone(s)
  BY SerialIsAlone DEF HeldInv, RegInv, SlotsInv
<1>2. \A q \in Slot \ {s} : job'[q].step = "idle"
  BY <1>1 DEF Alone, Elsewhere
<1>3. QED
  BY <1>2 DEF HeldInv, Fetching

LEMMA RegisterStepHolds ==
  ASSUME HeldInv, Kept, NEW s \in Slot, RegisterStep(s), RegInv'
  PROVE  HeldInv'
<1>1. Moves(s, RegisterSteps, {"edit writes", "idle"}) /\ Elsewhere(s) /\ job[s].step # "idle"
  BY RegisterStepMoves DEF HeldInv, RegInv, SlotsInv, Moves, RegisterSteps
<1>2. UNCHANGED <<receipt, scenario>>
  BY RegisterKeeps DEF HeldInv
<1> DEFINE r == job[s].register
<1>3. ASSUME RegistersStay
      PROVE  ReceiptsHeld'
  BY <1>2, <1>3, ReceiptsStayHeld DEF HeldInv
<1>4. ASSUME NEW row, register' = [register EXCEPT ![r] = row], r \in Register, row # NoRegister,
             r \in Existing => ProviderOf[row.conn] = ProviderAt(r) /\ row.drive = register[r].drive
      PROVE  ReceiptsHeld'
  <2>1. /\ Existing \subseteq Existing' /\ register'[r] = row
        /\ \A q \in Existing \ {r} : register'[q] = register[q]
    BY <1>4 DEF Existing, HeldInv, RegInv, RegistersAreSound
  <2>2. \A q \in Existing : ProviderAt(q)' = ProviderAt(q) /\ register'[q].drive = register[q].drive
    BY <1>4, <2>1 DEF ProviderAt
  <2>3. QED
    BY <1>2, <2>1, <2>2 DEF ReceiptsHeld, Held, Stored, HeldInv
<1>5. ReceiptsHeld'
  <2>1. CASE UNCHANGED register
    BY <1>2, <1>3, <2>1, UnchangedRegistersStay
  <2>2. CASE EditReads(s)
    BY <2>1, <2>2 DEF EditReads, rows
  <2>3. CASE EditWrites(s) /\ ~UNCHANGED register
    <3>1. EditGoesBy(job[s])
      BY <2>3 DEF EditWrites, At, HeldInv, RegInv, RegisterJobs
    <3>2. \E key : register' = [register EXCEPT ![r].drive = job[s].to.drive, ![r].club = job[s].to.club,
                                         ![r].legal = job[s].to.legal, ![r].key = key]
      BY <2>3 DEF EditWrites
    <3>3. PICK key : register' = [register EXCEPT ![r].drive = job[s].to.drive, ![r].club = job[s].to.club,
                                         ![r].legal = job[s].to.legal, ![r].key = key]
      BY <3>2
    <3>4. PICK row : row = [register[r] EXCEPT !.drive = job[s].to.drive, !.club = job[s].to.club,
                                               !.legal = job[s].to.legal, !.key = key]
      OBVIOUS
    <3>5. register' = [register EXCEPT ![r] = row] /\ r \in Existing /\ r \in Register
      BY <3>1, <3>3, <3>4 DEF EditGoesBy, Existing, HeldInv, RegInv, RegistersAreSound
    <3>6. IsSound(register[r]) /\ register[r] # NoRegister
      BY <3>5 DEF HeldInv, RegInv, RegistersAreSound, Existing
    <3>7. /\ DOMAIN row = RegisterFields /\ row.conn = register[r].conn /\ row.drive = job[s].to.drive
      BY <3>4, <3>6 DEF IsSound, RegisterFields
    <3>8. row # NoRegister
      BY <3>7 DEF RegisterFields, NoRegister
    <3>9. job[s].to.drive = register[r].drive
      BY <3>1 DEF EditGoesBy, Kept
    <3>10. QED
      BY <1>4, <3>5, <3>7, <3>8, <3>9 DEF ProviderAt
  <2>4. CASE Toggle(s) /\ ~UNCHANGED register
    <3>1. ToggleGoesBy(job[s])
      BY <2>4 DEF Toggle, At, HeldInv, RegInv, RegisterJobs
    <3>2. PICK on, key : register' = [register EXCEPT ![r].isActive = on, ![r].key = key]
      BY <2>4 DEF Toggle
    <3>3. PICK row : row = [register[r] EXCEPT !.isActive = on, !.key = key]
      OBVIOUS
    <3>4. register' = [register EXCEPT ![r] = row] /\ r \in Existing /\ r \in Register
      BY <3>1, <3>2, <3>3 DEF ToggleGoesBy, Existing, HeldInv, RegInv, RegistersAreSound
    <3>5. IsSound(register[r])
      BY <3>4 DEF HeldInv, RegInv, RegistersAreSound
    <3>6. /\ DOMAIN row = RegisterFields /\ row.conn = register[r].conn /\ row.drive = register[r].drive
      BY <3>3, <3>5 DEF IsSound, RegisterFields
    <3>7. row # NoRegister
      BY <3>6 DEF RegisterFields, NoRegister
    <3>8. QED
      BY <1>4, <3>4, <3>6, <3>7 DEF ProviderAt
  <2>5. CASE Bind(s) /\ ~UNCHANGED register
    <3>1. BindGoesBy(job[s])
      BY <2>5 DEF Bind, At, HeldInv, RegInv, RegisterJobs
    <3> DEFINE b == Row(job[s].conn, job[s].to.drive, job[s].to.club, job[s].to.legal)
    <3>2. /\ (r \in Existing) = (job[s].seen # NoRegister)
          /\ register' = [register EXCEPT
               ![r] = IF r \in Existing THEN [b EXCEPT !.status = register[r].status] ELSE b]
      BY <2>5 DEF Bind
    <3>3. PICK row : row = IF r \in Existing THEN [b EXCEPT !.status = register[r].status] ELSE b
      OBVIOUS
    <3>4. register' = [register EXCEPT ![r] = row] /\ r \in Register
      BY <3>1, <3>2, <3>3 DEF BindGoesBy
    <3>5. /\ DOMAIN row = RegisterFields /\ row.conn = job[s].conn /\ row.drive = job[s].to.drive
      BY <3>3 DEF Row, RegisterFields
    <3>6. row # NoRegister
      BY <3>5 DEF RegisterFields, NoRegister
    <3>7. QED
      BY <1>4, <3>1, <3>2, <3>4, <3>5, <3>6 DEF BindGoesBy
  <2>6. CASE Archive(s) /\ ~UNCHANGED register
    <3>1. r \in Existing
      BY <2>6 DEF Archive
    <3>2. register' = [register EXCEPT ![r].status = "archived", ![r].isActive = FALSE, ![r].key = None]
      BY <2>6, <3>1 DEF Archive
    <3>3. PICK row : row = [register[r] EXCEPT !.status = "archived", !.isActive = FALSE, !.key = None]
      OBVIOUS
    <3>4. register' = [register EXCEPT ![r] = row] /\ r \in Register
      BY <3>1, <3>2, <3>3 DEF Existing, HeldInv, RegInv, RegistersAreSound
    <3>5. IsSound(register[r])
      BY <3>1 DEF HeldInv, RegInv, RegistersAreSound
    <3>6. /\ DOMAIN row = RegisterFields /\ row.conn = register[r].conn /\ row.drive = register[r].drive
      BY <3>3, <3>5 DEF IsSound, RegisterFields
    <3>7. row # NoRegister
      BY <3>6 DEF RegisterFields, NoRegister
    <3>8. QED
      BY <1>4, <3>1, <3>4, <3>6, <3>7 DEF ProviderAt
  <2>7. CASE HardDelete(s)
    <3>1. DeleteGoesBy(job[s])
      BY <2>7 DEF HardDelete, At, HeldInv
    <3>2. /\ register' = [register EXCEPT ![r] = NoRegister]
          /\ r \in Existing /\ ImportedBy(r) = {}
      BY <2>7, <3>1 DEF HardDelete, DeleteGoesBy
    <3>3. /\ Existing' = Existing \ {r} /\ \A q \in Existing \ {r} : register'[q] = register[q]
      BY <3>2 DEF Existing, HeldInv, RegInv, RegistersAreSound
    <3>4. \A q \in Existing \ {r} : ProviderAt(q)' = ProviderAt(q)
      BY <3>3 DEF ProviderAt
    <3>5. ASSUME NEW x \in Stored
          PROVE  Held(SourceOf[x], DriveOf[x])'
      <4>1. PICK q \in Existing : ProviderAt(q) = SourceOf[x] /\ register[q].drive = DriveOf[x]
        BY DEF HeldInv, ReceiptsHeld, Held
      <4>2. q # r
        BY <3>2, <4>1 DEF ImportedBy
      <4>3. QED
        BY <3>3, <3>4, <4>1, <4>2 DEF Held
    <3>6. QED
      BY <1>2, <3>5 DEF ReceiptsHeld, Stored
  <2>8. ~Purge(s)
    BY DEF Purge, At, HeldInv
  <2>9. QED
    BY <2>1, <2>2, <2>3, <2>4, <2>5, <2>6, <2>7, <2>8 DEF RegisterStep
<1>6. QED
  BY <1>1, <1>5, AloneHolds DEF Moves, Fetching, Kept

\* Summing up does not go back to the registers.
LEMMA SumUpStaysAway ==
  ASSUME JobsAreShaped, NEW s \in Slot, SumUpStep(s)
  PROVE  job'[s].step \notin Fetching
<1> USE DEF JobsAreShaped, JobFields, Fetching, At, Finish, Idle, Goto, NextConnection
<1>1. CASE NextDay(s)
  <2>1. CASE job[s].touched = {} /\ (Finish(s) \/ Goto(s, "close"))
    <3>1. CASE Finish(s)
      BY <3>1
    <3>2. CASE Goto(s, "close")
      BY <3>2
    <3>3. QED
      BY <2>1, <3>1, <3>2
  <2>2. CASE ~(job[s].touched = {} /\ (Finish(s) \/ Goto(s, "close")))
    <3>1. PICK k \in job[s].touched :
            job' = [job EXCEPT ![s].key = k, ![s].touched = @ \ {k},
                      ![s].step = IF job[s].call = "reclassify" THEN "read lines" ELSE "read day"]
      BY <1>1, <2>2 DEF NextDay
    <3>2. QED
      BY <3>1
  <2>3. QED
    BY <2>1, <2>2
<1>2. CASE ReadDay(s)          BY <1>2 DEF ReadDay
<1>3. CASE WriteDay(s)         BY <1>3 DEF WriteDay
<1>4. CASE ReadLines(s)        BY <1>4 DEF ReadLines
<1>5. CASE ClearCategories(s)  BY <1>5 DEF ClearCategories
<1>6. CASE WriteCategories(s)
  <2>1. \/ Finish(s)
        \/ NextConnection(s)
        \/ job' = [job EXCEPT ![s].step = "sum up", ![s].key = <<>>, ![s].read = {}]
    BY <1>6 DEF WriteCategories
  <2>2. CASE Finish(s)
    BY <2>2
  <2>3. CASE NextConnection(s)
    BY <2>3
  <2>4. CASE job' = [job EXCEPT ![s].step = "sum up", ![s].key = <<>>, ![s].read = {}]
    BY <2>4
  <2>5. QED
    BY <2>1, <2>2, <2>3, <2>4
<1>7. CASE Reclassify(s)
  <2>1. \/ Finish(s)
        \/ Goto(s, "sum up")
        \/ \E x \in job[s].todo : job' = [job EXCEPT ![s].todo = @ \ {x}]
    BY <1>7 DEF Reclassify
  <2>2. job[s].step = "lines"
    BY <1>7 DEF Reclassify
  <2>3. CASE Finish(s)
    BY <2>3
  <2>4. CASE Goto(s, "sum up")
    BY <2>4
  <2>5. CASE \E x \in job[s].todo : job' = [job EXCEPT ![s].todo = @ \ {x}]
    BY <2>2, <2>5
  <2>6. QED
    BY <2>1, <2>3, <2>4, <2>5
<1>8. QED
  BY <1>1, <1>2, <1>3, <1>4, <1>5, <1>6, <1>7 DEF SumUpStep

\* What an import goes by after its next step.
LEMMA FetchGoesOn ==
  ASSUME HeldInv, NEW s \in Slot, ImportStep(s), NEW j, j = job'[s], j.step \in Fetching
  PROVE  FetchGoesBy(j)
<1> USE DEF Fetching
<1>1. /\ DOMAIN job = Slot /\ DOMAIN job[s] = JobFields
      /\ job[s].step \in Fetching => FetchGoesBy(job[s])
  BY DEF HeldInv, RegInv, SlotsInv, JobsAreShaped
<1>2. CASE ReadRegisters(s)
  <2>1. /\ j.conn = job[s].conn /\ j.step = "next"
        /\ j.todo = {[drive |-> register[r].drive, club |-> register[r].club, legal |-> BookedLegal(s, r)]
                     : r \in Selected(s)}
    BY <1>1, <1>2 DEF ReadRegisters, JobFields
  <2>2. \A r \in Selected(s) : r \in Existing /\ ProviderAt(r) = ProviderOf[job[s].conn]
    BY DEF Selected
  <2>3. \A m \in j.todo : \E r \in Selected(s) : m.drive = register[r].drive
    BY <2>1
  <2>4. QED
    BY <2>1, <2>2, <2>3 DEF FetchGoesBy, Held
<1>3. CASE FetchRegister(s)
  <2>1. PICK m \in job[s].todo :
           \/ SkipRegister(s, m)
           \/ \E got \in SUBSET {x \in Receipt : DriveOf[x] = m.drive /\ SourceOf[x] = "taxcom"},
                 failed \in BOOLEAN : TakeRegister(s, m, got, failed)
    BY <1>3 DEF FetchRegister
  <2>2. job[s].step = "next" /\ ProviderOf[job[s].conn] = "taxcom" /\ FetchGoesBy(job[s])
    BY <1>1, <1>3 DEF FetchRegister, At
  <2>3. CASE SkipRegister(s, m)
    <3>1. j.todo = job[s].todo \ {m} /\ j.step = "next" /\ j.conn = job[s].conn
      BY <1>1, <2>2, <2>3 DEF SkipRegister, JobFields
    <3>2. QED
      BY <2>2, <3>1 DEF FetchGoesBy
  <2>4. CASE ~SkipRegister(s, m)
    <3>1. PICK got \in SUBSET {x \in Receipt : DriveOf[x] = m.drive /\ SourceOf[x] = "taxcom"},
               failed \in BOOLEAN : TakeRegister(s, m, got, failed)
      BY <2>1, <2>4
    <3>2. /\ j.todo = job[s].todo \ {m} /\ j.conn = job[s].conn /\ j.batch = Batch(got, m)
          /\ j.step = IF got = {} THEN "next" ELSE "check"
      BY <1>1, <3>1 DEF TakeRegister, JobFields
    <3>3. Held("taxcom", m.drive)
      BY <2>1, <2>2 DEF FetchGoesBy
    <3>4. \A b \in j.batch : SourceOf[b.receipt] = "taxcom" /\ DriveOf[b.receipt] = m.drive
      BY <3>1, <3>2 DEF Batch
    <3>5. \A b \in j.batch : Held(SourceOf[b.receipt], DriveOf[b.receipt])
      BY <3>3, <3>4
    <3>6. QED
      BY <2>2, <3>2, <3>4, <3>5 DEF FetchGoesBy
  <2>5. QED
    BY <2>3, <2>4
<1>4. CASE FetchPage(s)
  <2>1. job[s].step = "next" /\ ProviderOf[job[s].conn] = "astral" /\ FetchGoesBy(job[s])
    BY <1>1, <1>4 DEF FetchPage, At
  <2>2. \/ \E failed \in BOOLEAN : job' = [job EXCEPT ![s].bad = failed, ![s].step = "sum up"]
        \/ \E got \in SUBSET {x \in Receipt : SourceOf[x] = "astral"} \ {{}} :
             /\ \A x \in got : \E m \in job[s].todo : m.drive = DriveOf[x]
             /\ job' = [job EXCEPT ![s].batch = UNION {Batch({x \in got : DriveOf[x] = m.drive}, m)
                                                       : m \in job[s].todo},
                                   ![s].step = "check"]
    BY <1>4 DEF FetchPage
  <2>3. CASE \E failed \in BOOLEAN : job' = [job EXCEPT ![s].bad = failed, ![s].step = "sum up"]
    <3>1. j.step = "sum up"
      BY <1>1, <2>3 DEF JobFields
    <3>2. QED
      BY <3>1
  <2>4. CASE \E got \in SUBSET {x \in Receipt : SourceOf[x] = "astral"} \ {{}} :
             /\ \A x \in got : \E m \in job[s].todo : m.drive = DriveOf[x]
             /\ job' = [job EXCEPT ![s].batch = UNION {Batch({x \in got : DriveOf[x] = m.drive}, m)
                                                       : m \in job[s].todo},
                                   ![s].step = "check"]
    <3>1. PICK got \in SUBSET {x \in Receipt : SourceOf[x] = "astral"} \ {{}} :
             job' = [job EXCEPT ![s].batch = UNION {Batch({x \in got : DriveOf[x] = m.drive}, m)
                                                    : m \in job[s].todo},
                                ![s].step = "check"]
      BY <2>4
    <3>2. /\ j.todo = job[s].todo /\ j.conn = job[s].conn /\ j.step = "check"
          /\ j.batch = UNION {Batch({x \in got : DriveOf[x] = m.drive}, m) : m \in job[s].todo}
      BY <1>1, <3>1 DEF JobFields
    <3>3. \A b \in j.batch : \E m \in job[s].todo :
            SourceOf[b.receipt] = "astral" /\ DriveOf[b.receipt] = m.drive
      BY <3>2 DEF Batch
    <3>4. \A m \in job[s].todo : Held("astral", m.drive)
      BY <2>1 DEF FetchGoesBy
    <3>5. \A b \in j.batch : SourceOf[b.receipt] = "astral" /\ Held(SourceOf[b.receipt], DriveOf[b.receipt])
      BY <3>3, <3>4
    <3>6. QED
      BY <2>1, <3>2, <3>5 DEF FetchGoesBy
  <2>5. QED
    BY <2>2, <2>3, <2>4
<1>5. CASE CheckStored(s)
  <2>1. /\ j.todo = job[s].todo /\ j.conn = job[s].conn /\ j.batch = job[s].batch
        /\ j.read \subseteq j.batch /\ job[s].step = "check"
    BY <1>1, <1>5 DEF CheckStored, At, JobFields
  <2>2. QED
    BY <1>1, <2>1 DEF FetchGoesBy
<1>6. CASE StoreReceipts(s)
  <2>1. \/ NextConnection(s)
        \/ job' = [job EXCEPT ![s].step = "items", ![s].good = TRUE,
                              ![s].touched = @ \cup Touched(s, job[s].batch)]
    BY <1>6 DEF StoreReceipts
  <2>2. job[s].step = "store"
    BY <1>6 DEF StoreReceipts, At
  <2>3. CASE NextConnection(s)
    <3>1. j.step = "batch"
      BY <1>1, <2>3 DEF NextConnection, Idle
    <3>2. QED
      BY <3>1
  <2>4. CASE job' = [job EXCEPT ![s].step = "items", ![s].good = TRUE,
                              ![s].touched = @ \cup Touched(s, job[s].batch)]
    <3>1. j.todo = job[s].todo /\ j.conn = job[s].conn /\ j.batch = job[s].batch /\ j.step = "items"
      BY <1>1, <2>4 DEF JobFields
    <3>2. QED
      BY <1>1, <2>2, <3>1 DEF FetchGoesBy
  <2>5. QED
    BY <2>1, <2>3, <2>4
<1>7. CASE SaveItems(s)
  <2>1. j.todo = job[s].todo /\ j.conn = job[s].conn /\ j.step = "next" /\ job[s].step = "items"
    BY <1>1, <1>7 DEF SaveItems, At, JobFields
  <2>2. QED
    BY <1>1, <2>1 DEF FetchGoesBy
<1>8. ASSUME RunStep(s), ~ReadRegisters(s)
      PROVE  j.step \notin Fetching
  <2>1. CASE TakeConnection(s)
    <3>1. CASE job[s].queue = {} /\ Finish(s)
      BY <1>1, <3>1 DEF Finish, Idle
    <3>2. CASE ~(job[s].queue = {} /\ Finish(s))
      <4>1. PICK c \in job[s].queue :
              LET left == [Idle EXCEPT !.step = "batch", !.call = "import", !.queue = job[s].queue \ {c}]
              IN  job' = [job EXCEPT ![s] =
                    IF ~connection[c].isActive \/ Busy(c) THEN left
                    ELSE [left EXCEPT !.step = "open", !.conn = c, !.legal = connection[c].legal]]
        BY <2>1, <3>2 DEF TakeConnection
      <4>2. QED
        BY <1>1, <4>1 DEF Idle
    <3>3. QED
      BY <3>1, <3>2
  <2>2. CASE OpenRun(s)       BY <1>1, <2>2 DEF OpenRun, Goto, JobFields
  <2>3. CASE WrongAccount(s)  BY <1>1, <2>3 DEF WrongAccount, JobFields
  <2>4. CASE CloseRun(s)      BY <1>1, <2>4 DEF CloseRun, NextConnection, Idle
  <2>5. QED
    BY <1>8, <2>1, <2>2, <2>3, <2>4 DEF RunStep
<1>9. CASE EndOfRegisters(s)
  <2>1. j.step = "sum up"
    BY <1>1, <1>9 DEF EndOfRegisters, Goto, JobFields
  <2>2. QED
    BY <2>1
<1>10. ~SumUpStep(s)
  BY SumUpStaysAway DEF HeldInv, RegInv, SlotsInv
<1>11. QED
  BY <1>2, <1>3, <1>4, <1>5, <1>6, <1>7, <1>8, <1>9, <1>10 DEF ImportStep, RunStep, FetchStep

\* A receipt is stored while its register is there.
LEMMA StoredIsHeld ==
  ASSUME HeldInv, NEW s \in Slot, ImportStep(s)
  PROVE  ReceiptsHeld'
<1>1. RegistersStay
  BY ImportKeeps, UnchangedRegistersStay DEF Registers
<1>2. CASE UNCHANGED receipt
  BY <1>1, <1>2, ReceiptsStayHeld DEF HeldInv
<1>3. CASE ~UNCHANGED receipt
  <2>1. StoreReceipts(s)
    BY <1>3 DEF ImportStep, RunStep, FetchStep, SumUpStep, TakeConnection, OpenRun, ReadRegisters,
                WrongAccount, CloseRun, OnlySync, FetchRegister, FetchPage, EndOfRegisters,
                CheckStored, SaveItems, NextDay, ReadDay, WriteDay, ReadLines, ClearCategories,
                WriteCategories, Reclassify, OnlySummaries, rows
  <2>2. /\ job[s].step = "store" /\ FetchGoesBy(job[s])
        /\ \A x \in Receipt : (\A b \in job[s].read : b.receipt # x) => receipt'[x] = receipt[x]
    BY <1>3, <2>1 DEF StoreReceipts, At, HeldInv, Fetching
  <2>3. \A b \in job[s].read : Held(SourceOf[b.receipt], DriveOf[b.receipt])
    BY <2>2 DEF FetchGoesBy
  <2>4. ASSUME NEW x \in Stored'
        PROVE  Held(SourceOf[x], DriveOf[x])
    <3>1. CASE \E b \in job[s].read : b.receipt = x
      BY <2>3, <3>1
    <3>2. CASE \A b \in job[s].read : b.receipt # x
      BY <2>2, <3>2 DEF Stored, HeldInv, ReceiptsHeld
    <3>3. QED
      BY <3>1, <3>2
  <2>5. QED
    BY <1>1, <2>4, HeldStays DEF ReceiptsHeld
<1>4. QED
  BY <1>2, <1>3

LEMMA ImportStepHolds ==
  ASSUME HeldInv, Kept, NEW s \in Slot, ImportStep(s), RegInv'
  PROVE  HeldInv'
<1>1. Moves(s, ImportSteps, ImportSteps \cup {"idle"})
  BY ImportStepMoves DEF HeldInv, RegInv, SlotsInv
<1>2. /\ Elsewhere(s) /\ job[s].step # "idle" /\ job'[s].step \notin {"hard delete", "purge"}
  BY <1>1 DEF Moves, ImportSteps
<1>3. RegistersStay
  BY ImportKeeps, UnchangedRegistersStay DEF Registers
<1>4. ASSUME job'[s].step \in Fetching
      PROVE  FetchGoesBy(job[s])'
  <2>1. PICK j : j = job'[s]
    OBVIOUS
  <2>2. FetchGoesBy(j)'
    BY <1>3, <1>4, <2>1, FetchGoesOn, FetchStays
  <2>3. QED
    BY <2>1, <2>2
<1>5. QED
  BY <1>2, <1>4, StoredIsHeld, AloneHolds DEF Kept

\* A step about cashiers or sales, or the end of the process.
LEMMA OtherStepHolds ==
  ASSUME HeldInv, Kept, NEW s \in Slot, CashierStep(s) \/ SalesStep(s) \/ Crash(s), RegInv'
  PROVE  HeldInv'
<1>1. /\ Elsewhere(s) /\ job[s].step # "idle"
      /\ job'[s].step \in CashierSteps \cup SalesSteps \cup {"idle"}
  <2>1. JobsAreShaped
    BY DEF HeldInv, RegInv, SlotsInv
  <2>2. CASE CashierStep(s)
    BY <2>1, <2>2, CashierStepMoves DEF Moves, CashierSteps
  <2>3. CASE SalesStep(s)
    BY <2>1, <2>3, SalesStepMoves DEF Moves, SalesSteps
  <2>4. CASE Crash(s)
    BY <2>1, <2>4, CrashMoves DEF Idle
  <2>5. QED
    BY <2>2, <2>3, <2>4
<1>2. UNCHANGED <<register, receipt, scenario>>
  BY CashierKeeps, SalesKeep, CrashMoves DEF HeldInv, RegInv, SlotsInv, Registers, rows
<1>3. ReceiptsHeld'
  BY <1>2, UnchangedRegistersStay, ReceiptsStayHeld DEF HeldInv
<1>4. QED
  BY <1>1, <1>3, AloneHolds DEF Kept, Fetching, CashierSteps, SalesSteps

\* Nothing happens to what the requests go by.
LEMMA OthersHold ==
  ASSUME HeldInv, RegistersStay, UNCHANGED receipt, NEW s \in Slot, job'[s] = job[s]
  PROVE  /\ job'[s].step \in Fetching => FetchGoesBy(job[s])'
         /\ job'[s].step = "hard delete" => DeleteGoesBy(job[s])'
         /\ job'[s].step # "purge"
<1>1. PICK j : j = job[s]
  OBVIOUS
<1>2. /\ j.step \in Fetching => FetchGoesBy(j)'
      /\ j.step = "hard delete" => DeleteGoesBy(j)'
      /\ j.step # "purge"
  BY <1>1, FetchStays, DeleteStays DEF HeldInv
<1>3. job'[s] = j
  BY <1>1
<1>4. QED
  BY <1>2, <1>3

LEMMA StartHolds ==
  ASSUME HeldInv, Kept, NEW s \in Slot, Starts(s), RegInv'
  PROVE  HeldInv'
<1>1. PICK call, j : Begin(s, call, j) /\ Fresh(call, j)
  BY StartIsFresh
<1>2. Elsewhere(s) /\ job'[s] = j /\ UNCHANGED <<register, receipt, scenario>> /\ call \in scenario.calls
  BY <1>1, BeginMoves DEF HeldInv, RegInv, SlotsInv, Fresh, rows
<1>3. RegistersStay
  BY <1>2, UnchangedRegistersStay
<1>4. /\ j.step \notin Fetching /\ j.step # "purge"
      /\ j.step = "hard delete" => DeleteGoesBy(j)'
  BY <1>1, <1>2, <1>3, DeleteStays DEF Fresh, FirstSteps, Fetching, Kept, Purging
<1>5. ReceiptsHeld'
  BY <1>2, <1>3, ReceiptsStayHeld DEF HeldInv
<1>6. ASSUME NEW q \in Slot
      PROVE  /\ job'[q].step \in Fetching => FetchGoesBy(job[q])'
             /\ job'[q].step = "hard delete" => DeleteGoesBy(job[q])'
             /\ job'[q].step # "purge"
  <2>1. CASE q = s
    BY <1>2, <1>4, <2>1
  <2>2. CASE q # s
    BY <1>2, <1>3, <2>2, OthersHold DEF Elsewhere
  <2>3. QED
    BY <2>1, <2>2
<1>7. QED
  BY <1>5, <1>6 DEF HeldInv

\* The requests that may come are chosen once.
LEMMA ScenarioStays ==
  ASSUME SlotsInv, [Next]_vars
  PROVE  scenario' = scenario
<1>1. CASE UNCHANGED vars
  BY <1>1 DEF vars
<1>2. CASE Settings
  BY <1>2, SettingsKeep
<1>3. ASSUME NEW s \in Slot, Starts(s)
      PROVE  scenario' = scenario
  BY <1>3, StartIsFresh DEF Begin
<1>4. ASSUME NEW s \in Slot, RegisterStep(s) \/ ImportStep(s) \/ CashierStep(s) \/ SalesStep(s) \/ Crash(s)
      PROVE  scenario' = scenario
  BY <1>4, RegisterKeeps, ImportKeeps, CashierKeeps, SalesKeep, CrashMoves DEF SlotsInv
<1>5. QED
  BY <1>1, <1>2, <1>3, <1>4, NextIsStep

LEMMA NextHolds ==
  ASSUME Kept => HeldInv, SlotsInv, SlotsInv', [Next]_vars
  PROVE  (Kept => HeldInv)'
<1> SUFFICES ASSUME Kept'
             PROVE  HeldInv'
  OBVIOUS
<1>1. scenario' = scenario
  BY ScenarioStays
<1>2. Kept /\ HeldInv
  BY <1>1 DEF Kept, Serial, Purging
<1>3. RegInv'
  BY <1>2, NextIsSound DEF Kept, HeldInv
<1>4. ASSUME UNCHANGED vars \/ Settings
      PROVE  HeldInv'
  <2>1. RegistersStay
    BY <1>2, <1>4, SettingsKeepRegisters, UnchangedRegistersStay DEF HeldInv, RegInv, vars, rows
  <2>2. UNCHANGED <<receipt, job>>
    BY <1>4, SettingsKeep DEF vars, rows
  <2>3. ReceiptsHeld'
    BY <1>2, <2>1, <2>2, ReceiptsStayHeld DEF HeldInv
  <2>4. QED
    BY <1>2, <1>3, <2>1, <2>2, <2>3, OthersHold DEF HeldInv
<1>5. ASSUME NEW s \in Slot,
             Starts(s) \/ RegisterStep(s) \/ ImportStep(s) \/ CashierStep(s) \/ SalesStep(s) \/ Crash(s)
      PROVE  HeldInv'
  BY <1>2, <1>3, <1>5, StartHolds, RegisterStepHolds, ImportStepHolds, OtherStepHolds
<1>6. QED
  BY <1>4, <1>5, NextIsStep

LEMMA HeldStarts ==
  ASSUME Init
  PROVE  HeldInv
<1>1. ReceiptsHeld
  BY StartAssumption DEF Init, StartAssumption, ReceiptsHeld, Held, Stored, Existing, ProviderAt
<1>2. \A s \in Slot : job[s].step = "idle"
  BY DEF Init, Idle
<1>3. QED
  BY <1>1, <1>2, RegistersStart DEF HeldInv, Fetching

(* A register is deleted for good only when nothing was imported from it   *)
(* (deleteCashRegister): one request at a time, every stored receipt has a *)
(* register of its provider with its drive, whatever imports fail or end   *)
(* half-way and whatever is archived, deleted, bound and switched.         *)
THEOREM ReceiptsStayWithRegister == Spec => []ReceiptsKeepTheirRegister
<1> DEFINE I == SlotsInv /\ (Kept => HeldInv)
<1>1. Init => I
  BY SlotsStart, HeldStarts
<1>2. I /\ [Next]_vars => I'
  BY SlotsFollow, NextHolds
<1>3. I => ReceiptsKeepTheirRegister
  BY DEF ReceiptsKeepTheirRegister, Kept, HeldInv, ReceiptsHeld, Held
<1>4. QED
  BY <1>1, <1>2, <1>3, PTL DEF Spec

-----------------------------------------------------------------------------
(* One cashier per day, one request at a time: what counts is open, and of *)
(* one cashier one mapping is active.                                      *)

RowsAreShaped ==
  /\ DOMAIN mapping = Mid /\ DOMAIN identity = Identity
  /\ \A m \in Mapped : DOMAIN mapping[m] = MappingFields

ActiveAreOpen == \A m \in Mapped : mapping[m].status # "inactive" => mapping[m].to = Open

OneIsActive ==
  \A m, n \in Mapped :
    /\ mapping[m].cashier = mapping[n].cashier
    /\ mapping[m].status # "inactive" /\ mapping[n].status # "inactive"
    => m = n

ExcludedAreOut ==
  \A i \in Identity : identity[i].status = "excluded" => \A m \in RowsOf(i) : mapping[m].status # "confirmed"

CashierGoesBy(j) ==
  /\ j.step = "suggest" => ActiveOf(j.key) = {}
  /\ j.step \in {"lock", "guard", "assign"} => j.todo = OpenOf(j.key)
  /\ j.step = "closing" => ActiveOf(j.key) \subseteq j.todo
  /\ j.step = "exclude" => ActiveOf(j.key) \subseteq j.locks

RowsInv == RowsAreShaped /\ ActiveAreOpen /\ OneIsActive /\ ExcludedAreOut

DayInv == SlotsInv /\ RowsInv /\ \A s \in Slot : CashierGoesBy(job[s])

LEMMA RowsStayed ==
  ASSUME RowsInv, UNCHANGED Cashiers
  PROVE  RowsInv'
BY DEF RowsInv, RowsAreShaped, ActiveAreOpen, OneIsActive, ExcludedAreOut, RowsOf, Mapped, Cashiers

\* The mapping p of the cashier i is the only one of his that counts.
LEMMA OneRowCounts ==
  ASSUME RowsInv, NEW i, NEW p \in Mid, RowsAreShaped',
         \A m \in Mapped' \ {p} : /\ m \in Mapped /\ mapping'[m].cashier = mapping[m].cashier
                                  /\ mapping'[m].status = "inactive" \/ mapping'[m] = mapping[m]
                                  /\ mapping'[m].cashier = i => mapping'[m].status = "inactive",
         p \in Mapped', mapping'[p].cashier = i, mapping'[p].to = Open,
         \A k \in Identity \ {i} : identity'[k] = identity[k],
         i \in Identity /\ identity'[i].status = "excluded" => mapping'[p].status # "confirmed"
  PROVE  RowsInv'
<1>1. ActiveAreOpen'
  BY DEF RowsInv, ActiveAreOpen
<1>2. ASSUME NEW m \in Mapped', NEW n \in Mapped', mapping'[m].cashier = mapping'[n].cashier,
             mapping'[m].status # "inactive", mapping'[n].status # "inactive"
      PROVE  m = n
  BY <1>2 DEF RowsInv, OneIsActive
<1>3. ExcludedAreOut'
  <2>1. ASSUME NEW k \in Identity, identity'[k].status = "excluded",
               NEW m \in Mapped', mapping'[m].cashier = k
        PROVE  mapping'[m].status # "confirmed"
    <3>1. CASE k = i
      BY <2>1, <3>1
    <3>2. CASE k # i
      <4>1. m # p /\ m \in Mapped /\ mapping[m].cashier = k /\ identity[k].status = "excluded"
        BY <2>1, <3>2
      <4>2. mapping[m].status # "confirmed"
        BY <4>1 DEF RowsInv, ExcludedAreOut, RowsOf, Mapped
      <4>3. QED
        BY <2>1, <4>1, <4>2
    <3>3. QED
      BY <3>1, <3>2
  <2>2. QED
    BY <2>1 DEF ExcludedAreOut, RowsOf, Mapped
<1>4. QED
  BY <1>1, <1>2, <1>3 DEF RowsInv, OneIsActive

LEMMA SuggestionCounts ==
  ASSUME DayInv, NEW s \in Slot, Suggest(s)
  PROVE  RowsInv'
<1>1. job[s].step = "suggest" /\ ActiveOf(job[s].key) = {}
  BY DEF Suggest, At, DayInv, CashierGoesBy
<1>2. PICK m \in Mid, e \in Employee \cup {None},
           status \in {"auto_matched", "ambiguous", "unmatched"} :
        /\ Free(m)
        /\ mapping' = [mapping EXCEPT ![m] = Mapping(job[s].key, e, status, FirstSeen(job[s].key))]
  BY DEF Suggest
<1>3. PICK row : /\ row = Mapping(job[s].key, e, status, FirstSeen(job[s].key))
                 /\ DOMAIN row = MappingFields /\ row # NoMapping
  BY NewMappingIsShaped
<1>4. row.cashier = job[s].key /\ row.to = Open /\ row.status # "confirmed"
  BY <1>2, <1>3 DEF Mapping
<1>5. /\ DOMAIN mapping' = Mid /\ mapping'[m] = row /\ m \notin Mapped
      /\ \A n \in Mid \ {m} : mapping'[n] = mapping[n]
  BY <1>2, <1>3 DEF Free, Mapped, DayInv, RowsInv, RowsAreShaped
<1>6. Mapped' = Mapped \cup {m} /\ UNCHANGED identity
  BY <1>3, <1>5 DEF Mapped, Suggest
<1>7. RowsAreShaped'
  <2>1. \A n \in Mapped' : DOMAIN mapping'[n] = MappingFields
    BY <1>3, <1>5, <1>6 DEF RowsAreShaped, DayInv, RowsInv, Mapped
  <2>2. DOMAIN identity' = Identity
    BY <1>6 DEF RowsAreShaped, DayInv, RowsInv
  <2>3. QED
    BY <1>5, <2>1, <2>2 DEF RowsAreShaped
<1>8. \A n \in Mapped : mapping[n].cashier = job[s].key => mapping[n].status = "inactive"
  BY <1>1 DEF ActiveOf, RowsOf, Mapped
<1>9. RowsInv
  BY DEF DayInv
<1>10. \A n \in Mapped' \ {m} : n \in Mapped /\ mapping'[n] = mapping[n]
  BY <1>5, <1>6 DEF Mapped
<1>11. QED
  BY <1>4, <1>5, <1>6, <1>7, <1>8, <1>9, <1>10, OneRowCounts

LEMMA AssignmentCounts ==
  ASSUME DayInv, NEW s \in Slot, Assign(s)
  PROVE  RowsInv'
<1> DEFINE i == job[s].key
           to == job[s].to
           after == [m \in Mid |-> IF m \in Closing(s) THEN Closed(s, m) ELSE mapping[m]]
<1>1. /\ job[s].step = "assign" /\ job[s].todo = OpenOf(i)
      /\ identity' = [identity EXCEPT ![i] = [status |-> "active"]]
  BY DEF Assign, At, DayInv, CashierGoesBy
<1>2. RowsInv /\ RowsAreShaped
  BY DEF DayInv, RowsInv
<1>3. \A m \in OpenOf(i) : m \in Mapped /\ m \in Mid /\ mapping[m].cashier = i /\ mapping[m].status # "inactive"
  BY DEF OpenOf, ActiveOf, RowsOf, Mapped
<1>4. \A m \in Mapped : mapping[m].cashier = i /\ mapping[m].status # "inactive" => m \in OpenOf(i)
  BY <1>2 DEF RowsInv, ActiveAreOpen, OpenOf, ActiveOf, RowsOf, Mapped
<1>5. \A k \in Identity \ {i} : identity'[k] = identity[k]
  BY <1>1, <1>2 DEF RowsAreShaped
<1>6. i \in Identity => identity'[i].status # "excluded"
  BY <1>1, <1>2 DEF RowsAreShaped
<1>7. DOMAIN identity' = Identity
  BY <1>1, <1>2 DEF RowsAreShaped
<1>8. CASE \E m \in Same(s) : mapping' = [after EXCEPT ![m] = Confirmed(s, m)]
  <2>1. PICK m \in Same(s) : mapping' = [after EXCEPT ![m] = Confirmed(s, m)]
    BY <1>8
  <2>2. m \in OpenOf(i) /\ Closing(s) = {}
    BY <1>1, <1>2, <1>3, <2>1 DEF Same, Closing, RowsInv, OneIsActive
  <2>3. PICK row : row = Confirmed(s, m)
    OBVIOUS
  <2>4. /\ DOMAIN row = MappingFields /\ row.cashier = i /\ row.to = Open /\ row # NoMapping
    <3>1. DOMAIN mapping[m] = MappingFields /\ mapping[m].to = Open
      BY <1>2, <1>3, <2>2 DEF RowsAreShaped, OpenOf
    <3>2. DOMAIN row = MappingFields /\ row.cashier = i /\ row.to = Open
      BY <1>3, <2>2, <2>3, <3>1 DEF Confirmed, MappingFields
    <3>3. QED
      BY <3>2, RowIsMapping
  <2>5. after = [n \in Mid |-> mapping[n]]
    BY <2>2
  <2>6. mapping' = [n \in Mid |-> IF n = m THEN row ELSE mapping[n]]
    BY <1>3, <2>1, <2>2, <2>3, <2>5
  <2>7. Mapped' = Mapped /\ RowsAreShaped' /\ m \in Mid
    BY <1>2, <1>3, <1>7, <2>2, <2>4, <2>6 DEF RowsAreShaped, Mapped
  <2>8. \A n \in Mapped' \ {m} : /\ n \in Mapped /\ mapping'[n] = mapping[n]
                                 /\ mapping'[n].cashier = i => mapping'[n].status = "inactive"
    BY <1>2, <1>3, <1>4, <2>2, <2>6, <2>7 DEF Mapped, RowsInv, OneIsActive
  <2>9. mapping'[m] = row /\ m \in Mapped'
    BY <1>3, <2>2, <2>6, <2>7
  <2>10. QED
    BY <1>2, <1>5, <1>6, <2>4, <2>7, <2>8, <2>9, OneRowCounts
<1>9. CASE /\ Same(s) = {}
           /\ \E m \in Mid : Free(m) /\ mapping' = [after EXCEPT ![m] = Mapping(i, to.employee, "confirmed", to.from)]
  <2>1. PICK m \in Mid : Free(m) /\ mapping' = [after EXCEPT ![m] = Mapping(i, to.employee, "confirmed", to.from)]
    BY <1>9
  <2>2. Closing(s) = OpenOf(i) /\ m \notin Mapped
    BY <1>1, <1>9, <2>1 DEF Same, Closing, Free, Mapped
  <2>3. PICK row : /\ row = Mapping(i, to.employee, "confirmed", to.from)
                   /\ DOMAIN row = MappingFields /\ row # NoMapping
    BY NewMappingIsShaped
  <2>4. row.cashier = i /\ row.to = Open
    BY <2>3 DEF Mapping
  <2>5. /\ mapping'[m] = row /\ DOMAIN mapping' = Mid
        /\ \A n \in Mid \ {m} : mapping'[n] = IF n \in OpenOf(i) THEN Closed(s, n) ELSE mapping[n]
    BY <2>1, <2>2, <2>3
  <2>6. ASSUME NEW n \in OpenOf(i)
        PROVE  /\ DOMAIN Closed(s, n) = MappingFields /\ Closed(s, n).cashier = i
               /\ Closed(s, n).status = "inactive" /\ Closed(s, n) # NoMapping
    <3>1. DOMAIN mapping[n] = MappingFields /\ mapping[n].cashier = i
      BY <1>2, <1>3 DEF RowsAreShaped
    <3>2. PICK c : c = Closed(s, n)
      OBVIOUS
    <3>3. DOMAIN c = MappingFields /\ c.cashier = i /\ c.status = "inactive"
      BY <3>1, <3>2 DEF Closed, MappingFields
    <3>4. QED
      BY <3>2, <3>3, RowIsMapping
  <2>7. Mapped' = Mapped \cup {m}
    BY <1>3, <2>3, <2>5, <2>6 DEF Mapped
  <2>8. RowsAreShaped'
    BY <1>2, <1>7, <2>3, <2>5, <2>6, <2>7 DEF RowsAreShaped, Mapped
  <2>9. \A n \in Mapped' \ {m} : /\ n \in Mapped /\ mapping'[n].cashier = mapping[n].cashier
                                 /\ mapping'[n].status = "inactive" \/ mapping'[n] = mapping[n]
                                 /\ mapping'[n].cashier = i => mapping'[n].status = "inactive"
    <3>1. ASSUME NEW n \in Mapped' \ {m}
          PROVE  /\ n \in Mapped /\ mapping'[n].cashier = mapping[n].cashier
                 /\ mapping'[n].status = "inactive" \/ mapping'[n] = mapping[n]
                 /\ mapping'[n].cashier = i => mapping'[n].status = "inactive"
      <4>1. n \in Mapped /\ n \in Mid
        BY <2>7 DEF Mapped
      <4>2. CASE n \in OpenOf(i)
        BY <1>3, <2>5, <2>6, <4>1, <4>2
      <4>3. CASE n \notin OpenOf(i)
        BY <1>4, <2>5, <4>1, <4>3
      <4>4. QED
        BY <4>2, <4>3
    <3>2. QED
      BY <3>1
  <2>10. QED
    BY <1>2, <1>5, <1>6, <2>4, <2>5, <2>7, <2>8, <2>9, OneRowCounts
<1>10. QED
  BY <1>8, <1>9 DEF Assign

LEMMA ExclusionCounts ==
  ASSUME DayInv, NEW s \in Slot, Exclude(s)
  PROVE  RowsInv'
<1> DEFINE i == job[s].key
<1>1. /\ job[s].step = "exclude" /\ ActiveOf(i) \subseteq job[s].locks
      /\ identity' = [identity EXCEPT ![i] = [status |-> "excluded"]]
  BY DEF Exclude, At, DayInv, CashierGoesBy
<1>2. RowsInv /\ RowsAreShaped
  BY DEF DayInv, RowsInv
<1>3. PICK m \in Mid :
        /\ Free(m)
        /\ mapping' = [n \in Mid |->
             IF n = m THEN Mapping(i, None, "excluded", EPOCH)
             ELSE IF n \in job[s].locks THEN [mapping[n] EXCEPT !.status = "inactive", !.to = LastDay]
             ELSE mapping[n]]
  BY DEF Exclude
<1>4. PICK row : /\ row = Mapping(i, None, "excluded", EPOCH)
                 /\ DOMAIN row = MappingFields /\ row # NoMapping
  BY NewMappingIsShaped
<1>5. row.cashier = i /\ row.to = Open /\ row.status # "confirmed" /\ m \notin Mapped
  BY <1>3, <1>4 DEF Mapping, Free, Mapped
<1>6. mapping'[m] = row /\ DOMAIN mapping' = Mid
  BY <1>3, <1>4
<1>7. ASSUME NEW n \in Mapped
      PROVE  /\ DOMAIN mapping'[n] = MappingFields /\ mapping'[n].cashier = mapping[n].cashier
             /\ mapping'[n].status = "inactive" \/ mapping'[n] = mapping[n]
             /\ mapping[n].cashier = i => mapping'[n].status = "inactive"
             /\ mapping'[n] # NoMapping
  <2>1. n # m /\ n \in Mid /\ DOMAIN mapping[n] = MappingFields
    BY <1>2, <1>5 DEF Mapped, RowsAreShaped
  <2>2. CASE n \in job[s].locks
    <3>1. PICK c : c = [mapping[n] EXCEPT !.status = "inactive", !.to = LastDay]
      OBVIOUS
    <3>2. DOMAIN c = MappingFields /\ c.cashier = mapping[n].cashier /\ c.status = "inactive"
      BY <2>1, <3>1 DEF MappingFields
    <3>3. mapping'[n] = c
      BY <1>3, <2>1, <2>2, <3>1
    <3>4. QED
      BY <3>2, <3>3, RowIsMapping
  <2>3. CASE n \notin job[s].locks
    <3>1. mapping'[n] = mapping[n]
      BY <1>3, <2>1, <2>3
    <3>2. mapping[n].cashier = i => mapping[n].status = "inactive"
      BY <1>1, <2>1, <2>3 DEF ActiveOf, RowsOf, Mapped
    <3>3. QED
      BY <2>1, <3>1, <3>2, RowIsMapping
  <2>4. QED
    BY <2>2, <2>3
<1>8. ASSUME NEW n \in Mapped' \ {m}
      PROVE  n \in Mapped
  <2>1. n \in Mid /\ mapping'[n] # NoMapping /\ n # m
    BY <1>8 DEF Mapped
  <2>2. CASE n \in job[s].locks /\ n \notin Mapped
    <3>1. mapping[n] = NoMapping
      BY <2>1, <2>2 DEF Mapped
    <3>2. [mapping[n] EXCEPT !.status = "inactive", !.to = LastDay] = mapping[n]
      BY <3>1 DEF NoMapping
    <3>3. QED
      BY <1>3, <2>1, <2>2, <3>1, <3>2
  <2>3. QED
    BY <1>3, <2>1, <2>2 DEF Mapped
<1>9. RowsAreShaped' /\ m \in Mapped'
  <2>1. DOMAIN identity' = Identity
    BY <1>1, <1>2 DEF RowsAreShaped
  <2>2. QED
    BY <1>4, <1>6, <1>7, <1>8, <2>1 DEF RowsAreShaped, Mapped
<1>10. \A k \in Identity \ {i} : identity'[k] = identity[k]
  BY <1>1, <1>2 DEF RowsAreShaped
<1>11. \A n \in Mapped' \ {m} : /\ n \in Mapped /\ mapping'[n].cashier = mapping[n].cashier
                                /\ mapping'[n].status = "inactive" \/ mapping'[n] = mapping[n]
                                /\ mapping'[n].cashier = i => mapping'[n].status = "inactive"
  BY <1>7, <1>8
<1>12. QED
  BY <1>2, <1>5, <1>6, <1>9, <1>10, <1>11, OneRowCounts

LEMMA PurgeCounts ==
  ASSUME RowsInv, NEW s \in Slot, Purge(s)
  PROVE  RowsInv'
<1>1. CASE UNCHANGED Cashiers
  BY <1>1, RowsStayed
<1>2. CASE ~UNCHANGED Cashiers
  <2>1. PICK gone \in SUBSET Identity :
          /\ mapping' = [m \in Mid |-> IF mapping[m].cashier \in gone THEN NoMapping ELSE mapping[m]]
          /\ identity' = [i \in Identity |-> IF i \in gone THEN NoIdentity ELSE identity[i]]
    BY <1>2 DEF Purge, Cashiers
  <2>2. \A m \in Mapped' : m \in Mapped /\ mapping'[m] = mapping[m] /\ m \in Mid
    BY <2>1 DEF Mapped
  <2>3. \A i \in Identity : identity'[i].status = "excluded" => identity[i].status = "excluded"
    BY <2>1 DEF NoIdentity, None
  <2>4. ASSUME NEW i \in Identity, identity'[i].status = "excluded",
               NEW m \in Mapped', mapping'[m].cashier = i
        PROVE  mapping'[m].status # "confirmed"
    BY <2>2, <2>3, <2>4 DEF RowsInv, ExcludedAreOut, RowsOf, Mapped
  <2>5. ExcludedAreOut'
    BY <2>4 DEF ExcludedAreOut, RowsOf, Mapped
  <2>6. RowsAreShaped'
    BY <2>1, <2>2 DEF RowsInv, RowsAreShaped
  <2>7. ActiveAreOpen' /\ OneIsActive'
    BY <2>2 DEF RowsInv, ActiveAreOpen, OneIsActive
  <2>8. QED
    BY <2>5, <2>6, <2>7 DEF RowsInv
<1>3. QED
  BY <1>1, <1>2

LEMMA SyncCounts ==
  ASSUME RowsInv, NEW s \in Slot, SyncIdentity(s)
  PROVE  RowsInv'
<1>1. UNCHANGED mapping
  BY DEF SyncIdentity
<1>2. \/ UNCHANGED identity
      \/ \E i \in job[s].todo :
           identity' = [identity EXCEPT ![i] = IF @ = NoIdentity THEN [status |-> "active"] ELSE @]
  BY DEF SyncIdentity
<1>3. CASE UNCHANGED identity
  BY <1>1, <1>3, RowsStayed DEF Cashiers
<1>4. CASE ~UNCHANGED identity
  <2>1. PICK i : identity' = [identity EXCEPT ![i] = IF @ = NoIdentity THEN [status |-> "active"] ELSE @]
    BY <1>2, <1>4
  <2>2. DOMAIN identity = Identity
    BY DEF RowsInv, RowsAreShaped
  <2>3. /\ DOMAIN identity' = Identity
        /\ \A k \in Identity : identity'[k].status = "excluded" => identity[k].status = "excluded"
    BY <2>1, <2>2
  <2>4. QED
    BY <1>1, <2>3 DEF RowsInv, RowsAreShaped, ActiveAreOpen, OneIsActive, ExcludedAreOut, RowsOf, Mapped
<1>5. QED
  BY <1>3, <1>4

CashierPauses == {"suggest", "lock", "guard", "assign", "closing", "exclude"}

\* A step of a request that is alone.
LEMMA AloneCounts ==
  ASSUME DayInv, Serial, NEW s \in Slot, Elsewhere(s), job[s].step # "idle", SlotsInv', RowsInv',
         job'[s].step \in CashierPauses => CashierGoesBy(job[s])'
  PROVE  DayInv'
<1>1. Alone(s)
  BY SerialIsAlone DEF DayInv, SlotsInv
<1>2. \A q \in Slot \ {s} : job'[q].step = "idle"
  BY <1>1 DEF Alone, Elsewhere
<1>3. \A q \in Slot : job'[q].step \notin CashierPauses => CashierGoesBy(job[q])'
  BY DEF CashierGoesBy, CashierPauses
<1>4. QED
  BY <1>2, <1>3 DEF DayInv, CashierPauses

\* A cashier's step that writes no mapping.
LEMMA CashierGoesOn ==
  ASSUME DayInv, NEW s \in Slot, CashierStep(s), UNCHANGED mapping, job'[s].step \in CashierPauses
  PROVE  CashierGoesBy(job[s])'
<1> USE DEF CashierPauses
<1>1. /\ DOMAIN job = Slot /\ DOMAIN job[s] = JobFields /\ CashierGoesBy(job[s])
  BY DEF DayInv, SlotsInv, JobsAreShaped
<1>2. PICK j : j = job'[s]
  OBVIOUS
<1>3. CashierGoesBy(j)
  <2>1. CASE FindMapping(s)
    <3>1. j.step = IF ActiveOf(job[s].key) # {} THEN "identities" ELSE "suggest"
      BY <1>1, <1>2, <2>1 DEF FindMapping, Goto, JobFields
    <3>2. j.key = job[s].key
      BY <1>1, <1>2, <2>1 DEF FindMapping, Goto, JobFields
    <3>3. QED
      BY <3>1, <3>2 DEF CashierGoesBy
  <2>2. CASE ReadOpen(s)
    <3>1. j.step = "lock" /\ j.key = job[s].key /\ j.todo = OpenOf(job[s].key)
      BY <1>1, <1>2, <2>2 DEF ReadOpen, JobFields
    <3>2. QED
      BY <3>1 DEF CashierGoesBy
  <2>3. CASE LockMappings(s)
    <3>1. j.step = "guard" /\ j.key = job[s].key /\ j.todo = job[s].todo /\ job[s].step = "lock"
      BY <1>1, <1>2, <2>3 DEF LockMappings, At, JobFields
    <3>2. QED
      BY <1>1, <3>1 DEF CashierGoesBy
  <2>4. CASE Guard(s)
    <3>1. Finish(s) \/ Goto(s, "assign")
      BY <2>4 DEF Guard
    <3>2. job[s].step = "guard"
      BY <2>4 DEF Guard, At
    <3>3. CASE Finish(s)
      BY <1>1, <3>3 DEF Finish, Idle
    <3>4. CASE Goto(s, "assign")
      <4>1. j.step = "assign" /\ j.key = job[s].key /\ j.todo = job[s].todo
        BY <1>1, <1>2, <3>4 DEF Goto, JobFields
      <4>2. QED
        BY <1>1, <3>2, <4>1 DEF CashierGoesBy
    <3>5. QED
      BY <3>1, <3>3, <3>4
  <2>5. CASE LockOpen(s)
    <3>1. /\ j.step = "exclude" /\ j.key = job[s].key /\ job[s].step = "closing"
          /\ j.locks = {m \in job[s].todo : mapping[m] # NoMapping /\ mapping[m].to = Open}
      BY <1>1, <1>2, <2>5 DEF LockOpen, At, JobFields
    <3>2. \A m \in ActiveOf(j.key) : mapping[m] # NoMapping /\ mapping[m].to = Open
      BY DEF DayInv, RowsInv, ActiveAreOpen, ActiveOf, RowsOf, Mapped
    <3>3. QED
      BY <1>1, <3>1, <3>2 DEF CashierGoesBy
  <2>6. CASE SyncIdentity(s)
    <3>1. CASE Finish(s)
      BY <1>1, <3>1 DEF Finish, Idle
    <3>2. CASE ~Finish(s)
      <4>1. PICK i \in job[s].todo :
              job' = [job EXCEPT ![s].todo = @ \ {i}, ![s].key = i, ![s].step = "suggestion"]
        BY <2>6, <3>2 DEF SyncIdentity
      <4>2. job'[s].step = "suggestion"
        BY <1>1, <4>1 DEF JobFields
      <4>3. QED
        BY <4>2
    <3>3. QED
      BY <3>1, <3>2
  <2>7. ~Suggest(s) /\ ~Assign(s) /\ ~Exclude(s)
    <3>1. ASSUME Suggest(s) PROVE job'[s].step = "identities"
      BY <1>1, <3>1 DEF Suggest, JobFields
    <3>2. Assign(s) \/ Exclude(s) => Finish(s)
      BY DEF Assign, Exclude
    <3>3. Finish(s) => job'[s].step = "idle"
      BY <1>1 DEF Finish, Idle
    <3>4. QED
      BY <3>1, <3>2, <3>3
  <2>8. QED
    BY <2>1, <2>2, <2>3, <2>4, <2>5, <2>6, <2>7 DEF CashierStep
<1>4. CashierGoesBy(j)'
  BY <1>3 DEF CashierGoesBy, OpenOf, ActiveOf, RowsOf
<1>5. QED
  BY <1>2, <1>4

LEMMA CashierStepCounts ==
  ASSUME DayInv, Serial, NEW s \in Slot, CashierStep(s), SlotsInv'
  PROVE  DayInv'
<1>1. Elsewhere(s) /\ job[s].step # "idle"
  BY CashierStepMoves DEF DayInv, SlotsInv, Moves, CashierSteps
<1>2. CASE Suggest(s) \/ Assign(s) \/ Exclude(s)
  <2>1. RowsInv'
    BY <1>2, SuggestionCounts, AssignmentCounts, ExclusionCounts
  <2>2. job'[s].step \in {"identities", "idle"}
    <3>1. DOMAIN job = Slot /\ DOMAIN job[s] = JobFields
      BY DEF DayInv, SlotsInv, JobsAreShaped
    <3>2. CASE Suggest(s)
      BY <3>1, <3>2 DEF Suggest, JobFields
    <3>3. Assign(s) \/ Exclude(s) => Finish(s)
      BY DEF Assign, Exclude
    <3>4. Finish(s) => job'[s].step = "idle"
      BY <3>1 DEF Finish, Idle
    <3>5. QED
      BY <1>2, <3>2, <3>3, <3>4
  <2>3. QED
    BY <1>1, <2>1, <2>2, AloneCounts DEF CashierPauses
<1>3. CASE ~Suggest(s) /\ ~Assign(s) /\ ~Exclude(s)
  <2>1. UNCHANGED mapping
    BY <1>3 DEF CashierStep, SyncIdentity, FindMapping, ReadOpen, LockMappings, Guard, LockOpen, rows
  <2>2. ~SyncIdentity(s) => UNCHANGED identity
    BY <1>3 DEF CashierStep, FindMapping, ReadOpen, LockMappings, Guard, LockOpen, rows
  <2>3. RowsInv'
    BY <2>1, <2>2, SyncCounts, RowsStayed DEF DayInv, Cashiers
  <2>4. QED
    BY <1>1, <2>1, <2>3, AloneCounts, CashierGoesOn
<1>4. QED
  BY <1>2, <1>3

LEMMA StartCounts ==
  ASSUME DayInv, NEW s \in Slot, Starts(s), SlotsInv'
  PROVE  DayInv'
<1>1. PICK call, j : Begin(s, call, j) /\ Fresh(call, j)
  BY StartIsFresh
<1>2. Elsewhere(s) /\ job'[s] = j /\ UNCHANGED Cashiers
  BY <1>1, BeginMoves DEF DayInv, SlotsInv, Fresh, rows, Cashiers
<1>3. RowsInv'
  BY <1>2, RowsStayed DEF DayInv
<1>4. \A k : CashierGoesBy(k) => CashierGoesBy(k)'
  BY <1>2 DEF CashierGoesBy, OpenOf, ActiveOf, RowsOf, Cashiers
<1>5. CashierGoesBy(j)
  <2>1. \A m \in ActiveOf(j.key) : m \in RowsOf(j.key) /\ mapping[m].to = Open
    BY DEF DayInv, RowsInv, ActiveAreOpen, ActiveOf, RowsOf, Mapped
  <2>2. QED
    BY <1>1, <2>1 DEF Fresh, FirstSteps, CashierGoesBy
<1>6. ASSUME NEW q \in Slot
      PROVE  CashierGoesBy(job[q])'
  <2>1. PICK k : k = job'[q]
    OBVIOUS
  <2>2. CashierGoesBy(k)
    BY <1>2, <1>5, <2>1 DEF Elsewhere, DayInv
  <2>3. QED
    BY <1>4, <2>1, <2>2
<1>7. QED
  BY <1>3, <1>6 DEF DayInv

LEMMA NextCounts ==
  ASSUME Serial => DayInv, SlotsInv, SlotsInv', [Next]_vars
  PROVE  (Serial => DayInv)'
<1> SUFFICES ASSUME Serial'
             PROVE  DayInv'
  OBVIOUS
<1>1. Serial /\ DayInv
  BY ScenarioStays DEF Serial
<1>2. CASE UNCHANGED vars \/ Settings
  <2>1. UNCHANGED <<Cashiers, job>>
    BY <1>2, SettingsKeep DEF vars, rows, Cashiers
  <2>2. RowsInv'
    BY <1>1, <2>1, RowsStayed DEF DayInv
  <2>3. QED
    BY <1>1, <2>1, <2>2 DEF DayInv, CashierGoesBy, OpenOf, ActiveOf, RowsOf, Cashiers
<1>3. ASSUME NEW s \in Slot, Starts(s)
      PROVE  DayInv'
  BY <1>1, <1>3, StartCounts
<1>4. ASSUME NEW s \in Slot, CashierStep(s)
      PROVE  DayInv'
  BY <1>1, <1>4, CashierStepCounts
<1>5. ASSUME NEW s \in Slot, RegisterStep(s) \/ ImportStep(s) \/ SalesStep(s) \/ Crash(s)
      PROVE  DayInv'
  <2>1. Elsewhere(s) /\ job[s].step # "idle" /\ job'[s].step \notin CashierPauses
    <3>1. JobsAreShaped
      BY DEF SlotsInv
    <3>2. CASE RegisterStep(s)
      BY <3>1, <3>2, RegisterStepMoves DEF Moves, RegisterSteps, CashierPauses
    <3>3. CASE ImportStep(s)
      BY <3>1, <3>3, ImportStepMoves DEF Moves, ImportSteps, CashierPauses
    <3>4. CASE SalesStep(s)
      BY <3>1, <3>4, SalesStepMoves DEF Moves, SalesSteps, CashierPauses
    <3>5. CASE Crash(s)
      BY <3>1, <3>5, CrashMoves DEF Idle, CashierPauses
    <3>6. QED
      BY <1>5, <3>2, <3>3, <3>4, <3>5
  <2>2. RowsInv'
    <3>1. CASE Purge(s)
      BY <1>1, <3>1, PurgeCounts DEF DayInv
    <3>2. CASE RegisterStep(s) /\ ~Purge(s)
      <4>1. UNCHANGED Cashiers
        BY <3>2 DEF RegisterStep, EditReads, EditWrites, Toggle, Bind, Archive, HardDelete, OnlyRegisters,
                    rows, Cashiers
      <4>2. QED
        BY <1>1, <4>1, RowsStayed DEF DayInv
    <3>3. CASE ImportStep(s) \/ SalesStep(s) \/ Crash(s)
      BY <1>1, <3>3, ImportKeeps, SalesKeep, CrashMoves, RowsStayed DEF DayInv, SlotsInv, rows, Cashiers
    <3>4. QED
      BY <1>5, <3>1, <3>2, <3>3
  <2>3. QED
    BY <1>1, <2>1, <2>2, AloneCounts
<1>6. QED
  BY <1>2, <1>3, <1>4, <1>5, NextIsStep

-----------------------------------------------------------------------------
(* One cashier per day, assignments at once.  A known cashier has one open *)
(* mapping.  A request looks it up and waits for its lock; it replaces it  *)
(* only if it is still the open one, and nobody else can as long as it is  *)
(* locked.                                                                 *)

Together == scenario.calls \subseteq {"assign", "apply"}

AssignSteps == {"open mappings", "lock", "guard", "assign"}

FromIsDay == \A m \in Mapped : mapping[m].from \in Nat /\ mapping[m].from < Open

OneIsOpen ==
  \A i \in Identity : /\ identity[i] = NoIdentity => OpenOf(i) = {}
                      /\ identity[i] # NoIdentity => \E m \in Mid : OpenOf(i) = {m}

\* The mapping that an assignment found: still open, or closed by another one.
Found(j, m) ==
  /\ m \in Mapped /\ mapping[m].cashier = j.key
  /\ m \in OpenOf(j.key) \/ mapping[m].to # Open

AssignGoesBy(j) ==
  /\ j.step \in AssignSteps => KnownOn(j)
  /\ j.step \in {"lock", "guard", "assign"} => \E m \in Mid : j.todo = {m} /\ Found(j, m)
  /\ j.step \in {"guard", "assign"} => j.todo \subseteq j.locks
  /\ j.step = "assign" => \A m \in j.todo : mapping[m].employee = j.to.employee \/ m \in OpenOf(j.key)

TodosApart ==
  \A q, s \in Slot : job[q].step \in {"guard", "assign"} /\ job[s].step \in {"guard", "assign"} /\ q # s
                     => job[q].todo \cap job[s].todo = {}

OpenInv ==
  /\ SlotsInv /\ RowsAreShaped /\ FromIsDay /\ OneIsOpen /\ TodosApart
  /\ \A s \in Slot : /\ AssignGoesBy(job[s])
                     /\ job[s].step \in AssignSteps \cup SalesSteps \cup {"idle"}

LEMMA AssignStays ==
  ASSUME UNCHANGED Cashiers, NEW j, AssignGoesBy(j)
  PROVE  AssignGoesBy(j)'
BY DEF AssignGoesBy, KnownOn, Found, OpenOf, ActiveOf, RowsOf, Mapped, Cashiers

LEMMA OpenRowsStay ==
  ASSUME RowsAreShaped, FromIsDay, OneIsOpen, UNCHANGED Cashiers
  PROVE  RowsAreShaped' /\ FromIsDay' /\ OneIsOpen'
BY DEF RowsAreShaped, FromIsDay, OneIsOpen, OpenOf, ActiveOf, RowsOf, Mapped, Cashiers

\* A step that writes no mapping.
LEMMA StillOpen ==
  ASSUME OpenInv, NEW s \in Slot, Elsewhere(s), UNCHANGED Cashiers, SlotsInv',
         NEW j, j = job'[s], AssignGoesBy(j), j.step \in AssignSteps \cup SalesSteps \cup {"idle"},
         j.step \in {"guard", "assign"} =>
           \A q \in Slot \ {s} : job[q].step \in {"guard", "assign"} => job[q].todo \cap j.todo = {}
  PROVE  OpenInv'
<1>1. RowsAreShaped' /\ FromIsDay' /\ OneIsOpen'
  BY OpenRowsStay DEF OpenInv
<1>2. ASSUME NEW q \in Slot
      PROVE  /\ AssignGoesBy(job[q])'
             /\ job'[q].step \in AssignSteps \cup SalesSteps \cup {"idle"}
  <2>1. PICK k : k = job'[q]
    OBVIOUS
  <2>2. AssignGoesBy(k) /\ k.step \in AssignSteps \cup SalesSteps \cup {"idle"}
    BY <2>1 DEF Elsewhere, OpenInv
  <2>3. QED
    BY <2>1, <2>2, AssignStays
<1>3. TodosApart'
  BY DEF TodosApart, OpenInv, Elsewhere
<1>4. QED
  BY <1>1, <1>2, <1>3 DEF OpenInv

LEMMA DaysAreDays ==
  ASSUME NEW j, KnownOn(j)
  PROVE  j.to.from \in Nat /\ j.to.from < Open
BY DaysAssumption, ReceiptAssumption DEF KnownOn

\* A request that ends.
LEMMA FinishStaysOpen ==
  ASSUME OpenInv, NEW s \in Slot, Finish(s), SlotsInv', RowsAreShaped', FromIsDay', OneIsOpen',
         \A q \in Slot \ {s} : AssignGoesBy(job[q])'
  PROVE  OpenInv'
<1>1. job'[s].step = "idle" /\ \A q \in Slot \ {s} : job'[q] = job[q]
  BY DEF Finish, Idle, OpenInv, SlotsInv, JobsAreShaped
<1>2. AssignGoesBy(job[s])'
  BY <1>1 DEF AssignGoesBy, AssignSteps
<1>3. TodosApart'
  BY <1>1 DEF TodosApart, OpenInv
<1>4. QED
  BY <1>1, <1>2, <1>3 DEF OpenInv

\* An assignment of the employee who has the mapping.
LEMMA ConfirmationStaysOpen ==
  ASSUME OpenInv, NEW s \in Slot, SlotsInv', Assign(s), Same(s) # {}
  PROVE  OpenInv'
<1> DEFINE i == job[s].key
           after == [m \in Mid |-> IF m \in Closing(s) THEN Closed(s, m) ELSE mapping[m]]
<1>1. job[s].step = "assign" /\ KnownOn(job[s]) /\ RowsAreShaped
  BY DEF Assign, At, OpenInv, AssignGoesBy, AssignSteps
<1>2. PICK m \in Mid : job[s].todo = {m} /\ Found(job[s], m)
  BY <1>1 DEF OpenInv, AssignGoesBy
<1>3. Same(s) = {m} /\ Closing(s) = {}
  BY <1>2 DEF Same, Closing
<1>4. mapping' = [after EXCEPT ![m] = Confirmed(s, m)]
  BY <1>3 DEF Assign
<1>5. PICK row : row = Confirmed(s, m)
  OBVIOUS
<1>6. /\ DOMAIN row = MappingFields /\ row.cashier = mapping[m].cashier /\ row.to = mapping[m].to
      /\ row.status = "confirmed" /\ row.from = mapping[m].from /\ row.employee = mapping[m].employee
  BY <1>1, <1>2, <1>5 DEF Confirmed, RowsAreShaped, MappingFields, Found
<1>7. mapping' = [n \in Mid |-> IF n = m THEN row ELSE mapping[n]]
  BY <1>3, <1>4, <1>5
<1>8. Mapped' = Mapped /\ m \in Mapped /\ mapping'[m] = row
  BY <1>2, <1>6, <1>7, RowIsMapping DEF Mapped, Found
<1>9. \A n \in Mapped : n # m => mapping'[n] = mapping[n]
  BY <1>7 DEF Mapped
<1>10. identity' = [identity EXCEPT ![i] = [status |-> "active"]] /\ i \in Identity /\ identity[i] # NoIdentity
  BY <1>1 DEF Assign, KnownOn
<1>11. /\ DOMAIN identity' = Identity
       /\ \A k \in Identity : identity'[k] = NoIdentity <=> identity[k] = NoIdentity
  BY <1>1, <1>10 DEF RowsAreShaped, NoIdentity, None
<1>12. \A k : OpenOf(k)' = OpenOf(k)
  <2>1. mapping[m].to = Open => mapping[m].status # "inactive"
    BY <1>2 DEF Found, OpenOf, ActiveOf
  <2>2. ASSUME NEW k, NEW n \in Mid
        PROVE  n \in OpenOf(k)' <=> n \in OpenOf(k)
    <3>1. CASE n = m
      BY <1>6, <1>8, <2>1, <3>1 DEF OpenOf, ActiveOf, RowsOf, Mapped
    <3>2. CASE n # m
      BY <1>7, <3>2 DEF OpenOf, ActiveOf, RowsOf
    <3>3. QED
      BY <3>1, <3>2
  <2>3. \A k : OpenOf(k) \subseteq Mid /\ OpenOf(k)' \subseteq Mid
    BY DEF OpenOf, ActiveOf, RowsOf
  <2>4. QED
    BY <2>2, <2>3
<1>13. RowsAreShaped'
  <2>1. \A n \in Mapped' : DOMAIN mapping'[n] = MappingFields
    BY <1>1, <1>6, <1>8, <1>9 DEF RowsAreShaped
  <2>2. QED
    BY <1>7, <1>11, <2>1 DEF RowsAreShaped
<1>14. FromIsDay'
  BY <1>6, <1>8, <1>9 DEF FromIsDay, OpenInv
<1>15. OneIsOpen'
  BY <1>11, <1>12 DEF OneIsOpen, OpenInv
<1>16. \A j : AssignGoesBy(j) => AssignGoesBy(j)'
  <2>1. \A n \in Mapped : /\ mapping'[n].cashier = mapping[n].cashier /\ mapping'[n].to = mapping[n].to
                          /\ mapping'[n].employee = mapping[n].employee
    BY <1>6, <1>8, <1>9
  <2>2. \A j, n : Found(j, n) => Found(j, n)'
    BY <1>8, <1>12, <2>1 DEF Found
  <2>3. \A j : KnownOn(j) => KnownOn(j)'
    BY <1>11 DEF KnownOn
  <2>4. \A j, n : Found(j, n) => n \in Mapped
    BY DEF Found
  <2>5. ASSUME NEW j, AssignGoesBy(j)
        PROVE  AssignGoesBy(j)'
    <3>1. /\ j.step \in AssignSteps => KnownOn(j)'
          /\ j.step \in {"lock", "guard", "assign"} => \E n \in Mid : j.todo = {n} /\ Found(j, n)'
          /\ j.step \in {"guard", "assign"} => j.todo \subseteq j.locks
      BY <2>2, <2>3, <2>5 DEF AssignGoesBy
    <3>2. ASSUME j.step = "assign", NEW n \in j.todo
          PROVE  mapping'[n].employee = j.to.employee \/ n \in OpenOf(j.key)'
      <4>1. n \in Mapped
        BY <2>4, <2>5, <3>2 DEF AssignGoesBy
      <4>2. QED
        BY <1>12, <2>1, <2>5, <3>2, <4>1 DEF AssignGoesBy
    <3>3. QED
      BY <3>1, <3>2 DEF AssignGoesBy
  <2>6. QED
    BY <2>5
<1>17. Finish(s)
  BY DEF Assign
<1>18. ASSUME NEW q \in Slot \ {s}
       PROVE  AssignGoesBy(job[q])'
  <2>1. PICK j : j = job[q]
    OBVIOUS
  <2>2. AssignGoesBy(j)'
    BY <1>16, <2>1 DEF OpenInv
  <2>3. job'[q] = j
    BY <1>17, <2>1 DEF Finish, OpenInv, SlotsInv, JobsAreShaped
  <2>4. QED
    BY <2>2, <2>3
<1>19. QED
  BY <1>13, <1>14, <1>15, <1>17, <1>18, FinishStaysOpen

\* An assignment of another employee.
LEMMA ReplacementStaysOpen ==
  ASSUME OpenInv, NEW s \in Slot, SlotsInv', Assign(s), Same(s) = {}
  PROVE  OpenInv'
<1>0. PICK i : i = job[s].key
  OBVIOUS
<1> USE <1>0
<1> DEFINE to == job[s].to
           after == [m \in Mid |-> IF m \in Closing(s) THEN Closed(s, m) ELSE mapping[m]]
<1>1. /\ job[s].step = "assign" /\ KnownOn(job[s]) /\ RowsAreShaped
      /\ identity' = [identity EXCEPT ![i] = [status |-> "active"]] /\ Finish(s)
  BY DEF Assign, At, OpenInv, AssignGoesBy, AssignSteps
<1>2. PICK m \in Mid : job[s].todo = {m} /\ Found(job[s], m)
  BY <1>1 DEF OpenInv, AssignGoesBy
<1>3. Closing(s) = {m} /\ mapping[m].employee # to.employee
  BY <1>2 DEF Same, Closing
<1>4. m \in OpenOf(i)
  BY <1>1, <1>2, <1>3 DEF OpenInv, AssignGoesBy
<1>5. OpenOf(i) = {m}
  BY <1>1, <1>4 DEF OpenInv, OneIsOpen, KnownOn
<1>6. PICK p \in Mid : Free(p) /\ mapping' = [after EXCEPT ![p] = Mapping(i, to.employee, "confirmed", to.from)]
  BY DEF Assign
<1>7. m \in Mapped /\ p \notin Mapped /\ mapping[m].cashier = i
  BY <1>2, <1>6 DEF Found, Free, Mapped
<1>8. PICK row : /\ row = Mapping(i, to.employee, "confirmed", to.from)
                 /\ DOMAIN row = MappingFields /\ row # NoMapping
  BY NewMappingIsShaped
<1>9. row.cashier = i /\ row.to = Open /\ row.status = "confirmed" /\ row.from = to.from
  BY <1>8 DEF Mapping
<1>10. PICK c : c = Closed(s, m)
  OBVIOUS
<1>11. /\ DOMAIN c = MappingFields /\ c.cashier = i /\ c.status = "inactive"
       /\ c.from = mapping[m].from /\ c.to = LaterOf(mapping[m].from, to.from)
       /\ c.employee = mapping[m].employee /\ c # NoMapping
  <2>1. DOMAIN mapping[m] = MappingFields
    BY <1>1, <1>7 DEF RowsAreShaped
  <2>2. /\ DOMAIN c = MappingFields /\ c.cashier = i /\ c.status = "inactive"
        /\ c.from = mapping[m].from /\ c.to = LaterOf(mapping[m].from, to.from)
        /\ c.employee = mapping[m].employee
    BY <1>7, <1>10, <2>1 DEF Closed, MappingFields
  <2>3. QED
    BY <2>2, RowIsMapping
<1>12. mapping[m].from \in Nat /\ mapping[m].from < Open /\ to.from \in Nat /\ to.from < Open
  BY <1>1, <1>7, DaysAreDays DEF OpenInv, FromIsDay
<1>13. c.to # Open
  BY <1>11, <1>12 DEF LaterOf, Open
<1>14. /\ mapping' = [n \in Mid |-> IF n = p THEN row ELSE IF n = m THEN c ELSE mapping[n]]
       /\ p # m
  BY <1>3, <1>6, <1>7, <1>8, <1>10
<1>15. /\ mapping'[p] = row /\ mapping'[m] = c /\ Mapped' = Mapped \cup {p}
       /\ \A n \in Mapped \ {m} : n # p /\ mapping'[n] = mapping[n]
  BY <1>7, <1>8, <1>11, <1>14 DEF Mapped
<1>16. /\ DOMAIN identity' = Identity /\ i \in Identity /\ identity'[i] # NoIdentity
       /\ \A k \in Identity : identity'[k] = NoIdentity <=> identity[k] = NoIdentity
  BY <1>1 DEF RowsAreShaped, NoIdentity, None, KnownOn
<1>17. OpenOf(i)' = {p}
  <2>1. ASSUME NEW n \in Mid
        PROVE  n \in OpenOf(i)' <=> n = p
    <3>1. CASE n = p
      BY <1>8, <1>9, <1>15, <3>1 DEF OpenOf, ActiveOf, RowsOf
    <3>2. CASE n = m
      BY <1>13, <1>14, <1>15, <3>2 DEF OpenOf
    <3>3. CASE n # p /\ n # m
      <4>1. n \notin OpenOf(i) /\ mapping'[n] = mapping[n]
        BY <1>5, <1>14, <3>3
      <4>2. QED
        BY <3>3, <4>1 DEF OpenOf, ActiveOf, RowsOf
    <3>4. QED
      BY <3>1, <3>2, <3>3
  <2>2. OpenOf(i)' \subseteq Mid
    BY DEF OpenOf, ActiveOf, RowsOf
  <2>3. QED
    BY <2>1, <2>2
<1>18. \A k : k # i => OpenOf(k)' = OpenOf(k)
  <2>1. ASSUME NEW k, k # i, NEW n \in Mid
        PROVE  n \in OpenOf(k)' <=> n \in OpenOf(k)
    <3>1. CASE n = p
      BY <1>7, <1>9, <1>15, <2>1, <3>1 DEF OpenOf, ActiveOf, RowsOf, Mapped
    <3>2. CASE n = m
      BY <1>7, <1>11, <1>15, <2>1, <3>2 DEF OpenOf, ActiveOf, RowsOf
    <3>3. CASE n # p /\ n # m
      <4>1. mapping'[n] = mapping[n]
        BY <1>14, <3>3
      <4>2. QED
        BY <4>1 DEF OpenOf, ActiveOf, RowsOf
    <3>4. QED
      BY <3>1, <3>2, <3>3
  <2>2. \A k : OpenOf(k) \subseteq Mid /\ OpenOf(k)' \subseteq Mid
    BY DEF OpenOf, ActiveOf, RowsOf
  <2>3. QED
    BY <2>1, <2>2
<1>19. RowsAreShaped'
  <2>1. \A n \in Mapped' : DOMAIN mapping'[n] = MappingFields
    BY <1>1, <1>8, <1>11, <1>15 DEF RowsAreShaped
  <2>2. QED
    BY <1>14, <1>16, <2>1 DEF RowsAreShaped
<1>20. FromIsDay'
  BY <1>9, <1>11, <1>12, <1>15 DEF FromIsDay, OpenInv
<1>21. OneIsOpen'
  BY <1>16, <1>17, <1>18 DEF OneIsOpen, OpenInv
<1>22. ASSUME NEW q \in Slot \ {s}
       PROVE  AssignGoesBy(job[q])'
  <2>1. PICK j : j = job[q]
    OBVIOUS
  <2>2. AssignGoesBy(j)
    BY <2>1 DEF OpenInv
  <2>3. KnownOn(j) => KnownOn(j)'
    BY <1>16 DEF KnownOn
  <2>4. ASSUME j.step \in {"lock", "guard", "assign"}
        PROVE  \E n \in Mid : j.todo = {n} /\ Found(j, n)'
    <3>1. PICK n \in Mid : j.todo = {n} /\ Found(j, n)
      BY <2>2, <2>4 DEF AssignGoesBy
    <3>2. CASE n = m
      BY <1>7, <1>11, <1>13, <1>15, <3>1, <3>2 DEF Found
    <3>3. CASE n # m
      <4>1. n \in Mapped /\ n # p /\ mapping'[n] = mapping[n] /\ n \in Mapped'
        BY <1>15, <3>1, <3>3 DEF Found
      <4>2. QED
        BY <3>1, <4>1 DEF Found, OpenOf, ActiveOf, RowsOf
    <3>4. QED
      BY <3>2, <3>3
  <2>5. ASSUME j.step = "assign", NEW n \in j.todo
        PROVE  mapping'[n].employee = j.to.employee \/ n \in OpenOf(j.key)'
    <3>1. n \in Mapped /\ n \in Mid
      BY <2>2, <2>5 DEF AssignGoesBy, Found
    <3>2. n # m
      BY <1>1, <1>2, <2>1, <2>5 DEF OpenInv, TodosApart
    <3>3. mapping'[n] = mapping[n]
      BY <1>15, <3>1, <3>2
    <3>4. mapping[n].employee = j.to.employee \/ n \in OpenOf(j.key)
      BY <2>2, <2>5 DEF AssignGoesBy
    <3>5. QED
      BY <3>3, <3>4 DEF OpenOf, ActiveOf, RowsOf
  <2>6. AssignGoesBy(j)'
    BY <2>2, <2>3, <2>4, <2>5 DEF AssignGoesBy
  <2>7. job'[q] = j
    BY <1>1, <2>1 DEF Finish, OpenInv, SlotsInv, JobsAreShaped
  <2>8. QED
    BY <2>6, <2>7
<1>23. QED
  BY <1>1, <1>19, <1>20, <1>21, <1>22, FinishStaysOpen

LEMMA AssignStepStaysOpen ==
  ASSUME OpenInv, NEW s \in Slot, CashierStep(s), SlotsInv'
  PROVE  OpenInv'
<1>1. /\ DOMAIN job = Slot /\ DOMAIN job[s] = JobFields /\ AssignGoesBy(job[s])
      /\ job[s].step \in AssignSteps \cup SalesSteps \cup {"idle"}
  BY DEF OpenInv, SlotsInv, JobsAreShaped
<1>2. Elsewhere(s)
  BY CashierStepMoves DEF OpenInv, SlotsInv, Moves
<1>3. PICK j : j = job'[s]
  OBVIOUS
<1>4. CASE ReadOpen(s)
  <2>1. /\ j.step = "lock" /\ j.todo = OpenOf(j.key) /\ j.key = job[s].key /\ j.to = job[s].to
        /\ job[s].step = "open mappings"
    BY <1>1, <1>3, <1>4 DEF ReadOpen, At, JobFields
  <2>2. KnownOn(j)
    BY <1>1, <2>1 DEF AssignGoesBy, AssignSteps, KnownOn
  <2>3. PICK m \in Mid : OpenOf(j.key) = {m}
    BY <2>2 DEF OpenInv, OneIsOpen, KnownOn
  <2>4. Found(j, m)
    BY <2>3 DEF Found, OpenOf, ActiveOf, RowsOf, Mapped
  <2>5. AssignGoesBy(j)
    BY <2>1, <2>2, <2>3, <2>4 DEF AssignGoesBy
  <2>6. UNCHANGED Cashiers
    BY <1>4 DEF ReadOpen, rows, Cashiers
  <2>7. QED
    BY <1>2, <1>3, <2>1, <2>5, <2>6, StillOpen DEF AssignSteps
<1>5. CASE LockMappings(s)
  <2>1. /\ j.step = "guard" /\ j.todo = job[s].todo /\ j.key = job[s].key /\ j.to = job[s].to
        /\ j.locks = job[s].locks \cup job[s].todo /\ job[s].step = "lock"
    BY <1>1, <1>3, <1>5 DEF LockMappings, At, JobFields
  <2>2. AssignGoesBy(j)
    BY <1>1, <2>1 DEF AssignGoesBy, AssignSteps, KnownOn, Found
  <2>3. ASSUME NEW q \in Slot \ {s}, job[q].step \in {"guard", "assign"}
        PROVE  job[q].todo \cap j.todo = {}
    <3>1. job[q].locks \cap job[s].todo = {}
      BY <1>5 DEF LockMappings, Unlocked
    <3>2. job[q].todo \subseteq job[q].locks
      BY <2>3 DEF OpenInv, AssignGoesBy
    <3>3. QED
      BY <2>1, <3>1, <3>2
  <2>4. UNCHANGED Cashiers
    BY <1>5 DEF LockMappings, rows, Cashiers
  <2>5. QED
    BY <1>2, <1>3, <2>1, <2>2, <2>3, <2>4, StillOpen DEF AssignSteps
<1>6. CASE Guard(s)
  <2>1. job[s].step = "guard" /\ UNCHANGED Cashiers
    BY <1>6 DEF Guard, At, rows, Cashiers
  <2>2. CASE Same(s) = {} /\ OpenOf(job[s].key) \ Closing(s) # {}
    <3>1. j.step = "idle"
      BY <1>1, <1>3, <1>6, <2>2 DEF Guard, Finish, Idle
    <3>2. AssignGoesBy(j)
      BY <3>1 DEF AssignGoesBy, AssignSteps
    <3>3. QED
      BY <1>2, <1>3, <2>1, <3>1, <3>2, StillOpen
  <2>3. CASE ~(Same(s) = {} /\ OpenOf(job[s].key) \ Closing(s) # {})
    <3>1. /\ j.step = "assign" /\ j.todo = job[s].todo /\ j.key = job[s].key /\ j.to = job[s].to
          /\ j.locks = job[s].locks
      BY <1>1, <1>3, <1>6, <2>3 DEF Guard, Goto, JobFields
    <3>2. KnownOn(job[s]) /\ KnownOn(j)
      BY <1>1, <2>1, <3>1 DEF AssignGoesBy, AssignSteps, KnownOn
    <3>3. PICK m \in Mid : job[s].todo = {m} /\ Found(job[s], m)
      BY <1>1, <2>1 DEF AssignGoesBy
    <3>4. mapping[m].employee = job[s].to.employee \/ m \in OpenOf(job[s].key)
      <4>1. PICK n \in Mid : OpenOf(job[s].key) = {n}
        BY <3>2 DEF OpenInv, OneIsOpen, KnownOn
      <4>2. QED
        BY <2>3, <3>3, <4>1 DEF Same, Closing
    <3>5. AssignGoesBy(j)
      BY <1>1, <2>1, <3>1, <3>2, <3>3, <3>4 DEF AssignGoesBy, Found
    <3>6. \A q \in Slot \ {s} : job[q].step \in {"guard", "assign"} => job[q].todo \cap j.todo = {}
      BY <2>1, <3>1 DEF OpenInv, TodosApart
    <3>7. QED
      BY <1>2, <1>3, <2>1, <3>1, <3>5, <3>6, StillOpen DEF AssignSteps
  <2>4. QED
    BY <2>2, <2>3
<1>7. CASE Assign(s)
  BY <1>7, ConfirmationStaysOpen, ReplacementStaysOpen
<1>8. ~SyncIdentity(s) /\ ~FindMapping(s) /\ ~Suggest(s) /\ ~LockOpen(s) /\ ~Exclude(s)
  BY <1>1 DEF SyncIdentity, FindMapping, Suggest, LockOpen, Exclude, At, AssignSteps, SalesSteps
<1>9. QED
  BY <1>4, <1>5, <1>6, <1>7, <1>8 DEF CashierStep

LEMMA NextStaysOpen ==
  ASSUME Together => OpenInv, SlotsInv, SlotsInv', [Next]_vars
  PROVE  (Together => OpenInv)'
<1> SUFFICES ASSUME Together'
             PROVE  OpenInv'
  OBVIOUS
<1>1. Together /\ OpenInv
  BY ScenarioStays DEF Together
<1>2. CASE UNCHANGED vars \/ Settings
  <2>1. UNCHANGED <<Cashiers, job>>
    BY <1>2, SettingsKeep DEF vars, rows, Cashiers
  <2>2. RowsAreShaped' /\ FromIsDay' /\ OneIsOpen'
    BY <1>1, <2>1, OpenRowsStay DEF OpenInv
  <2>3. ASSUME NEW q \in Slot
        PROVE  AssignGoesBy(job[q])'
    <3>1. PICK j : j = job[q]
      OBVIOUS
    <3>2. AssignGoesBy(j)'
      BY <1>1, <2>1, <3>1, AssignStays DEF OpenInv
    <3>3. QED
      BY <2>1, <3>1, <3>2
  <2>4. QED
    BY <1>1, <2>1, <2>2, <2>3 DEF OpenInv, TodosApart
<1>3. ASSUME NEW s \in Slot, Starts(s)
      PROVE  OpenInv'
  <2>1. PICK call, j : Begin(s, call, j) /\ Fresh(call, j)
    BY <1>3, StartIsFresh
  <2>2. /\ Elsewhere(s) /\ job'[s] = j /\ UNCHANGED Cashiers /\ call \in {"assign", "apply"}
    BY <1>1, <2>1, BeginMoves DEF SlotsInv, Fresh, rows, Cashiers, Together
  <2>3. j.step \in {"open mappings", "receipts"} /\ AssignGoesBy(j)
    BY <2>1, <2>2 DEF Fresh, AssignGoesBy, AssignSteps
  <2>4. QED
    BY <1>1, <2>2, <2>3, StillOpen DEF AssignSteps, SalesSteps
<1>4. ASSUME NEW s \in Slot, CashierStep(s)
      PROVE  OpenInv'
  BY <1>1, <1>4, AssignStepStaysOpen
<1>5. ASSUME NEW s \in Slot, SalesStep(s)
      PROVE  OpenInv'
  <2>1. Elsewhere(s) /\ job'[s].step \in SalesSteps \cup {"idle"} /\ UNCHANGED Cashiers
    BY <1>5, SalesStepMoves, SalesKeep DEF SlotsInv, Moves
  <2>2. PICK j : j = job'[s]
    OBVIOUS
  <2>3. AssignGoesBy(j)
    BY <2>1, <2>2 DEF AssignGoesBy, AssignSteps, SalesSteps
  <2>4. QED
    BY <1>1, <2>1, <2>2, <2>3, StillOpen DEF SalesSteps
<1>6. ASSUME NEW s \in Slot, RegisterStep(s) \/ ImportStep(s) \/ Crash(s)
      PROVE  FALSE
  <2>1. JobsAreShaped /\ job[s].step \in AssignSteps \cup SalesSteps \cup {"idle"}
    BY <1>1 DEF OpenInv, SlotsInv
  <2>2. ~RegisterStep(s)
    BY <2>1, RegisterStepMoves DEF Moves, RegisterSteps, AssignSteps, SalesSteps
  <2>3. ~ImportStep(s)
    BY <2>1, ImportStepMoves DEF Moves, ImportSteps, AssignSteps, SalesSteps
  <2>4. ~Crash(s)
    BY <1>1, <2>1, CrashMoves DEF Together
  <2>5. QED
    BY <1>6, <2>2, <2>3, <2>4
<1>7. QED
  BY <1>2, <1>3, <1>4, <1>5, <1>6, NextIsStep

LEMMA RowsStart ==
  ASSUME Init
  PROVE  /\ RowsAreShaped /\ ActiveAreOpen /\ FromIsDay /\ ExcludedAreOut
         /\ \A i \in Identity : /\ identity[i] = NoIdentity => ActiveOf(i) = {}
                                /\ identity[i] # NoIdentity => \E m \in Mid : ActiveOf(i) = {m}
<1>1. /\ mapping \in [Mid -> MappingRow \cup {NoMapping}]
      /\ identity \in [Identity -> [status : {"active", "excluded"}] \cup {NoIdentity}]
  BY RowsAssumption DEF Init, RowsAssumption
<1>2. \A m \in Mapped : mapping[m] \in MappingRow
  BY <1>1 DEF Mapped
<1>3. RowsAreShaped
  BY <1>1, <1>2 DEF RowsAreShaped, MappingRow, MappingFields
<1>4. ActiveAreOpen /\ FromIsDay
  BY <1>2, StartAssumption DEF Init, StartAssumption, ActiveAreOpen, FromIsDay, Mapped, MappingRow
<1>5. \A i : ActiveOf(i) = {m \in Mid : /\ mapping[m] # NoMapping /\ mapping[m].cashier = i
                                        /\ mapping[m].status # "inactive"}
  BY DEF ActiveOf, RowsOf
<1>6. \A i \in Identity :
        /\ identity[i] = NoIdentity => ActiveOf(i) = {}
        /\ identity[i] # NoIdentity => \E m \in Mid : ActiveOf(i) = {m}
        /\ identity[i].status = "excluded" => \A m \in ActiveOf(i) : mapping[m].status # "confirmed"
  BY <1>5, StartAssumption DEF Init, StartAssumption
<1>7. ExcludedAreOut
  BY <1>6 DEF ExcludedAreOut, ActiveOf
<1>8. QED
  BY <1>3, <1>4, <1>6, <1>7

LEMMA DaysStart ==
  ASSUME Init
  PROVE  DayInv /\ OpenInv
<1>1. \A s \in Slot : job[s].step = "idle"
  BY DEF Init, Idle
<1>2. \A i \in Identity : /\ identity[i] = NoIdentity => ActiveOf(i) = {}
                          /\ identity[i] # NoIdentity => \E m \in Mid : ActiveOf(i) = {m}
  BY RowsStart
<1>3. \A m \in Mapped : mapping[m].cashier \in Identity
  BY RowsAssumption DEF Init, RowsAssumption, Mapped, MappingRow
<1>4. OneIsActive
  <2> SUFFICES ASSUME NEW m \in Mapped, NEW n \in Mapped, mapping[m].cashier = mapping[n].cashier,
                      mapping[m].status # "inactive", mapping[n].status # "inactive"
               PROVE  m = n
    BY DEF OneIsActive
  <2>1. m \in ActiveOf(mapping[m].cashier) /\ n \in ActiveOf(mapping[m].cashier)
    BY DEF ActiveOf, RowsOf, Mapped
  <2>2. QED
    BY <1>2, <1>3, <2>1
<1>5. \A i : OpenOf(i) = ActiveOf(i)
  BY RowsStart DEF OpenOf, ActiveAreOpen, ActiveOf, RowsOf, Mapped
<1>6. OneIsOpen
  BY <1>2, <1>5 DEF OneIsOpen
<1>7. DayInv
  BY <1>1, <1>4, RowsStart, SlotsStart DEF DayInv, RowsInv, CashierGoesBy
<1>8. OpenInv
  BY <1>1, <1>6, RowsStart, SlotsStart DEF OpenInv, TodosApart, AssignGoesBy, AssignSteps
<1>9. QED
  BY <1>7, <1>8

LEMMA AtMostOne ==
  ASSUME NEW S, NEW m, S \subseteq {m}
  PROVE  Cardinality(S) <= 1
<1>1. CASE S = {}
  BY <1>1, FS_EmptySet
<1>2. CASE S = {m}
  <2>1. IsFiniteSet(S) /\ Cardinality(S) = 1
    BY <1>2, FS_Singleton
  <2>2. QED
    BY <2>1
<1>3. QED
  BY <1>1, <1>2

(* "Overlap of two open intervals for one identity is prevented"           *)
(* (cashier-mapping-service.ts): also when assignments of one cashier      *)
(* overlap in any way.  One request at a time, a day of a cashier counts   *)
(* for at most one employee, and an excluded cashier counts for nobody,    *)
(* whatever is imported, suggested, assigned, excluded and purged.         *)
THEOREM DaysStayWithOneCashier == Spec => []DaysHaveOneCashier
<1> DEFINE I == SlotsInv /\ (Serial => DayInv) /\ (Together => OpenInv)
<1>1. Init => I
  BY SlotsStart, DaysStart
<1>2. I /\ [Next]_vars => I'
  BY SlotsFollow, NextCounts, NextStaysOpen
<1>3. ASSUME I
      PROVE  DaysHaveOneCashier
  <2>1. ASSUME NEW i \in Identity, OpenInv
        PROVE  Cardinality(OpenOf(i)) <= 1
    <3>1. \E m : OpenOf(i) \subseteq {m}
      BY <2>1 DEF OpenInv, OneIsOpen
    <3>2. QED
      BY <3>1, AtMostOne
  <2>2. ASSUME NEW i \in Identity, DayInv
        PROVE  /\ Cardinality(OpenOf(i)) <= 1
               /\ \A d : Covering(i, d) \subseteq OpenOf(i)
               /\ identity[i].status = "excluded" => \A d : Covering(i, d) = {}
    <3>1. \A m, n \in OpenOf(i) : m = n
      BY <2>2 DEF DayInv, RowsInv, OneIsActive, OpenOf, ActiveOf, RowsOf, Mapped
    <3>2. \E m : OpenOf(i) \subseteq {m}
      BY <3>1
    <3>3. \A d : Covering(i, d) \subseteq OpenOf(i)
      BY <2>2 DEF DayInv, RowsInv, ActiveAreOpen, Covering, Attributing, OpenOf, ActiveOf, RowsOf, Mapped
    <3>4. identity[i].status = "excluded" => \A d : Covering(i, d) = {}
      BY <2>2 DEF DayInv, RowsInv, ExcludedAreOut, Covering, Attributing
    <3>5. QED
      BY <3>2, <3>3, <3>4, AtMostOne
  <2>3. ASSUME NEW i \in Identity, NEW d, DayInv
        PROVE  Cardinality(Covering(i, d)) <= 1
    <3>1. \A m, n \in Covering(i, d) : m = n
      BY <2>3 DEF DayInv, RowsInv, OneIsActive, Covering, Attributing, RowsOf, Mapped
    <3>2. \E m : Covering(i, d) \subseteq {m}
      BY <3>1
    <3>3. QED
      BY <3>2, AtMostOne
  <2>4. QED
    BY <1>3, <2>1, <2>2, <2>3 DEF DaysHaveOneCashier, Together
<1>4. QED
  BY <1>1, <1>2, <1>3, PTL DEF Spec
=============================================================================
