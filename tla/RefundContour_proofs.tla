------------------------ MODULE RefundContour_proofs ------------------------
(***************************************************************************)
(* What holds of RefundContour for every number of requests, users, files  *)
(* and scenarios: a slot holds at most one document, whose file is in the  *)
(* storage, and what is paid was approved and is paid once. When requests  *)
(* do not overlap, what was submitted is complete.                         *)
(***************************************************************************)
EXTENDS RefundContour, FiniteSetTheorems, TLAPS

JobFields == {"step", "by", "file", "seen", "to"}

\* Every job has its fields; what "to" holds depends on the handler.
JobsAreShaped == DOMAIN job = Req /\ \A r \in Req : DOMAIN job[r] = JobFields

-----------------------------------------------------------------------------
(* Documents.                                                              *)

UploadSteps == {"store", "replace", "insert", "discard"}
Uploading   == {r \in Req : job[r].step \in UploadSteps}

DocsAreTyped ==
  /\ doc \in [File -> [slot : SlotName \cup {None}, active : BOOLEAN]]
  /\ stored \subseteq File

\* An upload has a file of its own, which no document in force names yet and
\* which stays in the storage until the document is inserted.
UploadsAreApart ==
  \A r \in Uploading :
    /\ job[r].file \in File /\ job[r].to \in SlotName
    /\ ~doc[job[r].file].active
    /\ job[r].step \in {"replace", "insert"} => job[r].file \in stored
    /\ \A q \in Uploading \ {r} : job[q].file # job[r].file

DocInv == JobsAreShaped /\ DocsAreTyped /\ UploadsAreApart /\ SlotHoldsOneStoredFile

\* A handler that is not an upload begins.
LEMMA BeginKeepsDocs ==
  ASSUME DocInv, NEW r \in Req, NEW call, NEW j, Begin(r, call, j),
         DOMAIN j = JobFields, j.step \notin UploadSteps
  PROVE  DocInv'
<1>1. /\ \A q \in Req \ {r} : job'[q] = job[q]
      /\ job'[r] = j /\ DOMAIN job' = Req
      /\ doc' = doc /\ stored' = stored
  BY DEF Begin, DocInv, JobsAreShaped, business
<1>2. JobsAreShaped'
  BY <1>1 DEF DocInv, JobsAreShaped
<1>3. DocsAreTyped' /\ SlotHoldsOneStoredFile'
  BY <1>1 DEF DocInv, DocsAreTyped, SlotHoldsOneStoredFile, ActiveDocs
<1>4. Uploading' \subseteq Uploading /\ \A q \in Uploading' : job'[q] = job[q]
  BY <1>1 DEF Uploading
<1>5. UploadsAreApart'
  BY <1>1, <1>4 DEF DocInv, UploadsAreApart
<1>6. QED
  BY <1>2, <1>3, <1>5 DEF DocInv

\* A handler ends, having at most taken documents out of their slots.
LEMMA FinishKeepsDocs ==
  ASSUME DocInv, NEW r \in Req, Finish(r), stored' = stored,
         doc' \in [File -> [slot : SlotName \cup {None}, active : BOOLEAN]],
         \A f \in File : doc'[f].active => doc[f].active /\ doc'[f].slot = doc[f].slot
  PROVE  DocInv'
<1>1. /\ \A q \in Req \ {r} : job'[q] = job[q]
      /\ job'[r] = Idle /\ DOMAIN job' = Req
  BY DEF Finish, DocInv, JobsAreShaped
<1>2. JobsAreShaped'
  BY <1>1 DEF DocInv, JobsAreShaped, Idle, JobFields
<1>3. DocsAreTyped' /\ SlotHoldsOneStoredFile'
  BY DEF DocInv, DocsAreTyped, SlotHoldsOneStoredFile, ActiveDocs
<1>4. Uploading' \subseteq Uploading /\ \A q \in Uploading' : job'[q] = job[q]
  BY <1>1 DEF Uploading, Idle, UploadSteps
<1>5. UploadsAreApart'
  BY <1>1, <1>4 DEF DocInv, UploadsAreApart
<1>6. QED
  BY <1>2, <1>3, <1>5 DEF DocInv

\* An upload has put its file into the storage.
LEMMA StoreKeepsDocs ==
  ASSUME DocInv, NEW r \in Req, Store(r)
  PROVE  DocInv'
<1>1. /\ r \in Uploading /\ job[r].file \in File
      /\ \A q \in Req \ {r} : job'[q] = job[q]
      /\ job'[r].step = "replace" /\ DOMAIN job'[r] = JobFields
      /\ job'[r].file = job[r].file /\ job'[r].to = job[r].to /\ DOMAIN job' = Req
  BY DEF Store, At, Goto, DocInv, JobsAreShaped, JobFields, UploadsAreApart, Uploading, UploadSteps
<1>2. doc' = doc /\ stored' = stored \cup {job[r].file}
  BY DEF Store
<1>3. JobsAreShaped' /\ DocsAreTyped' /\ SlotHoldsOneStoredFile'
  BY <1>1, <1>2 DEF DocInv, JobsAreShaped, DocsAreTyped, SlotHoldsOneStoredFile, ActiveDocs
<1>4. Uploading' = Uploading
  BY <1>1 DEF Uploading, UploadSteps
<1>5. UploadsAreApart'
  BY <1>1, <1>2, <1>4 DEF DocInv, UploadsAreApart, Uploading
<1>6. QED
  BY <1>3, <1>5 DEF DocInv

\* An upload notes the documents it will take out of its slot.
LEMMA ReplaceKeepsDocs ==
  ASSUME DocInv, NEW r \in Req, Replace(r)
  PROVE  DocInv'
<1>1. /\ r \in Uploading /\ job[r].step = "replace"
      /\ \A q \in Req \ {r} : job'[q] = job[q]
      /\ job'[r].step = "insert" /\ DOMAIN job'[r] = JobFields
      /\ job'[r].file = job[r].file /\ job'[r].to = job[r].to /\ DOMAIN job' = Req
  BY DEF Replace, At, DocInv, JobsAreShaped, JobFields, Uploading, UploadSteps
<1>2. doc' = doc /\ stored' = stored
  BY DEF Replace, business
<1>3. JobsAreShaped' /\ DocsAreTyped' /\ SlotHoldsOneStoredFile'
  BY <1>1, <1>2 DEF DocInv, JobsAreShaped, DocsAreTyped, SlotHoldsOneStoredFile, ActiveDocs
<1>4. Uploading' = Uploading
  BY <1>1 DEF Uploading, UploadSteps
<1>5. UploadsAreApart'
  BY <1>1, <1>2, <1>4 DEF DocInv, UploadsAreApart, Uploading
<1>6. QED
  BY <1>3, <1>5 DEF DocInv

\* An upload inserts its document, or loses.  The document it inserts is alone
\* in its slot: whatever the removal did not see would make the slot taken.
LEMMA InsertKeepsDocs ==
  ASSUME DocInv, NEW r \in Req, Insert(r)
  PROVE  DocInv'
<1> DEFINE new == job[r].file
           slot == job[r].to
<1>1. /\ r \in Uploading /\ job[r].step = "insert"
      /\ new \in File /\ slot \in SlotName /\ new \in stored /\ ~doc[new].active
      /\ \A q \in Uploading \ {r} : job[q].file # new
      /\ stored' = stored
  BY DEF Insert, At, DocInv, UploadsAreApart, Uploading, UploadSteps
<1>2. CASE /\ ~SlotTaken(r) /\ Finish(r)
           /\ doc' = [f \in File |-> IF f = job[r].file THEN [slot |-> job[r].to, active |-> TRUE]
                                     ELSE IF f \in job[r].seen THEN [doc[f] EXCEPT !.active = FALSE]
                                     ELSE doc[f]]
  <2>1. /\ \A q \in Req \ {r} : job'[q] = job[q]
        /\ job'[r] = Idle /\ DOMAIN job' = Req
    BY <1>2 DEF Finish, DocInv, JobsAreShaped
  <2>2. /\ doc'[new] = [slot |-> slot, active |-> TRUE]
        /\ \A f \in File \ {new} : doc'[f].active =>
             f \notin job[r].seen /\ doc[f].active /\ doc'[f].slot = doc[f].slot
    BY <1>1, <1>2 DEF DocInv, DocsAreTyped
  <2>3. JobsAreShaped'
    BY <2>1 DEF DocInv, JobsAreShaped, Idle, JobFields
  <2>4. DocsAreTyped'
    <3>1. ASSUME NEW f \in File PROVE doc'[f] \in [slot : SlotName \cup {None}, active : BOOLEAN]
      <4>1. [doc[f] EXCEPT !.active = FALSE] \in [slot : SlotName \cup {None}, active : BOOLEAN]
        BY DEF DocInv, DocsAreTyped
      <4>2. [slot |-> slot, active |-> TRUE] \in [slot : SlotName \cup {None}, active : BOOLEAN]
        BY <1>1
      <4>3. doc'[f] \in {[slot |-> slot, active |-> TRUE], [doc[f] EXCEPT !.active = FALSE], doc[f]}
        BY <1>2
      <4>4. QED BY <4>1, <4>2, <4>3 DEF DocInv, DocsAreTyped
    <3>2. QED BY <1>1, <1>2, <3>1 DEF DocInv, DocsAreTyped
  <2>5. SlotHoldsOneStoredFile'
    <3>1. \A f \in File : doc[f].active /\ doc[f].slot = slot => f \in job[r].seen
      BY <1>2 DEF SlotTaken, SlotHolders, ActiveDocs
    <3>2. \A f \in File \ {new} : doc'[f].active => doc'[f].slot # slot
      BY <2>2, <3>1
    <3>3. QED
      BY <1>1, <2>2, <3>2 DEF DocInv, SlotHoldsOneStoredFile, ActiveDocs
  <2>6. Uploading' \subseteq Uploading \ {r} /\ \A q \in Uploading' : job'[q] = job[q]
    BY <2>1 DEF Uploading, Idle, UploadSteps
  <2>7. UploadsAreApart'
    BY <1>1, <2>1, <2>2, <2>6 DEF DocInv, UploadsAreApart
  <2>8. QED
    BY <2>3, <2>4, <2>5, <2>7 DEF DocInv
<1>3. CASE Goto(r, "discard") /\ UNCHANGED doc
  <2>1. /\ \A q \in Req \ {r} : job'[q] = job[q]
        /\ job'[r].step = "discard" /\ DOMAIN job'[r] = JobFields
        /\ job'[r].file = job[r].file /\ job'[r].to = job[r].to /\ DOMAIN job' = Req
    BY <1>3 DEF Goto, DocInv, JobsAreShaped, JobFields
  <2>2. JobsAreShaped' /\ DocsAreTyped' /\ SlotHoldsOneStoredFile'
    BY <1>1, <1>3, <2>1 DEF DocInv, JobsAreShaped, DocsAreTyped, SlotHoldsOneStoredFile, ActiveDocs
  <2>3. Uploading' = Uploading
    BY <1>1, <2>1 DEF Uploading, UploadSteps
  <2>4. UploadsAreApart'
    BY <1>1, <1>3, <2>1, <2>3 DEF DocInv, UploadsAreApart, Uploading
  <2>5. QED
    BY <2>2, <2>4 DEF DocInv
<1>4. QED
  BY <1>2, <1>3 DEF Insert

\* The file of an upload that lost is deleted: no document in force names it,
\* and no other upload has it.
LEMMA DiscardKeepsDocs ==
  ASSUME DocInv, NEW r \in Req, Discard(r)
  PROVE  DocInv'
<1>1. /\ r \in Uploading /\ job[r].file \in File /\ ~doc[job[r].file].active
      /\ \A q \in Uploading \ {r} : job[q].file # job[r].file
      /\ \A q \in Req \ {r} : job'[q] = job[q]
      /\ job'[r] = Idle /\ DOMAIN job' = Req
  BY DEF Discard, At, Finish, DocInv, JobsAreShaped, UploadsAreApart, Uploading, UploadSteps
<1>2. doc' = doc /\ stored' = stored \ {job[r].file}
  BY DEF Discard
<1>3. JobsAreShaped' /\ DocsAreTyped' /\ SlotHoldsOneStoredFile'
  BY <1>1, <1>2 DEF DocInv, JobsAreShaped, DocsAreTyped, SlotHoldsOneStoredFile, ActiveDocs,
                    Idle, JobFields
<1>4. Uploading' \subseteq Uploading \ {r} /\ \A q \in Uploading' : job'[q] = job[q]
  BY <1>1 DEF Uploading, Idle, UploadSteps
<1>5. UploadsAreApart'
  BY <1>1, <1>2, <1>4 DEF DocInv, UploadsAreApart
<1>6. QED
  BY <1>3, <1>5 DEF DocInv

\* An upload begins with a file that nothing names and nobody has.
LEMMA BeginUploadKeepsDocs ==
  ASSUME DocInv, NEW r \in Req, NEW u \in User, NEW f \in File, NEW s \in SlotName,
         BeginUpload(r, u, f, s)
  PROVE  DocInv'
<1>1. /\ \A q \in Req \ {r} : job'[q] = job[q]
      /\ job'[r] = [Idle EXCEPT !.step = "store", !.by = u, !.file = f, !.to = s]
      /\ DOMAIN job' = Req
      /\ doc' = doc /\ stored' = stored
      /\ doc[f] = NoDoc /\ \A q \in Req : job[q].file # f
  BY DEF BeginUpload, Begin, DocInv, JobsAreShaped, business
<1>2. /\ job'[r].step = "store" /\ job'[r].file = f /\ job'[r].to = s
      /\ DOMAIN job'[r] = JobFields
  BY <1>1 DEF Idle, JobFields
<1>3. JobsAreShaped' /\ DocsAreTyped' /\ SlotHoldsOneStoredFile'
  BY <1>1, <1>2 DEF DocInv, JobsAreShaped, DocsAreTyped, SlotHoldsOneStoredFile, ActiveDocs
<1>4. /\ Uploading' \ {r} \subseteq Uploading /\ \A q \in Uploading' \ {r} : job'[q] = job[q]
      /\ Uploading' \subseteq Req
  BY <1>1 DEF Uploading
<1>5. ~doc[f].active
  BY <1>1 DEF NoDoc
<1>6. UploadsAreApart'
  <2>1. ASSUME NEW q \in Uploading' PROVE
          /\ job'[q].file \in File /\ job'[q].to \in SlotName
          /\ ~doc'[job'[q].file].active
          /\ job'[q].step \in {"replace", "insert"} => job'[q].file \in stored'
    BY <1>1, <1>2, <1>4, <1>5 DEF DocInv, UploadsAreApart
  <2>2. ASSUME NEW q \in Uploading', NEW p \in Uploading' \ {q} PROVE job'[p].file # job'[q].file
    <3>1. /\ \A x \in Req : job[x].file # f
          /\ \A x, y \in Uploading : x # y => job[x].file # job[y].file
      BY <1>1 DEF DocInv, UploadsAreApart
    <3>2. CASE q = r
      BY <1>2, <1>4, <3>1, <3>2
    <3>3. CASE p = r
      BY <1>2, <1>4, <3>1, <3>3
    <3>4. CASE q # r /\ p # r
      BY <1>4, <3>1, <3>4
    <3>5. QED BY <3>2, <3>3, <3>4
  <2>3. QED BY <2>1, <2>2 DEF UploadsAreApart
<1>7. QED
  BY <1>3, <1>6 DEF DocInv

\* The handlers that neither upload nor pay nor decide on the old refund.
LEMMA PlainBegin ==
  ASSUME NEW r \in Req, NEW u \in User,
         \/ \E f \in File : BeginRemove(r, u, f)
         \/ \E type \in Type : BeginType(r, u, type)
         \/ BeginForm(r, u)
  PROVE  \E call, j : /\ Begin(r, call, j) /\ DOMAIN j = JobFields
                      /\ j.step \notin UploadSteps \cup {"submit", "pay", "transition"}
<1>1. ASSUME NEW f \in File, BeginRemove(r, u, f)
      PROVE  \E call, j : /\ Begin(r, call, j) /\ DOMAIN j = JobFields
                          /\ j.step \notin UploadSteps \cup {"submit", "pay", "transition"}
  <2> DEFINE j == [Idle EXCEPT !.step = "remove", !.by = u, !.seen = {f}]
  <2>1. DOMAIN j = JobFields /\ j.step \notin UploadSteps \cup {"submit", "pay", "transition"}
    BY DEF Idle, JobFields, UploadSteps
  <2>2. Begin(r, "remove", j)
    BY <1>1 DEF BeginRemove
  <2> HIDE DEF j
  <2>3. QED BY <2>1, <2>2
<1>2. ASSUME NEW type \in Type, BeginType(r, u, type)
      PROVE  \E call, j : /\ Begin(r, call, j) /\ DOMAIN j = JobFields
                          /\ j.step \notin UploadSteps \cup {"submit", "pay", "transition"}
  <2> DEFINE j == [Idle EXCEPT !.step = "type", !.by = u, !.to = type,
                     !.seen = {f \in ActiveDocs : doc[f].slot \notin RefundSlots(type)}]
  <2>1. DOMAIN j = JobFields /\ j.step \notin UploadSteps \cup {"submit", "pay", "transition"}
    BY DEF Idle, JobFields, UploadSteps
  <2>2. Begin(r, "type", j)
    BY <1>2 DEF BeginType
  <2> HIDE DEF j
  <2>3. QED BY <2>1, <2>2
<1>3. ASSUME BeginForm(r, u)
      PROVE  \E call, j : /\ Begin(r, call, j) /\ DOMAIN j = JobFields
                          /\ j.step \notin UploadSteps \cup {"submit", "pay", "transition"}
  <2>1. CASE \E full \in BOOLEAN : BeginRequisites(r, u, full)
    <3>1. PICK full : BeginRequisites(r, u, full)
      BY <2>1
    <3> DEFINE j == [Idle EXCEPT !.step = "requisites", !.by = u, !.to = full]
    <3>2. DOMAIN j = JobFields /\ j.step \notin UploadSteps \cup {"submit", "pay", "transition"}
      BY DEF Idle, JobFields, UploadSteps
    <3>3. Begin(r, "requisites", j)
      BY <3>1 DEF BeginRequisites
    <3> HIDE DEF j
    <3>4. QED BY <3>2, <3>3
  <2>2. CASE \E in : BeginInputs(r, u, in)
    <3>1. PICK in : BeginInputs(r, u, in)
      BY <2>2
    <3> DEFINE j == [Idle EXCEPT !.step = "inputs", !.by = u, !.to = in]
    <3>2. DOMAIN j = JobFields /\ j.step \notin UploadSteps \cup {"submit", "pay", "transition"}
      BY DEF Idle, JobFields, UploadSteps
    <3>3. Begin(r, "inputs", j)
      BY <3>1 DEF BeginInputs
    <3> HIDE DEF j
    <3>4. QED BY <3>2, <3>3
  <2>3. CASE \E in : BeginCalculate(r, u, in)
    <3>1. PICK in : BeginCalculate(r, u, in)
      BY <2>3
    <3> DEFINE j == [Idle EXCEPT !.step = "calculate", !.by = u, !.to = in]
    <3>2. DOMAIN j = JobFields /\ j.step \notin UploadSteps \cup {"submit", "pay", "transition"}
      BY DEF Idle, JobFields, UploadSteps
    <3>3. Begin(r, "calculate", j)
      BY <3>1 DEF BeginCalculate
    <3> HIDE DEF j
    <3>4. QED BY <3>2, <3>3
  <2>4. QED BY <1>3, <2>1, <2>2, <2>3 DEF BeginForm
<1>4. QED
  BY <1>1, <1>2, <1>3

\* Every step keeps the invariant of the documents.
LEMMA NextKeepsDocs ==
  ASSUME DocInv, Next
  PROVE  DocInv'
<1>1. ASSUME NEW u \in User, NEW type \in Type, CreateDraft(u, type)
      PROVE  DocInv'
  BY <1>1 DEF CreateDraft, OnlyRefund, DocInv, JobsAreShaped, DocsAreTyped, UploadsAreApart,
              Uploading, SlotHoldsOneStoredFile, ActiveDocs
<1>2. ASSUME NEW u \in User, NEW a \in Amount, SaveLegacy(u, a)
      PROVE  DocInv'
  BY <1>2 DEF SaveLegacy, DocInv, JobsAreShaped, DocsAreTyped, UploadsAreApart,
              Uploading, SlotHoldsOneStoredFile, ActiveDocs
<1>3. ASSUME NEW on \in BOOLEAN, SetRegional(on)
      PROVE  DocInv'
  BY <1>3 DEF SetRegional, DocInv, JobsAreShaped, DocsAreTyped, UploadsAreApart,
              Uploading, SlotHoldsOneStoredFile, ActiveDocs
<1>4. ASSUME NEW r \in Req, NEW u \in User, BeginDocument(r, u) \/ BeginForm(r, u)
      PROVE  DocInv'
  <2>1. CASE \E f \in File, slot \in SlotName : BeginUpload(r, u, f, slot)
    BY <2>1, BeginUploadKeepsDocs
  <2>2. CASE \/ \E f \in File : BeginRemove(r, u, f)
             \/ \E type \in Type : BeginType(r, u, type)
             \/ BeginForm(r, u)
    BY <2>2, PlainBegin, BeginKeepsDocs
  <2>3. QED BY <1>4, <2>1, <2>2 DEF BeginDocument
<1>5. ASSUME NEW r \in Req, NEW u \in User, BeginDecision(r, u)
      PROVE  DocInv'
  <2>1. PICK step \in {"submit", "cancel", "pay", "approve", "return"} :
          Begin(r, step, [Idle EXCEPT !.step = step, !.by = u])
    BY <1>5 DEF BeginDecision, BeginSubmit, BeginCancel, BeginPay, BeginReview
  <2> DEFINE j == [Idle EXCEPT !.step = step, !.by = u]
  <2>2. DOMAIN j = JobFields /\ j.step \notin UploadSteps
    BY <2>1 DEF Idle, JobFields, UploadSteps
  <2>3. Begin(r, step, j)
    BY <2>1
  <2> HIDE DEF j
  <2>4. QED BY <2>2, <2>3, BeginKeepsDocs
<1>6. ASSUME NEW r \in Req, NEW u \in User, BeginLegacy(r, u)
      PROVE  DocInv'
  <2>1. CASE \E a \in Amount : BeginEditLegacy(r, u, a)
    <3>1. PICK a : BeginEditLegacy(r, u, a)
      BY <2>1
    <3> DEFINE j == [Idle EXCEPT !.step = "edit old", !.by = u, !.to = a]
    <3>2. DOMAIN j = JobFields /\ j.step \notin UploadSteps
      BY DEF Idle, JobFields, UploadSteps
    <3>3. Begin(r, "old", j)
      BY <3>1 DEF BeginEditLegacy
    <3> HIDE DEF j
    <3>4. QED BY <3>2, <3>3, BeginKeepsDocs
  <2>2. CASE \E status \in LegacyStatus : BeginTransition(r, u, status)
    <3>1. PICK status : BeginTransition(r, u, status)
      BY <2>2
    <3> DEFINE j == [Idle EXCEPT !.step = "transition", !.by = u, !.to = <<legacy.status, status>>]
    <3>2. DOMAIN j = JobFields /\ j.step \notin UploadSteps
      BY DEF Idle, JobFields, UploadSteps
    <3>3. Begin(r, "old", j)
      BY <3>1 DEF BeginTransition
    <3> HIDE DEF j
    <3>4. QED BY <3>2, <3>3, BeginKeepsDocs
  <2>3. QED BY <1>6, <2>1, <2>2 DEF BeginLegacy
<1>7. ASSUME NEW r \in Req, Remove(r) \/ ChangeType(r)
      PROVE  DocInv'
  <2>1. /\ Finish(r) /\ stored' = stored
        /\ doc' = [f \in File |-> IF f \in job[r].seen THEN [doc[f] EXCEPT !.active = FALSE] ELSE doc[f]]
    BY <1>7 DEF Remove, ChangeType
  <2>2. ASSUME NEW f \in File
        PROVE  /\ doc'[f] \in [slot : SlotName \cup {None}, active : BOOLEAN]
               /\ doc'[f].active => doc[f].active /\ doc'[f].slot = doc[f].slot
    BY <2>1 DEF DocInv, DocsAreTyped
  <2>3. doc' \in [File -> [slot : SlotName \cup {None}, active : BOOLEAN]]
    BY <2>1, <2>2
  <2>4. QED BY <2>1, <2>2, <2>3, FinishKeepsDocs
<1>8. ASSUME NEW r \in Req,
             \/ SaveRequisites(r) \/ SaveInputs(r) \/ Calculate(r) \/ Submit(r) \/ Cancel(r)
             \/ Approve(r) \/ Return(r) \/ Pay(r) \/ EditLegacy(r) \/ Transition(r) \/ Crash(r)
      PROVE  DocInv'
  <2>1. Finish(r) /\ stored' = stored /\ doc' = doc
    BY <1>8 DEF SaveRequisites, SaveInputs, Calculate, Submit, Cancel, Approve, Return, Pay,
                EditLegacy, Transition, Crash, OnlyRefund, business
  <2>2. QED BY <2>1, FinishKeepsDocs DEF DocInv, DocsAreTyped
<1>9. ASSUME NEW r \in Req, Store(r) \/ Replace(r) \/ Insert(r) \/ Discard(r)
       PROVE  DocInv'
  BY <1>9, StoreKeepsDocs, ReplaceKeepsDocs, InsertKeepsDocs, DiscardKeepsDocs
<1>10. QED
  BY <1>1, <1>2, <1>3, <1>4, <1>5, <1>6, <1>7, <1>8, <1>9 DEF Next, Write

\* "Exactly one ACTIVE document per (refund, slot)": whatever uploads,
\* replacements, removals and failures overlap (refund-document-actions.ts), no
\* slot has two documents in force, and the file of each is in the storage.
THEOREM OneStoredFilePerSlot == Spec => []SlotHoldsOneStoredFile
<1>1. Init => DocInv
  <2>1. SUFFICES ASSUME Init PROVE DocInv
    OBVIOUS
  <2>2. JobsAreShaped /\ Uploading = {}
    BY <2>1 DEF Init, JobsAreShaped, JobFields, Uploading, UploadSteps, Idle
  <2>3. DocsAreTyped
    BY <2>1, RowsAssumption DEF Init, DocsAreTyped, RowsAssumption
  <2>4. SlotHoldsOneStoredFile
    BY <2>1, <2>3, RowsAssumption
       DEF Init, RowsAssumption, SlotHoldsOneStoredFile, ActiveDocs, NoDoc
  <2>5. QED BY <2>2, <2>3, <2>4 DEF DocInv, UploadsAreApart
<1>2. DocInv /\ [Next]_vars => DocInv'
  <2>1. SUFFICES ASSUME DocInv, [Next]_vars PROVE DocInv'
    OBVIOUS
  <2>2. CASE Next
    BY <2>1, <2>2, NextKeepsDocs
  <2>3. CASE UNCHANGED vars
    BY <2>1, <2>3 DEF vars, business, DocInv, JobsAreShaped, DocsAreTyped, UploadsAreApart,
                      Uploading, SlotHoldsOneStoredFile, ActiveDocs
  <2>4. QED BY <2>1, <2>2, <2>3
<1>3. DocInv => SlotHoldsOneStoredFile
  BY DEF DocInv
<1>4. QED
  BY <1>1, <1>2, <1>3, PTL DEF Spec

-----------------------------------------------------------------------------
(* Approval and payment.                                                   *)

Settled == {"accounting_in_progress", "paid"}

\* Of the new process: the amount is the approved one from the approval on, and
\* a payment under way has seen a positive one.
RefundFollows ==
  /\ "status" \in DOMAIN refund
  /\ refund.status # None => "amount" \in DOMAIN refund
  /\ refund.status \in Settled => refund.amount = approved.amount
  /\ refund.status = "paid" => refund.amount > 0
  /\ \A r \in Req : job[r].step = "pay" => refund.status \in Settled /\ refund.amount > 0
  /\ payments.refund = (IF refund.status = "paid" THEN 1 ELSE 0)

\* A transition of the old process, as it was decided on the status it read.
Decided(j, row) ==
  /\ row # NoLegacy
  /\ j.to[1] # "paid" /\ j.to[2] \in LegacyStatus
  /\ j.to[2] \in ApprovedUnpaid => j.by \notin {None, row.author}
  /\ j.to[2] = "paid" => j.to[1] \in ApprovedUnpaid

\* Of the old process: an approved status names an approver who is not the author.
LegacyFollows ==
  /\ legacy # NoLegacy => DOMAIN legacy = {"status", "author", "amount"} /\ legacy.status \in LegacyStatus
  /\ legacy.status \in ApprovedUnpaid \cup {"paid"} => approved.by \notin {None, legacy.author}
  /\ \A r \in Req : job[r].step = "transition" => Decided(job[r], legacy)
  /\ payments.legacy = (IF legacy.status = "paid" THEN 1 ELSE 0)

HistoryIsShaped == DOMAIN approved = {"amount", "by"} /\ DOMAIN payments = {"refund", "legacy"}

PayInv == JobsAreShaped /\ HistoryIsShaped /\ RefundFollows /\ LegacyFollows

LEMMA PayInvSuffices == ASSUME PayInv PROVE PaidOnceAsApproved
BY DEF PayInv, RefundFollows, LegacyFollows, PaidOnceAsApproved, Settled

\* A handler begins that is neither a payment nor a transition.
LEMMA BeginKeepsPay ==
  ASSUME PayInv, NEW r \in Req, NEW call, NEW j, Begin(r, call, j), DOMAIN j = JobFields,
         j.step = "pay" => refund.status \in Settled /\ refund.amount > 0,
         j.step = "transition" => Decided(j, legacy)
  PROVE  PayInv'
<1>1. /\ \A q \in Req \ {r} : job'[q] = job[q]
      /\ job'[r] = j /\ DOMAIN job' = Req
      /\ UNCHANGED <<refund, legacy, approved, payments>>
  BY DEF Begin, PayInv, JobsAreShaped, business
<1>2. JobsAreShaped' /\ HistoryIsShaped'
  BY <1>1 DEF PayInv, JobsAreShaped, HistoryIsShaped
<1>3. RefundFollows'
  BY <1>1 DEF PayInv, RefundFollows
<1>4. LegacyFollows'
  <2>1. ASSUME NEW q \in Req, job'[q].step = "transition" PROVE Decided(job'[q], legacy')
    BY <1>1, <2>1 DEF PayInv, LegacyFollows, Decided
  <2>2. QED BY <1>1, <2>1 DEF PayInv, LegacyFollows
<1>5. QED
  BY <1>2, <1>3, <1>4 DEF PayInv

\* A step of the new process that leaves the old one alone, and that brings no
\* job nearer to a payment or a transition.
LEMMA RefundStep ==
  ASSUME PayInv, UNCHANGED legacy, JobsAreShaped', HistoryIsShaped', RefundFollows',
         \A q \in Req : job'[q] = job[q] \/ job'[q] = Idle \/ job'[q].step \in UploadSteps,
         approved'.by = approved.by, payments'.legacy = payments.legacy
  PROVE  PayInv'
<1>1. ASSUME NEW q \in Req, job'[q].step = "transition" PROVE Decided(job'[q], legacy')
  BY <1>1 DEF PayInv, LegacyFollows, Decided, Idle, UploadSteps
<1>2. LegacyFollows'
  BY <1>1 DEF PayInv, LegacyFollows
<1>3. QED
  BY <1>2 DEF PayInv

\* A handler that ends leaves the jobs in shape.
LEMMA FinishShaped ==
  ASSUME JobsAreShaped, NEW r \in Req, Finish(r)
  PROVE  /\ JobsAreShaped'
         /\ job'[r] = Idle /\ \A q \in Req \ {r} : job'[q] = job[q]
BY DEF Finish, JobsAreShaped, Idle, JobFields

\* A refund that is not settled is written, and is not settled afterwards; or
\* its status and its amount stay.
LEMMA OtherWriteKeepsPay ==
  ASSUME PayInv, NEW r \in Req, Finish(r), UNCHANGED <<legacy, approved, payments>>,
         "status" \in DOMAIN refund', refund'.status # None => "amount" \in DOMAIN refund',
         \/ refund'.status = refund.status
            /\ (refund.status # None => refund'.amount = refund.amount)
         \/ refund.status \notin Settled /\ refund'.status \notin Settled
  PROVE  PayInv'
<1>1. /\ JobsAreShaped' /\ job'[r] = Idle /\ \A q \in Req \ {r} : job'[q] = job[q]
  BY FinishShaped DEF PayInv
<1>2. HistoryIsShaped'
  BY DEF PayInv, HistoryIsShaped
<1>3. RefundFollows'
  <2>1. ASSUME NEW q \in Req, job'[q].step = "pay"
        PROVE  refund'.status \in Settled /\ refund'.amount > 0
    BY <1>1, <2>1 DEF PayInv, RefundFollows, Idle, Settled, None
  <2>2. QED BY <2>1 DEF PayInv, RefundFollows, Settled, None
<1>4. QED
  BY <1>1, <1>2, <1>3, RefundStep DEF PayInv

\* The approval fixes the amount, and the payment pays it once.
LEMMA ApproveKeepsPay ==
  ASSUME PayInv, NEW r \in Req, Approve(r)
  PROVE  PayInv'
<1>1. CASE ~Pending
  BY <1>1, OtherWriteKeepsPay DEF Approve, PayInv, RefundFollows
<1>2. CASE Pending
  <2>1. /\ Finish(r) /\ UNCHANGED <<legacy, payments>>
        /\ refund' = [refund EXCEPT !.status = "accounting_in_progress"]
        /\ approved' = [approved EXCEPT !.amount = refund.amount]
    BY <1>2 DEF Approve
  <2>2. JobsAreShaped' /\ job'[r] = Idle /\ \A q \in Req \ {r} : job'[q] = job[q]
    BY <2>1, FinishShaped DEF PayInv
  <2>3. /\ refund'.status = "accounting_in_progress" /\ refund'.amount = refund.amount
        /\ {"status", "amount"} \subseteq DOMAIN refund'
        /\ approved'.amount = refund.amount /\ approved'.by = approved.by
    BY <1>2, <2>1 DEF PayInv, RefundFollows, HistoryIsShaped, Pending, None
  <2>4. HistoryIsShaped'
    BY <2>1 DEF PayInv, HistoryIsShaped
  <2>5. \A q \in Req : job[q].step # "pay"
    BY <1>2 DEF PayInv, RefundFollows, Pending, Settled
  <2>6. RefundFollows'
    BY <1>2, <2>1, <2>2, <2>3, <2>5 DEF PayInv, RefundFollows, Settled, Idle, Pending
  <2>7. QED BY <2>1, <2>2, <2>3, <2>4, <2>6, RefundStep DEF PayInv
<1>3. QED
  BY <1>1, <1>2

LEMMA PayKeepsPay ==
  ASSUME PayInv, NEW r \in Req, Pay(r)
  PROVE  PayInv'
<1>1. CASE ~StillPayable
  BY <1>1, OtherWriteKeepsPay DEF Pay, PayInv, RefundFollows
<1>2. CASE StillPayable
  <2>1. /\ Finish(r) /\ UNCHANGED <<legacy, approved>>
        /\ job[r].step = "pay"
        /\ refund' = [refund EXCEPT !.status = "paid"]
        /\ payments' = [payments EXCEPT !.refund = @ + 1]
    BY <1>2 DEF Pay, At
  <2>2. JobsAreShaped' /\ job'[r] = Idle /\ \A q \in Req \ {r} : job'[q] = job[q]
    BY <2>1, FinishShaped DEF PayInv
  <2>3. /\ refund'.status = "paid" /\ refund'.amount = refund.amount
        /\ {"status", "amount"} \subseteq DOMAIN refund'
        /\ refund.amount > 0 /\ refund.amount = approved.amount
    BY <1>2, <2>1 DEF PayInv, RefundFollows, StillPayable, Payable, None, Settled
  <2>4. payments'.refund = 1 /\ payments'.legacy = payments.legacy
    BY <1>2, <2>1 DEF PayInv, RefundFollows, HistoryIsShaped, StillPayable, Payable
  <2>5. HistoryIsShaped'
    BY <2>1 DEF PayInv, HistoryIsShaped
  <2>6. RefundFollows'
    BY <2>1, <2>2, <2>3, <2>4 DEF RefundFollows, Settled
  <2>7. QED BY <2>1, <2>2, <2>4, <2>5, <2>6, RefundStep DEF PayInv
<1>3. QED
  BY <1>1, <1>2

\* A transition finds the status it was decided on, and moves on from there.
LEMMA TransitionKeepsPay ==
  ASSUME PayInv, NEW r \in Req, Transition(r)
  PROVE  PayInv'
<1> DEFINE from == job[r].to[1]
           to   == job[r].to[2]
<1>1. /\ Finish(r) /\ refund' = refund /\ job[r].step = "transition"
  BY DEF Transition, At
<1>2. JobsAreShaped' /\ job'[r] = Idle /\ \A q \in Req \ {r} : job'[q] = job[q]
  BY <1>1, FinishShaped DEF PayInv
<1>3. CASE ~StillAt(from)
  <2>1. UNCHANGED <<legacy, approved, payments>>
    BY <1>3 DEF Transition
  <2>2. QED BY <1>1, <2>1, OtherWriteKeepsPay DEF PayInv, RefundFollows
<1>4. CASE StillAt(from)
  <2>1. Decided(job[r], legacy)
    BY <1>1 DEF PayInv, LegacyFollows
  <2>2. /\ legacy' = [legacy EXCEPT !.status = to]
        /\ approved' = IF to \in ApprovedUnpaid THEN [approved EXCEPT !.by = job[r].by] ELSE approved
        /\ payments' = IF to = "paid" THEN [payments EXCEPT !.legacy = @ + 1] ELSE payments
    BY <1>4 DEF Transition
  <2>3. /\ legacy'.status = to /\ legacy'.author = legacy.author
        /\ DOMAIN legacy' = {"status", "author", "amount"} /\ to \in LegacyStatus
        /\ legacy.status = from /\ legacy # NoLegacy /\ legacy' # NoLegacy
    BY <1>4, <2>1, <2>2 DEF PayInv, LegacyFollows, Decided, StillAt, NoLegacy
  <2>4. HistoryIsShaped'
    BY <2>2 DEF PayInv, HistoryIsShaped
  <2>5. approved'.amount = approved.amount
        /\ approved'.by = IF to \in ApprovedUnpaid THEN job[r].by ELSE approved.by
    BY <2>2 DEF PayInv, HistoryIsShaped
  <2>6. payments'.refund = payments.refund /\ payments'.legacy = IF to = "paid" THEN 1 ELSE 0
    BY <2>1, <2>2, <2>3 DEF PayInv, HistoryIsShaped, LegacyFollows, Decided
  <2>7. RefundFollows'
    BY <1>1, <1>2, <2>5, <2>6 DEF PayInv, RefundFollows, Idle
  <2>8. legacy'.status \in ApprovedUnpaid \cup {"paid"} => approved'.by \notin {None, legacy'.author}
    BY <2>1, <2>3, <2>5 DEF PayInv, LegacyFollows, Decided
  <2>9. ASSUME NEW q \in Req, job'[q].step = "transition" PROVE Decided(job'[q], legacy')
    BY <1>2, <2>3, <2>9 DEF PayInv, LegacyFollows, Decided, Idle
  <2>10. LegacyFollows'
    BY <2>3, <2>6, <2>8, <2>9 DEF LegacyFollows
  <2>11. QED BY <1>2, <2>4, <2>7, <2>10 DEF PayInv
<1>5. QED
  BY <1>3, <1>4

\* Every step keeps the invariant of approval and payment.
LEMMA NextKeepsPay ==
  ASSUME PayInv, Next
  PROVE  PayInv'
<1>1. ASSUME NEW u \in User, NEW type \in Type, CreateDraft(u, type)
      PROVE  PayInv'
  <2>1. /\ refund = NoRefund /\ refund' = Draft(u, type)
        /\ UNCHANGED <<legacy, approved, payments, job>>
    BY <1>1 DEF CreateDraft, OnlyRefund
  <2>2. refund.status = None /\ refund'.status = "draft" /\ {"status", "amount"} \subseteq DOMAIN refund'
    BY <2>1 DEF NoRefund, Draft
  <2>3. RefundFollows'
    BY <2>1, <2>2 DEF PayInv, RefundFollows, Settled, None
  <2>4. QED BY <2>1, <2>3 DEF PayInv, JobsAreShaped, HistoryIsShaped, LegacyFollows
<1>2. ASSUME NEW u \in User, NEW a \in Amount, SaveLegacy(u, a)
      PROVE  PayInv'
  <2>1. /\ legacy = NoLegacy /\ legacy' = [status |-> "draft", author |-> u, amount |-> a]
        /\ UNCHANGED <<refund, approved, payments, job>>
    BY <1>2 DEF SaveLegacy
  <2>2. LegacyFollows'
    BY <2>1 DEF PayInv, LegacyFollows, Decided, NoLegacy, None, LegacyStatus, ApprovedUnpaid
  <2>3. QED BY <2>1, <2>2 DEF PayInv, JobsAreShaped, HistoryIsShaped, RefundFollows
<1>3. ASSUME NEW on \in BOOLEAN, SetRegional(on)
      PROVE  PayInv'
  BY <1>3 DEF SetRegional, PayInv, JobsAreShaped, HistoryIsShaped, RefundFollows, LegacyFollows
<1>4. ASSUME NEW r \in Req, NEW u \in User, BeginDocument(r, u) \/ BeginForm(r, u)
      PROVE  PayInv'
  <2>1. CASE \E f \in File, slot \in SlotName : BeginUpload(r, u, f, slot)
    <3>1. PICK f \in File, slot \in SlotName : BeginUpload(r, u, f, slot)
      BY <2>1
    <3> DEFINE j == [Idle EXCEPT !.step = "store", !.by = u, !.file = f, !.to = slot]
    <3>2. DOMAIN j = JobFields /\ j.step = "store"
      BY DEF Idle, JobFields
    <3>3. Begin(r, "upload", j)
      BY <3>1 DEF BeginUpload
    <3> HIDE DEF j
    <3>4. QED BY <3>2, <3>3, BeginKeepsPay
  <2>2. CASE \/ \E f \in File : BeginRemove(r, u, f)
             \/ \E type \in Type : BeginType(r, u, type)
             \/ BeginForm(r, u)
    <3>1. PICK call, j : /\ Begin(r, call, j) /\ DOMAIN j = JobFields
                         /\ j.step \notin UploadSteps \cup {"submit", "pay", "transition"}
      BY <2>2, PlainBegin
    <3>2. QED BY <3>1, BeginKeepsPay
  <2>3. QED BY <1>4, <2>1, <2>2 DEF BeginDocument
<1>5. ASSUME NEW r \in Req, NEW u \in User, BeginDecision(r, u)
      PROVE  PayInv'
  <2>1. PICK step \in {"submit", "cancel", "pay", "approve", "return"} :
          /\ Begin(r, step, [Idle EXCEPT !.step = step, !.by = u])
          /\ step = "pay" => Payable /\ refund.amount > 0
    BY <1>5 DEF BeginDecision, BeginSubmit, BeginCancel, BeginPay, BeginReview
  <2> DEFINE j == [Idle EXCEPT !.step = step, !.by = u]
  <2>2. DOMAIN j = JobFields /\ j.step = step
    BY DEF Idle, JobFields
  <2>3. Begin(r, step, j)
    BY <2>1
  <2> HIDE DEF j
  <2>4. QED BY <2>1, <2>2, <2>3, BeginKeepsPay DEF Payable, Settled
<1>6. ASSUME NEW r \in Req, NEW u \in User, BeginLegacy(r, u)
      PROVE  PayInv'
  <2>1. ASSUME NEW a \in Amount, BeginEditLegacy(r, u, a) PROVE PayInv'
    <3> DEFINE j == [Idle EXCEPT !.step = "edit old", !.by = u, !.to = a]
    <3>1. DOMAIN j = JobFields /\ j.step = "edit old" /\ Begin(r, "old", j)
      BY <2>1 DEF BeginEditLegacy, Idle, JobFields
    <3> HIDE DEF j
    <3>2. QED BY <3>1, BeginKeepsPay
  <2>2. ASSUME NEW to \in LegacyStatus, BeginTransition(r, u, to) PROVE PayInv'
    <3> DEFINE j == [Idle EXCEPT !.step = "transition", !.by = u, !.to = <<legacy.status, to>>]
    <3>1. /\ DOMAIN j = JobFields /\ j.step = "transition"
          /\ j.by = u /\ j.to = <<legacy.status, to>>
      BY DEF Idle, JobFields
    <3>2. Begin(r, "old", j) /\ legacy # NoLegacy /\ to \in Routes(u)
      BY <2>2 DEF BeginTransition, SeesLegacy
    <3>3. /\ legacy.status # "paid"
          /\ to \in ApprovedUnpaid => u # legacy.author
          /\ to = "paid" => legacy.status \in ApprovedUnpaid
      BY <3>2 DEF Routes, ApprovedUnpaid
    <3> HIDE DEF j
    <3>4. Decided(j, legacy)
      BY <3>1, <3>2, <3>3, NamesAssumption DEF Decided, NamesAssumption
    <3>5. QED BY <3>1, <3>2, <3>4, BeginKeepsPay
  <2>3. QED BY <1>6, <2>1, <2>2 DEF BeginLegacy
<1>7. ASSUME NEW r \in Req, Store(r) \/ Replace(r)
      PROVE  PayInv'
  <2>1. /\ \A q \in Req \ {r} : job'[q] = job[q]
        /\ job'[r].step \in UploadSteps /\ DOMAIN job'[r] = JobFields /\ DOMAIN job' = Req
        /\ UNCHANGED <<refund, legacy, approved, payments>>
    BY <1>7 DEF Store, Replace, At, Goto, PayInv, JobsAreShaped, JobFields, UploadSteps, business
  <2>2. JobsAreShaped' /\ HistoryIsShaped' /\ RefundFollows'
    BY <2>1 DEF PayInv, JobsAreShaped, HistoryIsShaped, RefundFollows, UploadSteps
  <2>3. QED BY <2>1, <2>2, RefundStep DEF PayInv
<1>8. ASSUME NEW r \in Req, Insert(r) \/ Discard(r)
      PROVE  PayInv'
  <2>1. CASE Finish(r)
    <3>1. UNCHANGED <<refund, legacy, approved, payments>>
      BY <1>8 DEF Insert, Discard
    <3>2. QED BY <2>1, <3>1, OtherWriteKeepsPay DEF PayInv, RefundFollows
  <2>2. CASE Goto(r, "discard")
    <3>1. /\ \A q \in Req \ {r} : job'[q] = job[q]
          /\ job'[r].step \in UploadSteps /\ DOMAIN job'[r] = JobFields /\ DOMAIN job' = Req
          /\ UNCHANGED <<refund, legacy, approved, payments>>
      BY <1>8, <2>2 DEF Insert, Discard, Goto, PayInv, JobsAreShaped, JobFields, UploadSteps
    <3>2. JobsAreShaped' /\ HistoryIsShaped' /\ RefundFollows'
      BY <3>1 DEF PayInv, JobsAreShaped, HistoryIsShaped, RefundFollows, UploadSteps
    <3>3. QED BY <3>1, <3>2, RefundStep DEF PayInv
  <2>3. QED BY <1>8, <2>1, <2>2 DEF Insert, Discard
<1>9. ASSUME NEW r \in Req, Remove(r) \/ Crash(r)
      PROVE  PayInv'
  <2>1. Finish(r) /\ UNCHANGED <<refund, legacy, approved, payments>>
    BY <1>9 DEF Remove, Crash, business
  <2>2. QED BY <2>1, OtherWriteKeepsPay DEF PayInv, RefundFollows
<1>10. ASSUME NEW r \in Req, ChangeType(r) \/ SaveRequisites(r)
       PROVE  PayInv'
  <2>1. /\ Finish(r) /\ UNCHANGED <<legacy, approved, payments>>
        /\ \E v : refund' = [refund EXCEPT !.type = v] \/ refund' = [refund EXCEPT !.requisites = v]
    BY <1>10 DEF ChangeType, SaveRequisites, OnlyRefund
  <2>2. /\ DOMAIN refund' = DOMAIN refund /\ refund'.status = refund.status
        /\ refund.status # None => refund'.amount = refund.amount
    BY <2>1 DEF PayInv, RefundFollows
  <2>3. QED BY <2>1, <2>2, OtherWriteKeepsPay DEF PayInv, RefundFollows
<1>11. ASSUME NEW r \in Req, SaveInputs(r) \/ Calculate(r)
       PROVE  PayInv'
  <2>1. /\ Finish(r) /\ UNCHANGED <<legacy, approved, payments>>
        /\ \/ refund' = refund
           \/ /\ Editable
              /\ refund' = WithInputs(refund, job[r].to) \/ refund' = WithCalculation(refund, job[r].to)
    BY <1>11 DEF SaveInputs, Calculate, StillEditable, OnlyRefund
  <2>2. CASE refund' = refund
    BY <2>1, <2>2, OtherWriteKeepsPay DEF PayInv, RefundFollows
  <2>3. CASE Editable /\ \E in : refund' = WithInputs(refund, in) \/ refund' = WithCalculation(refund, in)
    <3>1. /\ {"status", "amount"} \subseteq DOMAIN refund /\ refund.status \in {"draft", "needs_correction"}
      BY <2>3 DEF PayInv, RefundFollows, Editable, None
    <3>2. DOMAIN refund' = DOMAIN refund /\ refund'.status = refund.status
      BY <2>3, <3>1 DEF WithInputs, WithCalculation
    <3>3. QED BY <2>1, <3>1, <3>2, OtherWriteKeepsPay DEF Settled
  <2>4. QED BY <2>1, <2>2, <2>3
<1>12. ASSUME NEW r \in Req, Submit(r) \/ Cancel(r) \/ Return(r)
       PROVE  PayInv'
  <2>1. /\ Finish(r) /\ UNCHANGED <<legacy, approved, payments>>
        /\ \/ refund' = refund
           \/ /\ Editable \/ Pending
              /\ \E to \in {"pending_regional_review", "canceled", "needs_correction"} :
                   refund' = [refund EXCEPT !.status = to]
    BY <1>12 DEF Submit, Cancel, Return, OnlyRefund
  <2>2. CASE refund' = refund
    BY <2>1, <2>2, OtherWriteKeepsPay DEF PayInv, RefundFollows
  <2>3. CASE refund' # refund
    <3>1. PICK to \in {"pending_regional_review", "canceled", "needs_correction"} :
            refund' = [refund EXCEPT !.status = to] /\ (Editable \/ Pending)
      BY <2>1, <2>3
    <3>2. /\ {"status", "amount"} \subseteq DOMAIN refund /\ refund.status \notin Settled
      BY <3>1 DEF PayInv, RefundFollows, Editable, Pending, Settled, None
    <3>3. DOMAIN refund' = DOMAIN refund /\ refund'.status = to
      BY <3>1, <3>2
    <3>4. QED BY <2>1, <3>2, <3>3, OtherWriteKeepsPay DEF Settled
  <2>4. QED BY <2>2, <2>3
<1>13. ASSUME NEW r \in Req, EditLegacy(r)
       PROVE  PayInv'
  <2>1. /\ Finish(r) /\ UNCHANGED <<refund, approved, payments>>
        /\ legacy' = [legacy EXCEPT !.amount = job[r].to]
    BY <1>13 DEF EditLegacy
  <2>2. JobsAreShaped' /\ job'[r] = Idle /\ \A q \in Req \ {r} : job'[q] = job[q]
    BY <2>1, FinishShaped DEF PayInv
  <2>3. HistoryIsShaped' /\ RefundFollows'
    BY <2>1, <2>2 DEF PayInv, HistoryIsShaped, RefundFollows, Idle
  <2>4. /\ DOMAIN legacy' = DOMAIN legacy
        /\ legacy # NoLegacy => legacy'.status = legacy.status /\ legacy'.author = legacy.author
        /\ legacy = NoLegacy => legacy' = NoLegacy
    BY <2>1 DEF PayInv, LegacyFollows, NoLegacy
  <2>5. legacy # NoLegacy => legacy' # NoLegacy
    BY <2>4 DEF PayInv, LegacyFollows, NoLegacy
  <2>6. ASSUME NEW q \in Req, job'[q].step = "transition" PROVE Decided(job'[q], legacy')
    BY <2>2, <2>4, <2>5, <2>6 DEF PayInv, LegacyFollows, Decided, Idle
  <2>7. LegacyFollows'
    BY <2>1, <2>4, <2>6 DEF PayInv, LegacyFollows, NoLegacy
  <2>8. QED BY <2>2, <2>3, <2>7 DEF PayInv
<1>14. QED
  BY <1>1, <1>2, <1>3, <1>4, <1>5, <1>6, <1>7, <1>8, <1>9, <1>10, <1>11, <1>12, <1>13,
     ApproveKeepsPay, PayKeepsPay, TransitionKeepsPay
  DEF Next, Write

\* Whatever overlaps, the amount that is paid is the one that was approved
\* (reviewRefundByRegional, markRefundPaid), a refund of the old process is paid
\* only after somebody other than its author approved it, and each is paid at
\* most once and stays so.
THEOREM PaidAsApproved == Spec => []PaidOnceAsApproved
<1>1. Init => PayInv
  <2>1. SUFFICES ASSUME Init PROVE PayInv
    OBVIOUS
  <2>2. JobsAreShaped /\ \A r \in Req : job[r].step = "idle"
    BY <2>1 DEF Init, JobsAreShaped, JobFields, Idle
  <2>3. HistoryIsShaped
    BY <2>1 DEF Init, HistoryIsShaped
  <2>4. "status" \in DOMAIN refund /\ refund.status \in {None, "draft", "needs_correction"}
        /\ (refund.status # None => "amount" \in DOMAIN refund)
    BY <2>1, RowsAssumption DEF Init, RowsAssumption, NoRefund, RefundFields
  <2>5. RefundFollows
    BY <2>1, <2>2, <2>4 DEF Init, RefundFollows, Settled, None
  <2>6. LegacyFollows
    BY <2>1, <2>2 DEF Init, LegacyFollows, NoLegacy, None, ApprovedUnpaid
  <2>7. QED BY <2>2, <2>3, <2>5, <2>6 DEF PayInv
<1>2. PayInv /\ [Next]_vars => PayInv'
  <2>1. SUFFICES ASSUME PayInv, [Next]_vars PROVE PayInv'
    OBVIOUS
  <2>2. CASE Next
    BY <2>1, <2>2, NextKeepsPay
  <2>3. CASE UNCHANGED vars
    BY <2>1, <2>3 DEF vars, business, PayInv, JobsAreShaped, HistoryIsShaped, RefundFollows,
                      LegacyFollows
  <2>4. QED BY <2>1, <2>2, <2>3
<1>3. PayInv => PaidOnceAsApproved
  BY PayInvSuffices
<1>4. QED
  BY <1>1, <1>2, <1>3, PTL DEF Spec
-----------------------------------------------------------------------------
(* Complete submissions, when requests do not overlap.                     *)

EditSteps == UploadSteps \cup {"remove", "type", "requisites", "inputs", "calculate", "cancel"}
Reviewed  == {"pending_regional_review", "accounting_in_progress", "paid"}
OneSlot   == Cardinality(scenario.slots) = 1

RowIsShaped ==
  \/ DOMAIN refund = {"status"} /\ refund.status = None
  \/ DOMAIN refund = RefundFields

\* The amount of a row is the positive result of its last calculation.
AmountIsComputed ==
  DOMAIN refund = RefundFields => (refund.calc.result > 0 => refund.amount = refund.calc.result)

Complete ==
  /\ SetComplete /\ refund.requisites /\ Current
  /\ refund.calc.result > 0 /\ refund.amount = refund.calc.result

\* Only a slot of the scenario runs a handler.
JobsAreInSlots ==
  /\ IsFiniteSet(scenario.slots)
  /\ \A r \in Req : job[r].step # "idle" => r \in scenario.slots

\* What a handler that changes the row or its documents, or submits, has read of
\* the refund still holds.
ReadsAreCurrent ==
  \A r \in Req : /\ job[r].step \in EditSteps => Editable
                 /\ job[r].step = "submit" => Complete /\ refund.status # None

CompleteInv ==
  /\ JobsAreShaped /\ RowIsShaped /\ AmountIsComputed /\ JobsAreInSlots
  /\ OneSlot => ReadsAreCurrent /\ (refund.status \in Reviewed => Complete)

LEMMA CompleteSuffices == ASSUME CompleteInv PROVE SubmittedIsComplete
BY DEF CompleteInv, SubmittedIsComplete, Complete, Current, OneSlot, Reviewed

\* With one slot, only one handler is under way.
LEMMA OneJob ==
  ASSUME CompleteInv, OneSlot, NEW r \in Req, job[r].step # "idle", NEW q \in Req \ {r}
  PROVE  job[q].step = "idle"
<1>1. PICK x : scenario.slots = {x}
  BY FS_Singleton DEF CompleteInv, JobsAreInSlots, OneSlot
<1>2. QED
  BY <1>1 DEF CompleteInv, JobsAreInSlots

\* The row and its documents stay, and so does what they say.
LEMMA RowStays ==
  ASSUME CompleteInv, UNCHANGED <<refund, doc>>
  PROVE  /\ RowIsShaped' /\ AmountIsComputed'
         /\ Editable' = Editable /\ Complete' = Complete
BY DEF CompleteInv, RowIsShaped, AmountIsComputed, Editable, Complete, SetComplete, SlotHolders,
       ActiveDocs, Current, Fingerprint

\* A handler begins with what it has read.
LEMMA BeginKeepsComplete ==
  ASSUME CompleteInv, NEW r \in Req, NEW call, NEW j, Begin(r, call, j), DOMAIN j = JobFields,
         j.step \in EditSteps => Editable,
         j.step = "submit" => Complete /\ refund.status # None
  PROVE  CompleteInv'
<1>1. /\ \A q \in Req \ {r} : job'[q] = job[q]
      /\ job'[r] = j /\ DOMAIN job' = Req
      /\ r \in scenario.slots /\ UNCHANGED <<refund, doc, scenario>>
  BY DEF Begin, CompleteInv, JobsAreShaped, business
<1>2. JobsAreShaped' /\ JobsAreInSlots' /\ OneSlot' = OneSlot
  BY <1>1 DEF CompleteInv, JobsAreShaped, JobsAreInSlots, OneSlot
<1>3. ASSUME OneSlot PROVE ReadsAreCurrent'
  BY <1>1, <1>3, RowStays DEF CompleteInv, ReadsAreCurrent
<1>4. OneSlot /\ refund'.status \in Reviewed => Complete'
  BY <1>1, RowStays DEF CompleteInv
<1>5. QED
  BY <1>1, <1>2, <1>3, <1>4, RowStays DEF CompleteInv

\* An upload goes on.
LEMMA UploadKeepsComplete ==
  ASSUME CompleteInv, NEW r \in Req, UNCHANGED <<refund, doc, scenario>>,
         JobsAreShaped', \A q \in Req \ {r} : job'[q] = job[q],
         job[r].step \in UploadSteps, job'[r].step \in UploadSteps
  PROVE  CompleteInv'
<1>1. JobsAreInSlots' /\ OneSlot' = OneSlot
  BY DEF CompleteInv, JobsAreInSlots, OneSlot, UploadSteps
<1>2. ASSUME OneSlot PROVE ReadsAreCurrent'
  BY <1>2, RowStays DEF CompleteInv, ReadsAreCurrent, EditSteps, UploadSteps
<1>3. OneSlot /\ refund'.status \in Reviewed => Complete'
  BY RowStays DEF CompleteInv
<1>4. QED
  BY <1>1, <1>2, <1>3, RowStays DEF CompleteInv

\* A handler ends, and with one slot none is left.
LEMMA FinishKeepsComplete ==
  ASSUME CompleteInv, NEW r \in Req, Finish(r), UNCHANGED scenario, job[r].step # "idle",
         RowIsShaped', AmountIsComputed',
         OneSlot /\ refund'.status \in Reviewed => Complete'
  PROVE  CompleteInv'
<1>1. /\ JobsAreShaped' /\ job'[r] = Idle /\ \A q \in Req \ {r} : job'[q] = job[q]
  BY FinishShaped DEF CompleteInv
<1>2. JobsAreInSlots' /\ OneSlot' = OneSlot
  BY <1>1 DEF CompleteInv, JobsAreInSlots, OneSlot, Idle
<1>3. ASSUME OneSlot PROVE ReadsAreCurrent'
  <2>1. \A q \in Req : job'[q].step = "idle"
    BY <1>1, <1>3, OneJob DEF Idle
  <2>2. QED BY <2>1 DEF ReadsAreCurrent, EditSteps, UploadSteps
<1>4. QED
  BY <1>1, <1>2, <1>3 DEF CompleteInv

\* A row that its manager still edits stays with them.
LEMMA EditKeepsComplete ==
  ASSUME CompleteInv, NEW r \in Req, Finish(r), UNCHANGED scenario, job[r].step \in EditSteps,
         RowIsShaped', AmountIsComputed',
         refund'.status \in {refund.status, "canceled"}
  PROVE  CompleteInv'
<1>1. OneSlot => refund'.status \notin Reviewed
  BY DEF CompleteInv, ReadsAreCurrent, Editable, Reviewed
<1>2. job[r].step # "idle"
  BY DEF EditSteps, UploadSteps
<1>3. QED
  BY <1>1, <1>2, FinishKeepsComplete

\* A new status changes nothing else.
LEMMA StatusAlone ==
  ASSUME CompleteInv, NEW status, refund' = [refund EXCEPT !.status = status], UNCHANGED doc,
         refund.status # None
  PROVE  /\ RowIsShaped' /\ AmountIsComputed' /\ refund'.status = status
         /\ Complete' = Complete
<1>1. DOMAIN refund = RefundFields /\ DOMAIN refund' = RefundFields
  BY DEF CompleteInv, RowIsShaped
<1>2. /\ refund'.status = status /\ refund'.type = refund.type
      /\ refund'.requisites = refund.requisites /\ refund'.sum = refund.sum
      /\ refund'.dates = refund.dates /\ refund'.sessions = refund.sessions
      /\ refund'.calc = refund.calc /\ refund'.amount = refund.amount
  BY <1>1 DEF RefundFields
<1>3. SetComplete' = SetComplete /\ Current' = Current
  BY <1>2 DEF SetComplete, SlotHolders, ActiveDocs, Current, Fingerprint
<1>4. QED
  BY <1>1, <1>2, <1>3 DEF CompleteInv, RowIsShaped, AmountIsComputed, Complete

\* The status moves within the review, or back to the manager, or the row stays.
LEMMA StatusKeepsComplete ==
  ASSUME CompleteInv, NEW r \in Req, Finish(r), UNCHANGED <<doc, scenario>>, job[r].step # "idle",
         \/ refund' = refund
         \/ \E status : /\ refund' = [refund EXCEPT !.status = status]
                        /\ refund.status # None
                        /\ OneSlot /\ status \in Reviewed => Complete
  PROVE  CompleteInv'
<1>1. CASE refund' = refund
  BY <1>1, RowStays, FinishKeepsComplete DEF CompleteInv
<1>2. CASE refund' # refund
  <2>1. PICK status : /\ refund' = [refund EXCEPT !.status = status]
                      /\ refund.status # None
                      /\ OneSlot /\ status \in Reviewed => Complete
    BY <1>2
  <2>2. QED BY <2>1, StatusAlone, FinishKeepsComplete
<1>3. QED
  BY <1>1, <1>2

\* What is typed in and calculated changes neither who has the row nor, apart
\* from the result, its amount.
LEMMA FormKeepsComplete ==
  ASSUME CompleteInv, NEW r \in Req,
         ChangeType(r) \/ SaveRequisites(r) \/ SaveInputs(r) \/ Calculate(r)
  PROVE  CompleteInv'
<1>1. /\ Finish(r) /\ UNCHANGED scenario /\ job[r].step \in EditSteps
  BY DEF ChangeType, SaveRequisites, SaveInputs, Calculate, At, EditSteps
<1>2. CASE ChangeType(r) \/ SaveRequisites(r)
  <2>1. \E v : refund' = [refund EXCEPT !.type = v] \/ refund' = [refund EXCEPT !.requisites = v]
    BY <1>2 DEF ChangeType, SaveRequisites
  <2>2. /\ DOMAIN refund' = DOMAIN refund /\ refund'.status = refund.status
        /\ DOMAIN refund = RefundFields => refund'.calc = refund.calc /\ refund'.amount = refund.amount
    BY <2>1 DEF CompleteInv, RowIsShaped, RefundFields
  <2>3. RowIsShaped' /\ AmountIsComputed'
    BY <2>2 DEF CompleteInv, RowIsShaped, AmountIsComputed
  <2>4. QED BY <1>1, <2>2, <2>3, EditKeepsComplete
<1>3. CASE SaveInputs(r) \/ Calculate(r)
  <2>1. \/ refund' = refund
        \/ /\ Editable
           /\ refund' = WithInputs(refund, job[r].to) \/ refund' = WithCalculation(refund, job[r].to)
    BY <1>3 DEF SaveInputs, Calculate, StillEditable
  <2>2. CASE refund' = refund
    <3>1. RowIsShaped' /\ AmountIsComputed'
      BY <2>2 DEF CompleteInv, RowIsShaped, AmountIsComputed
    <3>2. QED BY <1>1, <2>2, <3>1, EditKeepsComplete
  <2>3. CASE Editable /\ \E in : refund' = WithInputs(refund, in) \/ refund' = WithCalculation(refund, in)
    <3>1. DOMAIN refund = RefundFields
      BY <2>3 DEF CompleteInv, RowIsShaped, Editable, None
    <3>2. DOMAIN refund' = RefundFields /\ refund'.status = refund.status
      BY <2>3, <3>1 DEF WithInputs, WithCalculation, RefundFields
    <3>3. AmountIsComputed'
      <4>1. CASE \E in : refund' = WithInputs(refund, in)
        <5>1. refund'.calc = refund.calc /\ refund'.amount = refund.amount
          BY <4>1, <3>1 DEF WithInputs, RefundFields
        <5>2. QED BY <3>1, <3>2, <5>1 DEF CompleteInv, AmountIsComputed
      <4>2. CASE \E in : refund' = WithCalculation(refund, in)
        <5>1. PICK in : refund' = WithCalculation(refund, in)
          BY <4>2
        <5>2. DOMAIN WithInputs(refund, in) = RefundFields
          BY <3>1 DEF WithInputs
        <5>3. /\ refund'.calc.result = Result(in)
              /\ refund'.amount = IF Result(in) > 0 THEN Result(in) ELSE 0
          BY <5>1, <5>2 DEF WithCalculation, RefundFields
        <5>4. QED BY <5>3 DEF AmountIsComputed
      <4>3. QED BY <2>3, <4>1, <4>2
    <3>4. RowIsShaped'
      BY <3>2 DEF RowIsShaped
    <3>5. QED BY <1>1, <3>2, <3>3, <3>4, EditKeepsComplete
  <2>4. QED BY <2>1, <2>2, <2>3
<1>4. QED
  BY <1>2, <1>3

\* A handler writes.
LEMMA WriteKeepsComplete ==
  ASSUME CompleteInv, NEW r \in Req, Write(r)
  PROVE  CompleteInv'
<1>1. CASE Store(r) \/ Replace(r)
  <2>1. /\ UNCHANGED <<refund, doc, scenario>> /\ JobsAreShaped'
        /\ \A q \in Req \ {r} : job'[q] = job[q]
        /\ job[r].step \in UploadSteps /\ job'[r].step \in UploadSteps
    BY <1>1 DEF Store, Replace, At, Goto, CompleteInv, JobsAreShaped, JobFields, UploadSteps, business
  <2>2. QED BY <2>1, UploadKeepsComplete
<1>2. CASE Insert(r) \/ Discard(r) \/ Remove(r)
  <2>1. /\ UNCHANGED <<refund, scenario>> /\ job[r].step \in EditSteps /\ refund' = refund
    BY <1>2 DEF Insert, Discard, Remove, At, EditSteps, UploadSteps
  <2>2. CASE Finish(r)
    <3>1. RowIsShaped' /\ AmountIsComputed'
      BY <2>1 DEF CompleteInv, RowIsShaped, AmountIsComputed
    <3>2. QED BY <2>1, <2>2, <3>1, EditKeepsComplete
  <2>3. CASE Insert(r) /\ Goto(r, "discard") /\ UNCHANGED doc
    <3>1. /\ JobsAreShaped' /\ \A q \in Req \ {r} : job'[q] = job[q]
          /\ job[r].step \in UploadSteps /\ job'[r].step \in UploadSteps
      BY <2>3 DEF Insert, At, Goto, CompleteInv, JobsAreShaped, JobFields, UploadSteps
    <3>2. QED BY <2>1, <2>3, <3>1, UploadKeepsComplete
  <2>4. QED BY <1>2, <2>2, <2>3 DEF Insert, Discard, Remove
<1>3. CASE ChangeType(r) \/ SaveRequisites(r) \/ SaveInputs(r) \/ Calculate(r)
  BY <1>3, FormKeepsComplete
<1>4. CASE Submit(r)
  <2>1. /\ Finish(r) /\ UNCHANGED <<doc, scenario>> /\ job[r].step = "submit"
        /\ refund' = IF Editable THEN [refund EXCEPT !.status = "pending_regional_review"] ELSE refund
    BY <1>4 DEF Submit, At, OnlyRefund
  <2>2. OneSlot => Complete
    BY <2>1 DEF CompleteInv, ReadsAreCurrent
  <2>3. QED BY <2>1, <2>2, StatusKeepsComplete DEF Editable, None
<1>5. CASE Cancel(r) \/ Return(r)
  <2>1. /\ Finish(r) /\ UNCHANGED <<doc, scenario>> /\ job[r].step # "idle"
        /\ \/ refund' = refund
           \/ /\ Editable \/ Pending
              /\ \E to \in {"canceled", "needs_correction"} : refund' = [refund EXCEPT !.status = to]
    BY <1>5 DEF Cancel, Return, At, OnlyRefund
  <2>2. QED BY <2>1, StatusKeepsComplete DEF Editable, Pending, None, Reviewed
<1>6. CASE Approve(r) \/ Pay(r)
  <2>1. /\ Finish(r) /\ UNCHANGED <<doc, scenario>> /\ job[r].step # "idle"
        /\ \/ refund' = refund
           \/ /\ Pending \/ Payable
              /\ \E to : refund' = [refund EXCEPT !.status = to]
    BY <1>6 DEF Approve, Pay, At, StillPayable
  <2>2. OneSlot /\ (Pending \/ Payable) => Complete
    BY DEF CompleteInv, Pending, Payable, Reviewed
  <2>3. QED BY <2>1, <2>2, StatusKeepsComplete DEF Pending, Payable, None
<1>7. CASE EditLegacy(r) \/ Transition(r)
  <2>1. /\ Finish(r) /\ UNCHANGED <<doc, scenario>> /\ job[r].step # "idle" /\ refund' = refund
    BY <1>7 DEF EditLegacy, Transition, At
  <2>2. QED BY <2>1, StatusKeepsComplete
<1>8. QED
  BY <1>1, <1>2, <1>3, <1>4, <1>5, <1>6, <1>7 DEF Write

LEMMA NextKeepsComplete ==
  ASSUME CompleteInv, Next
  PROVE  CompleteInv'
<1>1. ASSUME NEW u \in User, NEW type \in Type, CreateDraft(u, type)
      PROVE  CompleteInv'
  <2>1. /\ refund.status = None /\ refund' = Draft(u, type) /\ UNCHANGED <<job, scenario>>
    BY <1>1 DEF CreateDraft, NoRefund
  <2>2. /\ DOMAIN refund' = RefundFields /\ refund'.status = "draft"
        /\ refund'.calc.result = -1
    BY <2>1 DEF Draft, RefundFields, NoCalc
  <2>3. RowIsShaped' /\ AmountIsComputed' /\ JobsAreShaped' /\ JobsAreInSlots' /\ OneSlot' = OneSlot
    BY <2>1, <2>2 DEF CompleteInv, RowIsShaped, AmountIsComputed, JobsAreShaped, JobsAreInSlots, OneSlot
  <2>4. ASSUME OneSlot PROVE ReadsAreCurrent'
    <3>1. ASSUME NEW r \in Req, job[r].step = "submit" PROVE FALSE
      BY <2>1, <2>4, <3>1 DEF CompleteInv, ReadsAreCurrent
    <3>2. QED BY <2>1, <2>2, <3>1 DEF ReadsAreCurrent, Editable
  <2>5. refund'.status \notin Reviewed
    BY <2>2 DEF Reviewed
  <2>6. QED BY <2>3, <2>4, <2>5 DEF CompleteInv
<1>2. ASSUME UNCHANGED <<refund, doc, scenario, job>>
      PROVE  CompleteInv'
  BY <1>2, RowStays DEF CompleteInv, JobsAreShaped, JobsAreInSlots, ReadsAreCurrent, OneSlot
<1>3. ASSUME NEW r \in Req, NEW u \in User,
             BeginDocument(r, u) \/ BeginForm(r, u)
      PROVE  CompleteInv'
  <2>1. Editable
    BY <1>3 DEF BeginDocument, BeginForm, BeginUpload, BeginRemove, BeginType, BeginRequisites,
                BeginInputs, BeginCalculate, MayEdit
  <2>2. CASE \E f \in File, slot \in SlotName : BeginUpload(r, u, f, slot)
    <3>1. PICK f \in File, slot \in SlotName : BeginUpload(r, u, f, slot)
      BY <2>2
    <3> DEFINE j == [Idle EXCEPT !.step = "store", !.by = u, !.file = f, !.to = slot]
    <3>2. DOMAIN j = JobFields /\ j.step = "store"
      BY DEF Idle, JobFields
    <3>3. Begin(r, "upload", j)
      BY <3>1 DEF BeginUpload
    <3> HIDE DEF j
    <3>4. QED BY <2>1, <3>2, <3>3, BeginKeepsComplete
  <2>3. CASE \/ \E f \in File : BeginRemove(r, u, f)
             \/ \E type \in Type : BeginType(r, u, type)
             \/ BeginForm(r, u)
    <3>1. PICK call, j : /\ Begin(r, call, j) /\ DOMAIN j = JobFields
                         /\ j.step \notin UploadSteps \cup {"submit", "pay", "transition"}
      BY <2>3, PlainBegin
    <3>2. QED BY <2>1, <3>1, BeginKeepsComplete
  <2>4. QED BY <1>3, <2>2, <2>3 DEF BeginDocument
<1>4. ASSUME NEW r \in Req, NEW u \in User, BeginDecision(r, u)
      PROVE  CompleteInv'
  <2>1. PICK step \in {"submit", "cancel", "pay", "approve", "return"} :
          /\ Begin(r, step, [Idle EXCEPT !.step = step, !.by = u])
          /\ step = "cancel" => Editable
          /\ step = "submit" => Editable /\ Ready
    BY <1>4 DEF BeginDecision, BeginSubmit, BeginCancel, BeginPay, BeginReview, MayEdit
  <2>2. Editable /\ Ready => Complete /\ refund.status # None
    BY DEF CompleteInv, RowIsShaped, AmountIsComputed, Editable, Ready, Complete, None
  <2> DEFINE j == [Idle EXCEPT !.step = step, !.by = u]
  <2>3. DOMAIN j = JobFields /\ j.step = step
    BY DEF Idle, JobFields
  <2>4. Begin(r, step, j)
    BY <2>1
  <2> HIDE DEF j
  <2>5. QED BY <2>1, <2>2, <2>3, <2>4, BeginKeepsComplete DEF EditSteps, UploadSteps
<1>5. ASSUME NEW r \in Req, NEW u \in User, BeginLegacy(r, u)
      PROVE  CompleteInv'
  <2>1. ASSUME NEW a, BeginEditLegacy(r, u, a) PROVE CompleteInv'
    <3> DEFINE j == [Idle EXCEPT !.step = "edit old", !.by = u, !.to = a]
    <3>1. DOMAIN j = JobFields /\ j.step = "edit old" /\ Begin(r, "old", j)
      BY <2>1 DEF BeginEditLegacy, Idle, JobFields
    <3> HIDE DEF j
    <3>2. QED BY <3>1, BeginKeepsComplete DEF EditSteps, UploadSteps
  <2>2. ASSUME NEW to, BeginTransition(r, u, to) PROVE CompleteInv'
    <3> DEFINE j == [Idle EXCEPT !.step = "transition", !.by = u, !.to = <<legacy.status, to>>]
    <3>1. DOMAIN j = JobFields /\ j.step = "transition"
      BY DEF Idle, JobFields
    <3>2. Begin(r, "old", j)
      BY <2>2 DEF BeginTransition
    <3> HIDE DEF j
    <3>3. QED BY <3>1, <3>2, BeginKeepsComplete DEF EditSteps, UploadSteps
  <2>3. QED BY <1>5, <2>1, <2>2 DEF BeginLegacy
<1>6. ASSUME NEW r \in Req, Crash(r)
      PROVE  CompleteInv'
  <2>1. Finish(r) /\ UNCHANGED <<refund, doc, scenario>>
    BY <1>6 DEF Crash, business
  <2>2. CASE job[r].step # "idle"
    BY <2>1, <2>2, StatusKeepsComplete
  <2>3. CASE job[r].step = "idle"
    <3>1. /\ JobsAreShaped' /\ job'[r] = Idle /\ \A q \in Req \ {r} : job'[q] = job[q]
      BY <2>1, FinishShaped DEF CompleteInv
    <3>2. JobsAreInSlots' /\ OneSlot' = OneSlot
      BY <2>1, <3>1 DEF CompleteInv, JobsAreInSlots, OneSlot, Idle
    <3>3. ASSUME OneSlot PROVE ReadsAreCurrent'
      BY <2>1, <3>1, <3>3, RowStays DEF CompleteInv, ReadsAreCurrent, Idle, EditSteps, UploadSteps
    <3>4. QED BY <2>1, <3>1, <3>2, <3>3, RowStays DEF CompleteInv
  <2>4. QED BY <2>2, <2>3
<1>7. QED
  BY <1>1, <1>2, <1>3, <1>4, <1>5, <1>6, WriteKeepsComplete DEF Next, SaveLegacy, SetRegional

\* With one request at a time, a refund that left the manager's hands has every
\* document of its type, its requisites and a positive result of exactly the
\* inputs it shows (submitRefundForReview): what the submission read still holds
\* when it is written, and nothing changes it while the refund is reviewed and paid.
THEOREM SubmissionsAreComplete == Spec => []SubmittedIsComplete
<1>1. Init => CompleteInv
  <2>1. SUFFICES ASSUME Init PROVE CompleteInv
    OBVIOUS
  <2>2. JobsAreShaped /\ \A r \in Req : job[r].step = "idle"
    BY <2>1 DEF Init, JobsAreShaped, JobFields, Idle
  <2>3. RowIsShaped /\ AmountIsComputed /\ refund.status \in {None, "draft", "needs_correction"}
    BY <2>1, RowsAssumption DEF Init, RowsAssumption, RowIsShaped, AmountIsComputed, NoRefund, RefundFields
  <2>4. IsFiniteSet(scenario.slots)
    BY <2>1, RowsAssumption DEF Init, RowsAssumption
  <2>5. JobsAreInSlots /\ ReadsAreCurrent
    BY <2>2, <2>4 DEF JobsAreInSlots, ReadsAreCurrent, EditSteps, UploadSteps
  <2>6. refund.status \notin Reviewed
    BY <2>3 DEF Reviewed, None
  <2>7. QED BY <2>2, <2>3, <2>5, <2>6 DEF CompleteInv
<1>2. CompleteInv /\ [Next]_vars => CompleteInv'
  <2>1. SUFFICES ASSUME CompleteInv, [Next]_vars PROVE CompleteInv'
    OBVIOUS
  <2>2. CASE Next
    BY <2>1, <2>2, NextKeepsComplete
  <2>3. CASE UNCHANGED vars
    <3>1. UNCHANGED <<refund, doc, scenario, job>>
      BY <2>3 DEF vars, business
    <3>2. QED BY <2>1, <3>1, RowStays
              DEF CompleteInv, JobsAreShaped, JobsAreInSlots, ReadsAreCurrent, OneSlot
  <2>4. QED BY <2>1, <2>2, <2>3
<1>3. CompleteInv => SubmittedIsComplete
  BY CompleteSuffices
<1>4. QED
  BY <1>1, <1>2, <1>3, PTL DEF Spec
=============================================================================
