-------------------------- MODULE MonacoEditorProofs --------------------------
(***************************************************************************)
(* Proofs about MonacoEditor for every set of paths, texts and requests.    *)
(***************************************************************************)
EXTENDS MonacoEditor, TLAPS

(* Only the load the page starts with is `first', and only before the boot. *)
FirstIsFirst ==
  \A k \in Call : calls[k] # NoCall /\ calls[k].first => boot = "first" /\ k = FirstCall

(* What a load of document p brings.                                        *)
StoredIn(fs, p) == IF fs[p] = Absent THEN Starter ELSE fs[p]

Stored(p) == StoredIn(files, p)

(* A fresh answer has the text that is stored.                              *)
FreshOf(k) ==
  calls[k] # NoCall /\ calls[k].fresh =>
    calls[k].stage = "answered" /\ Stored(calls[k].path) = calls[k].text

FreshIsExact == \A k \in Call : FreshOf(k)

(* A voucher is for what an editor shows of the document.                   *)
Shows(p, text) == Stored(p) \in Text /\ text \in {PlainForm[Stored(p)], MonacoForm[Stored(p)]}

VoucherIsGood == vouchedFor # NoPath => Shows(vouchedFor, savedValue)

IInv == TypeOK /\ FirstIsFirst /\ FreshIsExact /\ VoucherIsGood

USE PathAssumption, TextAssumption

(* The editors hold texts, and the starter program as it is.                *)
LEMMA FormFacts ==
  /\ PlainForm \in [Text -> Text] /\ PlainForm[Starter] = Starter
  /\ MonacoForm \in [Text -> Text] /\ MonacoForm[Starter] = Starter
BY FormAssumption

-----------------------------------------------------------------------------
(* Types *)

LEMMA InitType == Init => TypeOK
BY FormFacts, LateAssumption DEF Init, TypeOK, Content, CallRecord, StatusLine

LEMMA UnderWay ==
  ASSUME TypeOK, NEW k \in Call, calls[k].kind # "none"
  PROVE  calls[k] \in CallRecord
BY DEF TypeOK, NoCall

(* What a write makes of the requests: the ones for the document are stale.  *)
LEMMA StaleFacts ==
  ASSUME TypeOK, NEW p \in Path
  PROVE  /\ Stale(p) \in [Call -> CallRecord \cup {NoCall}]
         /\ \A c \in Call :
              /\ Stale(p)[c] # NoCall <=> calls[c] # NoCall
              /\ calls[c] = NoCall => Stale(p)[c] = NoCall
              /\ calls[c] # NoCall =>
                   /\ Stale(p)[c].first = calls[c].first /\ Stale(p)[c].kind = calls[c].kind
                   /\ Stale(p)[c].fresh => Stale(p)[c] = calls[c] /\ calls[c].path # p
<1> SUFFICES ASSUME NEW c \in Call
             PROVE  /\ Stale(p)[c] \in CallRecord \cup {NoCall}
                    /\ Stale(p)[c] # NoCall <=> calls[c] # NoCall
                    /\ calls[c] = NoCall => Stale(p)[c] = NoCall
                    /\ calls[c] # NoCall =>
                         /\ Stale(p)[c].first = calls[c].first /\ Stale(p)[c].kind = calls[c].kind
                         /\ Stale(p)[c].fresh => Stale(p)[c] = calls[c] /\ calls[c].path # p
  BY DEF Stale
<1>1. CASE calls[c] = NoCall \/ calls[c].path # p
  BY <1>1 DEF Stale, TypeOK
<1>2. CASE calls[c] # NoCall /\ calls[c].path = p
  <2>1. calls[c] \in CallRecord /\ Stale(p)[c] = [calls[c] EXCEPT !.fresh = FALSE]
    BY <1>2 DEF Stale, TypeOK
  <2>2. /\ Stale(p)[c] \in CallRecord /\ Stale(p)[c].first = calls[c].first
        /\ Stale(p)[c].fresh = FALSE /\ Stale(p)[c].kind = calls[c].kind
        /\ Stale(p)[c].kind \in {"load", "save"}
    BY <2>1 DEF CallRecord
  <2> QED
    BY <1>2, <2>2 DEF NoCall
<1> QED
  BY <1>1, <1>2

(* The answer of a load: nothing else changes.                              *)
LEMMA GetEffect ==
  ASSUME TypeOK, NEW k \in Call, HandleDocumentGet(k)
  PROVE  /\ calls' \in [Call -> CallRecord \cup {NoCall}]
         /\ calls[k] # NoCall
         /\ calls'[k].first = calls[k].first /\ calls'[k].path = calls[k].path
         /\ calls'[k].stage = "answered"
         /\ calls'[k] # NoCall /\ calls'[k].kind = calls[k].kind
         /\ calls'[k].fresh => Stored(calls[k].path) = calls'[k].text
         /\ \A c \in Call : c # k => calls'[c] = calls[c]
<1>1. calls[k] \in CallRecord
  BY UnderWay DEF HandleDocumentGet
<1> DEFINE content == files[calls[k].path]
           text(readable) == IF readable /\ content # Absent THEN content ELSE Starter
           answer(readable) == [calls[k] EXCEPT !.stage = "answered", !.text = text(readable),
                                                !.fresh = readable]
<1>2. PICK readable \in BOOLEAN :
        /\ readable /\ content # Absent => content # NotText
        /\ calls' = [calls EXCEPT ![k] = answer(readable)]
  BY <1>1 DEF HandleDocumentGet, TypeOK
<1>3. text(readable) \in Text
  BY <1>1, <1>2 DEF TypeOK, Content, CallRecord
<1> HIDE DEF text
<1>4. answer(readable) \in CallRecord
  BY <1>1, <1>2, <1>3 DEF CallRecord
<1>5. calls'[k] = answer(readable) /\ (\A c \in Call : c # k => calls'[c] = calls[c])
  BY <1>2 DEF TypeOK
<1>6. /\ calls'[k].first = calls[k].first /\ calls'[k].path = calls[k].path
      /\ calls'[k].stage = "answered" /\ calls'[k].fresh = readable
      /\ calls'[k].text = text(readable)
      /\ calls'[k] # NoCall /\ calls'[k].kind = calls[k].kind
  BY <1>1, <1>5 DEF HandleDocumentGet, CallRecord, NoCall
<1>7. text(TRUE) = Stored(calls[k].path)
  BY DEF text, Stored, StoredIn
<1>8. calls' \in [Call -> CallRecord \cup {NoCall}]
  BY <1>2, <1>4 DEF TypeOK
<1>9. calls[k] # NoCall
  BY DEF HandleDocumentGet, NoCall
<1> QED
  BY <1>5, <1>6, <1>7, <1>8, <1>9, Zenon

(* A save that is handled makes its own text what is stored, and every other *)
(* request for the document stale.                                          *)
LEMMA SaveEffect ==
  ASSUME TypeOK, NEW k \in Call, HandleDocumentSave(k)
  PROVE  /\ calls' \in [Call -> CallRecord \cup {NoCall}]
         /\ calls[k] # NoCall /\ calls[k] \in CallRecord
         /\ calls'[k].first = calls[k].first /\ calls'[k].path = calls[k].path
         /\ calls'[k].stage = "answered" /\ calls'[k].text = calls[k].text
         /\ calls'[k] # NoCall /\ calls'[k].kind = calls[k].kind
         /\ files' = [files EXCEPT ![calls[k].path] = calls[k].text]
         /\ \A c \in Call : c # k => calls'[c] = Stale(calls[k].path)[c]
<1>1. calls[k] \in CallRecord /\ calls[k] # NoCall
  BY UnderWay DEF HandleDocumentSave, NoCall
<1> DEFINE p == calls[k].path
           answer == [Stale(p)[k] EXCEPT !.stage = "answered", !.fresh = TRUE]
<1>2. p \in Path
  BY <1>1 DEF CallRecord
<1>3. Stale(p) \in [Call -> CallRecord \cup {NoCall}]
  BY <1>2, StaleFacts
<1>4. Stale(p)[k] = [calls[k] EXCEPT !.fresh = FALSE]
  BY <1>1 DEF Stale
<1>5. calls' = [Stale(p) EXCEPT ![k] = answer]
  BY <1>3 DEF HandleDocumentSave
<1>6. /\ answer \in CallRecord /\ answer.first = calls[k].first /\ answer.path = calls[k].path
      /\ answer.stage = "answered" /\ answer.text = calls[k].text
      /\ answer # NoCall /\ answer.kind = calls[k].kind
  BY <1>1, <1>4 DEF HandleDocumentSave, CallRecord, NoCall
<1> HIDE DEF answer, p
<1>7. /\ calls'[k] = answer /\ calls' \in [Call -> CallRecord \cup {NoCall}]
      /\ \A c \in Call : c # k => calls'[c] = Stale(p)[c]
  BY <1>3, <1>5, <1>6
<1> QED
  BY <1>1, <1>6, <1>7 DEF HandleDocumentSave, p

LEMMA NextType == TypeOK /\ [Next]_vars => TypeOK'
<1> SUFFICES ASSUME TypeOK, [Next]_vars
             PROVE  TypeOK'
  OBVIOUS
<1> USE DEF TypeOK, Content, StatusLine
<1>1. ASSUME NEW k \in Call, HandleDocumentGet(k)
      PROVE  TypeOK'
  BY <1>1, GetEffect DEF HandleDocumentGet
<1>2. ASSUME NEW k \in Call, HandleDocumentSave(k)
      PROVE  TypeOK'
  <2>1. /\ calls' \in [Call -> CallRecord \cup {NoCall}] /\ calls[k] \in CallRecord
        /\ files' = [files EXCEPT ![calls[k].path] = calls[k].text]
    BY <1>2, SaveEffect
  <2>2. files' \in [Path -> Content]
    BY <2>1 DEF CallRecord
  <2> QED
    BY <1>2, <2>1, <2>2 DEF HandleDocumentSave, Written
<1>3. ASSUME NEW k \in Call, LoadReply(k)
      PROVE  TypeOK'
  <2>1. calls[k] \in CallRecord
    BY <1>3 DEF LoadReply, Answered
  <2>2. {plain', monaco', savedValue'} \subseteq Text
    BY <1>3, <2>1, FormFacts DEF LoadReply, CallRecord
  <2>3. path' \in Path /\ vouchedFor' \in Path \cup {NoPath}
    BY <1>3, <2>1 DEF LoadReply, CallRecord
  <2> QED
    BY <1>3, <2>2, <2>3 DEF LoadReply, BootMonaco
<1>4. ASSUME NEW k \in Call, SaveReply(k)
      PROVE  TypeOK'
  BY <1>4 DEF SaveReply, Answered, CurrentValue, CallRecord
<1>5. ASSUME NEW k \in Call, Fail(k)
      PROVE  TypeOK'
  <2>1. late' \in [Path -> 0..MaxLate]
    <3>1. CASE UNCHANGED late
      BY <3>1
    <3>2. CASE /\ late[calls[k].path] < MaxLate
               /\ late' = [late EXCEPT ![calls[k].path] = @ + 1]
      <4>1. calls[k].path \in Path
        BY <1>5 DEF Fail, CallRecord
      <4>2. late[calls[k].path] + 1 \in 0..MaxLate
        BY <3>2, <4>1, LateAssumption
      <4> QED
        BY <3>2, <4>2
    <3> QED
      BY <1>5, <3>1, <3>2 DEF Fail
  <2> QED
    BY <1>5, <2>1 DEF Fail, BootMonaco
<1>6. ASSUME NEW p \in Path, LateWrite(p)
      PROVE  TypeOK'
  <2>1. late' \in [Path -> 0..MaxLate]
    <3>1. late[p] - 1 \in 0..MaxLate
      BY <1>6, LateAssumption DEF LateWrite
    <3> QED
      BY <1>6, <3>1 DEF LateWrite
  <2>2. files' \in [Path -> Content] /\ calls' \in [Call -> CallRecord \cup {NoCall}]
    BY <1>6, StaleFacts DEF LateWrite
  <2> QED
    BY <1>6, <2>1, <2>2 DEF LateWrite, Written
<1>7. ASSUME Loader
      PROVE  TypeOK'
  BY <1>7, FormFacts DEF Loader, UpgradeToMonaco, MonacoFails
<1>8. ASSUME NEW k \in Call, Load(k) \/ Save(k)
      PROVE  TypeOK'
  <2>1. /\ Request("load", Starter) \in CallRecord
        /\ Request("save", CurrentValue) \in CallRecord
    BY DEF Request, CurrentValue, CallRecord
  <2> QED
    BY <1>8, <2>1 DEF Load, Save
<1>9. ASSUME NEW text \in Text, Type(text)
      PROVE  TypeOK'
  BY <1>9 DEF Type
<1>10. ASSUME NEW p \in Path, EnterPath(p)
       PROVE  TypeOK'
  BY <1>10 DEF EnterPath
<1>11. CASE UNCHANGED vars
  BY <1>11 DEF vars
<1> QED
  BY <1>1, <1>2, <1>3, <1>4, <1>5, <1>6, <1>7, <1>8, <1>9, <1>10, <1>11
  DEF Next, Served, User

-----------------------------------------------------------------------------
(* The inductive invariant *)

LEMMA InitInv == Init => IInv
<1> SUFFICES ASSUME Init
             PROVE  IInv
  OBVIOUS
<1>1. TypeOK
  BY InitType
<1>2. FirstIsFirst /\ FreshIsExact /\ VoucherIsGood
  BY DEF Init, FirstIsFirst, FreshIsExact, FreshOf, VoucherIsGood
<1> QED
  BY <1>1, <1>2 DEF IInv

(* A step that only loses requests, and touches no file.                    *)
LEMMA FewerCalls ==
  ASSUME IInv, files' = files, NEW k \in Call, calls' = [calls EXCEPT ![k] = NoCall]
  PROVE  /\ FreshIsExact'
         /\ \A c \in Call : calls'[c] # NoCall => c # k /\ calls'[c] = calls[c]
BY DEF IInv, TypeOK, FreshIsExact, FreshOf, Stored, StoredIn

LEMMA NextInv == IInv /\ [Next]_vars => IInv'
<1> SUFFICES ASSUME IInv, [Next]_vars
             PROVE  IInv'
  OBVIOUS
<1> DEFINE Rest == FirstIsFirst /\ FreshIsExact /\ VoucherIsGood
<1>0. TypeOK /\ TypeOK' /\ Rest
  BY NextType DEF IInv
<1>1. ASSUME NEW k \in Call, HandleDocumentGet(k)
      PROVE  Rest'
  <2>1. UNCHANGED <<files, boot, vouchedFor, savedValue>>
    BY <1>1 DEF HandleDocumentGet
  <2>2. FirstIsFirst'
    BY <1>0, <1>1, <2>1, GetEffect DEF FirstIsFirst
  <2>3. FreshIsExact'
    BY <1>0, <1>1, <2>1, GetEffect DEF FreshIsExact, FreshOf, Stored, StoredIn
  <2>4. VoucherIsGood'
    BY <1>0, <2>1 DEF VoucherIsGood, Shows, Stored, StoredIn
  <2> QED
    BY <2>2, <2>3, <2>4
<1>2. ASSUME NEW k \in Call, HandleDocumentSave(k)
      PROVE  Rest'
  <2> DEFINE p == calls[k].path
  <2>1. /\ UNCHANGED <<boot, savedValue>> /\ p \in Path /\ calls[k].text \in Text
        /\ files' = [files EXCEPT ![p] = calls[k].text]
        /\ vouchedFor' = IF vouchedFor = p THEN NoPath ELSE vouchedFor
    BY <1>0, <1>2, SaveEffect DEF HandleDocumentSave, Written, CallRecord
  <2>2. FirstIsFirst'
    <3> SUFFICES ASSUME NEW c \in Call, calls'[c] # NoCall, calls'[c].first
                 PROVE  boot = "first" /\ c = FirstCall
      BY <2>1 DEF FirstIsFirst
    <3>1. c # k => calls[c] # NoCall /\ calls[c].first
      <4> HAVE c # k
      <4>1. calls'[c] = Stale(p)[c]
        BY <1>0, <1>2, SaveEffect
      <4>2. Stale(p)[c] # NoCall /\ Stale(p)[c].first
        BY <4>1
      <4>3. calls[c] # NoCall /\ Stale(p)[c].first = calls[c].first
        BY <1>0, <2>1, <4>2, StaleFacts
      <4> QED
        BY <4>2, <4>3
    <3>2. c = k => calls[c] # NoCall /\ calls[c].first
      BY <1>0, <1>2, SaveEffect
    <3> QED
      BY <1>0, <3>1, <3>2 DEF FirstIsFirst
  <2>3. FreshIsExact'
    <3> SUFFICES ASSUME NEW c \in Call, calls'[c] # NoCall, calls'[c].fresh
                 PROVE  calls'[c].stage = "answered" /\ StoredIn(files', calls'[c].path) = calls'[c].text
      BY DEF FreshIsExact, FreshOf, Stored
    <3>1. CASE c = k
      BY <1>0, <1>2, <2>1, <3>1, SaveEffect DEF StoredIn, TypeOK, CallRecord
    <3>2. CASE c # k
      <4>1. calls'[c] = Stale(p)[c]
        BY <1>0, <1>2, <3>2, SaveEffect
      <4>2. calls'[c] = calls[c] /\ calls[c].path # p /\ calls[c] # NoCall
        BY <1>0, <2>1, <4>1, StaleFacts
      <4>3. calls[c].stage = "answered" /\ Stored(calls[c].path) = calls[c].text
        BY <1>0, <4>2 DEF FreshIsExact, FreshOf
      <4>4. files'[calls[c].path] = files[calls[c].path]
        BY <2>1, <4>2 DEF CallRecord, TypeOK
      <4> QED
        BY <4>2, <4>3, <4>4 DEF Stored, StoredIn
    <3> QED
      BY <3>1, <3>2
  <2>4. VoucherIsGood'
    BY <1>0, <2>1 DEF VoucherIsGood, Shows, Stored, StoredIn, TypeOK
  <2> QED
    BY <2>2, <2>3, <2>4
<1>3. ASSUME NEW p \in Path, LateWrite(p)
      PROVE  Rest'
  <2>1. /\ UNCHANGED <<boot, savedValue>> /\ calls' = Stale(p)
        /\ \A q \in Path : q # p => files'[q] = files[q]
        /\ vouchedFor' = IF vouchedFor = p THEN NoPath ELSE vouchedFor
    BY <1>0, <1>3 DEF LateWrite, Written, TypeOK
  <2>2. FirstIsFirst'
    BY <1>0, <2>1, StaleFacts DEF FirstIsFirst
  <2>3. FreshIsExact'
    <3> SUFFICES ASSUME NEW c \in Call, calls'[c] # NoCall, calls'[c].fresh
                 PROVE  calls'[c].stage = "answered" /\ StoredIn(files', calls'[c].path) = calls'[c].text
      BY DEF FreshIsExact, FreshOf, Stored
    <3>1. calls'[c] = calls[c] /\ calls[c].path # p /\ calls[c] # NoCall
      BY <1>0, <2>1, StaleFacts
    <3>2. calls[c].stage = "answered" /\ Stored(calls[c].path) = calls[c].text
      BY <1>0, <3>1 DEF FreshIsExact, FreshOf
    <3>3. calls[c].path \in Path
      BY <1>0, <3>1 DEF TypeOK, CallRecord
    <3> QED
      BY <2>1, <3>1, <3>2, <3>3 DEF Stored, StoredIn
  <2>4. VoucherIsGood'
    BY <1>0, <2>1 DEF VoucherIsGood, Shows, Stored, StoredIn, TypeOK
  <2> QED
    BY <2>2, <2>3, <2>4
<1>4. ASSUME NEW k \in Call, LoadReply(k)
      PROVE  Rest'
  <2>1. /\ calls' = [calls EXCEPT ![k] = NoCall] /\ files' = files
        /\ calls[k] # NoCall /\ calls[k] \in CallRecord
    BY <1>0, <1>4 DEF LoadReply, Answered, TypeOK
  <2>2. FirstIsFirst'
    BY <1>0, <1>4, <2>1, FewerCalls DEF FirstIsFirst, LoadReply, BootMonaco
  <2>3. FreshIsExact'
    BY <2>1, FewerCalls
  <2>4. ASSUME vouchedFor' # NoPath
        PROVE  Shows(vouchedFor, savedValue)'
    <3>1. vouchedFor' = calls[k].path /\ Stored(calls[k].path) = calls[k].text
      BY <1>0, <1>4, <2>1, <2>4 DEF LoadReply, FreshIsExact, FreshOf
    <3>2. savedValue' = Shown(calls[k].text)
      BY <1>4 DEF LoadReply, Shown
    <3> QED
      BY <2>1, <3>1, <3>2 DEF Shows, Stored, StoredIn, Shown, CallRecord
  <2> QED
    BY <2>2, <2>3, <2>4 DEF VoucherIsGood
<1>5. ASSUME NEW k \in Call, SaveReply(k)
      PROVE  Rest'
  <2>1. /\ calls' = [calls EXCEPT ![k] = NoCall] /\ files' = files /\ boot' = boot
        /\ calls[k] # NoCall /\ calls[k] \in CallRecord
    BY <1>0, <1>5 DEF SaveReply, Answered, TypeOK
  <2>2. FirstIsFirst'
    BY <1>0, <2>1, FewerCalls DEF FirstIsFirst
  <2>3. FreshIsExact'
    BY <2>1, FewerCalls
  <2>4. ASSUME vouchedFor' # NoPath
        PROVE  Shows(vouchedFor, savedValue)'
    <3>1. /\ vouchedFor' = calls[k].path /\ Stored(calls[k].path) = calls[k].text
          /\ savedValue' = Shown(calls[k].text)
      BY <1>0, <1>5, <2>1, <2>4 DEF SaveReply, FreshIsExact, FreshOf
    <3> QED
      BY <2>1, <3>1 DEF Shows, Stored, StoredIn, Shown, CallRecord
  <2> QED
    BY <2>2, <2>3, <2>4 DEF VoucherIsGood
<1>6. ASSUME NEW k \in Call, Fail(k)
      PROVE  Rest'
  <2>1. /\ calls' = [calls EXCEPT ![k] = NoCall] /\ calls[k] # NoCall
        /\ UNCHANGED <<files, vouchedFor, savedValue>>
    BY <1>6 DEF Fail
  <2>2. FirstIsFirst'
    BY <1>0, <1>6, <2>1, FewerCalls DEF FirstIsFirst, Fail, BootMonaco
  <2>3. FreshIsExact'
    BY <2>1, FewerCalls
  <2>4. VoucherIsGood'
    BY <1>0, <2>1 DEF VoucherIsGood, Shows, Stored, StoredIn
  <2> QED
    BY <2>2, <2>3, <2>4
<1>7. ASSUME NEW k \in Call, Load(k) \/ Save(k)
      PROVE  Rest'
  <2>1. PICK r \in {Request("load", Starter), Request("save", CurrentValue)} :
           calls' = [calls EXCEPT ![k] = r]
    BY <1>7 DEF Load, Save
  <2>5. ~r.first /\ ~r.fresh /\ UNCHANGED <<files, boot, vouchedFor, savedValue>>
    BY <1>7 DEF Load, Save, Request
  <2>2. FirstIsFirst'
    BY <1>0, <2>1, <2>5 DEF FirstIsFirst, TypeOK
  <2>3. FreshIsExact'
    BY <1>0, <2>1, <2>5 DEF FreshIsExact, FreshOf, Stored, TypeOK
  <2>4. VoucherIsGood'
    BY <1>0, <2>1, <2>5 DEF VoucherIsGood, Shows, Stored, StoredIn
  <2> QED
    BY <2>2, <2>3, <2>4
<1>8. CASE Loader
  <2>1. UNCHANGED <<files, calls, vouchedFor, savedValue>> /\ boot # "first"
    BY <1>8 DEF Loader, UpgradeToMonaco, MonacoFails
  <2>2. FirstIsFirst'
    BY <1>0, <2>1 DEF FirstIsFirst
  <2>3. FreshIsExact'
    BY <1>0, <2>1 DEF FreshIsExact, FreshOf, Stored
  <2>4. VoucherIsGood'
    BY <1>0, <2>1 DEF VoucherIsGood, Shows, Stored
  <2> QED
    BY <1>0, <2>2, <2>3, <2>4 DEF IInv
<1>9. CASE (\E text \in Text : Type(text)) \/ (\E p \in Path : EnterPath(p)) \/ UNCHANGED vars
  <2>1. UNCHANGED <<files, calls, vouchedFor, savedValue, boot>>
    BY <1>9 DEF Type, EnterPath, vars
  <2>2. FirstIsFirst'
    BY <1>0, <2>1 DEF FirstIsFirst
  <2>3. FreshIsExact'
    BY <1>0, <2>1 DEF FreshIsExact, FreshOf, Stored
  <2>4. VoucherIsGood'
    BY <1>0, <2>1 DEF VoucherIsGood, Shows, Stored
  <2> QED
    BY <1>0, <2>2, <2>3, <2>4 DEF IInv
<1> QED
  BY <1>0, <1>1, <1>2, <1>3, <1>4, <1>5, <1>6, <1>7, <1>8, <1>9
  DEF IInv, Next, Served, User

-----------------------------------------------------------------------------
(* What the page waits for *)

(* The first request is a load.                                             *)
FirstLoads == \A k \in Call : calls[k] # NoCall /\ calls[k].first => calls[k].kind = "load"

Boots == NothingHangs /\ FirstLoads

(* The end of request k hangs nothing if the boot goes on with the first one. *)
LEMMA EndedWell ==
  ASSUME TypeOK, Boots, NEW k \in Call, calls' = [calls EXCEPT ![k] = NoCall],
         calls[k] # NoCall, boot' = "first" => boot = "first" /\ ~calls[k].first,
         status' = "news"
  PROVE  Boots'
<1>4. FirstLoads'
  BY DEF Boots, FirstLoads, TypeOK
<1> SUFFICES ASSUME boot' = "first"
             PROVE  \E c \in Pending' : calls'[c].first
  BY <1>4 DEF Boots, NothingHangs
<1>1. PICK c \in Call : calls[c] # NoCall /\ calls[c].first
  BY DEF Boots, FirstLoads, NothingHangs, Pending
<1>2. c # k
  BY <1>1
<1>3. calls'[c] = calls[c]
  BY <1>2 DEF TypeOK
<1> QED
  BY <1>1, <1>3 DEF Pending

(* Request c stays under way, or stays away.                                *)
Kept(c) ==
  /\ calls'[c] # NoCall <=> calls[c] # NoCall
  /\ calls[c] # NoCall => calls'[c].first = calls[c].first /\ calls'[c].kind = calls[c].kind

(* Requests that stay under way, the first one as well, hang nothing.       *)
LEMMA GoesOn ==
  ASSUME Boots, boot' = boot, status' = status,
         \A c \in Call : Kept(c)
  PROVE  Boots'
BY DEF Boots, FirstLoads, NothingHangs, Pending, Kept

LEMMA NextHangs == TypeOK /\ Boots /\ [Next]_vars => Boots'
<1> SUFFICES ASSUME TypeOK, Boots, [Next]_vars
             PROVE  Boots'
  OBVIOUS
<1>1. ASSUME NEW k \in Call, HandleDocumentGet(k)
      PROVE  Boots'
  <2>1. \A c \in Call : Kept(c)
    BY <1>1, GetEffect DEF Kept
  <2> QED
    BY <1>1, <2>1, GoesOn DEF HandleDocumentGet
<1>2. ASSUME NEW k \in Call, HandleDocumentSave(k)
      PROVE  Boots'
  <2>1. calls[k].path \in Path
    BY <1>2, SaveEffect DEF CallRecord
  <2>2. \A c \in Call : Kept(c)
    BY <1>2, <2>1, SaveEffect, StaleFacts DEF Kept
  <2> QED
    BY <1>2, <2>2, GoesOn DEF HandleDocumentSave
<1>3. ASSUME NEW k \in Call, LoadReply(k) \/ Fail(k)
      PROVE  Boots'
  <2>1. /\ calls' = [calls EXCEPT ![k] = NoCall] /\ calls[k] # NoCall
        /\ BootMonaco(calls[k].first)
    BY <1>3 DEF LoadReply, Fail, Answered
  <2>2. calls[k].first \in BOOLEAN
    BY <2>1 DEF TypeOK, CallRecord
  <2>3. status' = "news" /\ (boot' = "first" => boot = "first" /\ ~calls[k].first)
    BY <2>1, <2>2 DEF BootMonaco
  <2> QED
    BY <2>1, <2>3, EndedWell
<1>4. ASSUME NEW k \in Call, SaveReply(k)
      PROVE  Boots'
  <2>1. ~calls[k].first
    BY <1>4 DEF SaveReply, Answered, Boots, FirstLoads
  <2> QED
    BY <1>4, <2>1, EndedWell DEF SaveReply, Answered
<1>5. ASSUME NEW p \in Path, LateWrite(p)
      PROVE  Boots'
  <2>1. \A c \in Call : Kept(c)
    BY <1>5, StaleFacts DEF LateWrite, Kept
  <2> QED
    BY <1>5, <2>1, GoesOn DEF LateWrite
<1>6. CASE Loader
  BY <1>6 DEF Loader, UpgradeToMonaco, MonacoFails, Boots, FirstLoads, NothingHangs
<1>7. ASSUME NEW k \in Call, Load(k) \/ Save(k)
      PROVE  Boots'
  <2>1. PICK r \in {Request("load", Starter), Request("save", CurrentValue)} :
           calls' = [calls EXCEPT ![k] = r]
    BY <1>7 DEF Load, Save
  <2>2. calls[k] = NoCall /\ boot' = boot
    BY <1>7 DEF Load, Save
  <2>3. calls'[k] # NoCall /\ ~calls'[k].first /\ \A c \in Call : c # k => calls'[c] = calls[c]
    BY <2>1 DEF TypeOK, Request, NoCall
  <2> QED
    BY <2>2, <2>3 DEF Boots, FirstLoads, NothingHangs, Pending
<1>8. CASE (\E text \in Text : Type(text)) \/ (\E p \in Path : EnterPath(p)) \/ UNCHANGED vars
  BY <1>8 DEF Type, EnterPath, vars, Boots, FirstLoads, NothingHangs, Pending
<1> QED
  BY <1>1, <1>2, <1>3, <1>4, <1>5, <1>6, <1>7, <1>8 DEF Next, Served, User

-----------------------------------------------------------------------------
(* The theorems *)

(* The inductive invariant holds in every reachable state.                  *)
THEOREM Invariance == Spec => []IInv
BY InitInv, NextInv, PTL DEF Spec

(* The page, its requests and the files are well formed.                    *)
THEOREM TypeCorrect == Spec => []TypeOK
<1>1. IInv => TypeOK
  BY DEF IInv
<1> QED
  BY <1>1, Invariance, PTL

(* What the page takes for saved is what an editor shows of the file, for    *)
(* any number of requests under way, until the file is written again; text   *)
(* that is edited while a save is under way is the one thing it gets wrong.  *)
THEOREM SavedStored == Spec => []SavedIsStored
<1>1. IInv => SavedIsStored
  BY DEF IInv, VoucherIsGood, Shows, Stored, StoredIn, SavedIsStored
<1> QED
  BY <1>1, Invariance, PTL

(* The boot waits for the first load only, and the status line for a request *)
(* that is under way, whatever fails.                                       *)
THEOREM NoHang == Spec => []NothingHangs
<1>1. Init => Boots
  <2> SUFFICES ASSUME Init
               PROVE  Boots
    OBVIOUS
  <2>1. FirstCall \in Call
    BY CallAssumption DEF FirstCall
  <2>2. calls[FirstCall] # NoCall /\ calls[FirstCall].first
    BY <2>1 DEF Init, NoCall
  <2> QED
    BY <2>1, <2>2 DEF Boots, FirstLoads, NothingHangs, Pending, Init, NoCall
<1>2. Boots => NothingHangs
  BY DEF Boots
<1> QED
  BY <1>1, <1>2, TypeCorrect, NextHangs, PTL DEF Spec

(* The change of editors keeps the text that is on the screen.              *)
THEOREM UpgradeKeeps == Spec => UpgradeKeepsText
<1>1. IInv /\ [Next]_vars
        => [boot' # boot /\ boot # "first"
              => CurrentValue' = IF boot' = "monaco" THEN MonacoForm[CurrentValue]
                                                     ELSE CurrentValue]_vars
  <2> SUFFICES ASSUME IInv, [Next]_vars, boot' # boot, boot # "first"
               PROVE  CurrentValue' = IF boot' = "monaco" THEN MonacoForm[CurrentValue]
                                                          ELSE CurrentValue
    OBVIOUS
  <2>1. ASSUME NEW k \in Call, calls[k] # NoCall
        PROVE  ~calls[k].first
    BY <2>1 DEF IInv, FirstIsFirst
  <2>2. ASSUME NEW k \in Call, Served(k)
        PROVE  FALSE
    BY <2>1, <2>2 DEF Served, HandleDocumentGet, HandleDocumentSave, LoadReply,
       SaveReply, Fail, Answered, BootMonaco
  <2>3. CASE Loader
    BY <2>3 DEF Loader, UpgradeToMonaco, MonacoFails, CurrentValue
  <2>4. CASE User \/ (\E p \in Path : LateWrite(p)) \/ UNCHANGED vars
    BY <2>4 DEF User, Load, Save, Type, EnterPath, LateWrite, vars
  <2> QED
    BY <2>2, <2>3, <2>4 DEF Next
<1> QED
  BY <1>1, Invariance, PTL DEF Spec, UpgradeKeepsText
===============================================================================
