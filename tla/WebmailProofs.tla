----------------------------- MODULE WebmailProofs -----------------------------
(***************************************************************************)
(* Proofs about Webmail for every set of messages, loads and jobs.          *)
(***************************************************************************)
EXTENDS Webmail, TLAPS

(* Where a job is tells whether the backend has its mail: it has not before *)
(* it took it and has once it did, and the queue shows no more than that.   *)
JobOK(j) ==
  /\ jobs[j] = NoJob => j \notin accepted
  /\ jobs[j].at \in {"sent", "refused"} => j \notin accepted
  /\ jobs[j].at \in {"sent", "taken", "refused"} => jobs[j].status = "running"
  /\ jobs[j].at \in {"taken", "listing", "listed"} => j \in accepted
  /\ jobs[j].at \in {"listing", "listed"} => jobs[j].status \in {"succeeded", "cleared"}
  /\ jobs[j].at = "through" => jobs[j].status \in {"succeeded", "failed"}
JobsOK == \A j \in Job : JobOK(j)

IInv == TypeOK /\ DetailIsOfSelection /\ JobsOK /\ JobIsHonest

USE NoneAssumption

-----------------------------------------------------------------------------
(* Types *)

LEMMA InitType == Init => TypeOK
BY DEF Init, TypeOK, NoLoad, NoJob

(* A load that was begun is a LoadRecord, a job that was begun a JobRecord. *)
LEMMA BegunLoad ==
  ASSUME TypeOK, NEW k \in Load, loads[k] # NoLoad
  PROVE  loads[k] \in LoadRecord
BY DEF TypeOK

LEMMA Relisted ==
  ASSUME NEW load \in LoadRecord, NEW snap \in SUBSET Message,
         NEW list \in {"sent", "answered", "ok", "failed"}
  PROVE  /\ load.snap \in SUBSET Message
         /\ [load EXCEPT !.list = list, !.snap = snap] \in LoadRecord
BY DEF LoadRecord

LEMMA BegunJob ==
  ASSUME TypeOK, NEW j \in Job, jobs[j] # NoJob
  PROVE  jobs[j] \in JobRecord
BY DEF TypeOK

LEMMA PartInType ==
  ASSUME TypeOK, NEW k \in Load, NEW load \in LoadRecord, NEW msgs \in SUBSET Message,
         PartIn(k, load, msgs)
  PROVE  loads' \in [Load -> LoadRecord \cup {NoLoad}] /\ rows' \subseteq Message
BY DEF PartIn, TypeOK

LEMMA ShowListType ==
  ASSUME TypeOK, NEW snap \in SUBSET Message, ShowList(snap)
  PROVE  /\ messages' \subseteq Message /\ reads' \subseteq Message
         /\ {selectedId', shown'} \subseteq Message \cup {None} /\ lateRead' \in BOOLEAN
BY DEF ShowList, TypeOK

LEMMA EndJobType ==
  ASSUME TypeOK, NEW j \in Job, NEW status \in {"succeeded", "failed"}, EndJob(j, status)
  PROVE  jobs' \in [Job -> JobRecord \cup {NoJob}] /\ accepted' \subseteq Job
<1>1. [status |-> status, at |-> "through", snap |-> {}] \in JobRecord
  BY DEF JobRecord
<1> QED
  BY <1>1 DEF EndJob, TypeOK

LEMMA NextType == TypeOK /\ [Next]_vars => TypeOK'
<1> SUFFICES ASSUME TypeOK, [Next]_vars
             PROVE  TypeOK'
  OBVIOUS
<1>0. mailbox \in SUBSET Message /\ {} \in SUBSET Message
  BY DEF TypeOK
<1> USE <1>0 DEF TypeOK, backend, detail, inbox
<1>1. ASSUME MailboxChanges \/ Redraw
      PROVE  TypeOK'
  BY <1>1 DEF MailboxChanges, Redraw
<1>2. ASSUME NEW k \in Load, LoadAll(k)
      PROVE  TypeOK'
  BY <1>2 DEF LoadAll, LoadRecord
<1>3. ASSUME NEW k \in Load, HandleList(k)
      PROVE  TypeOK'
  <2>1. [loads[k] EXCEPT !.list = "answered", !.snap = mailbox] \in LoadRecord
    <3>1. loads[k] \in LoadRecord
      BY <1>3, BegunLoad DEF HandleList, NoLoad
    <3> QED
      BY <1>0, <3>1, Relisted
  <2>2. loads' = [loads EXCEPT ![k] = [loads[k] EXCEPT !.list = "answered", !.snap = mailbox]]
    BY <1>3 DEF HandleList
  <2> QED
    BY <1>3, <2>1, <2>2 DEF HandleList
<1>4. ASSUME NEW k \in Load, ListArrives(k)
      PROVE  TypeOK'
  <2>1. /\ loads[k].snap \subseteq Message
        /\ [loads[k] EXCEPT !.list = "ok", !.snap = {}] \in LoadRecord
    <3>1. loads[k] \in LoadRecord
      BY <1>4, BegunLoad DEF ListArrives, NoLoad
    <3> QED
      BY <1>0, <3>1, Relisted
  <2>2. /\ messages' \subseteq Message /\ reads' \subseteq Message
        /\ {selectedId', shown'} \subseteq Message \cup {None} /\ lateRead' \in BOOLEAN
    BY <1>4, <2>1, ShowListType DEF ListArrives
  <2>3. loads' \in [Load -> LoadRecord \cup {NoLoad}] /\ rows' \subseteq Message
    BY <1>4, <2>1, <2>2, PartInType DEF ListArrives
  <2> QED
    BY <1>4, <2>2, <2>3 DEF ListArrives
<1>5. ASSUME NEW k \in Load, ListFails(k)
      PROVE  TypeOK'
  <2>1. [loads[k] EXCEPT !.list = "failed", !.snap = {}] \in LoadRecord
    <3>1. loads[k] \in LoadRecord
      BY <1>5, BegunLoad DEF ListFails, NoLoad
    <3> QED
      BY <1>0, <3>1, Relisted
  <2>2. loads' \in [Load -> LoadRecord \cup {NoLoad}] /\ rows' \subseteq Message
    BY <1>5, <2>1, PartInType DEF ListFails
  <2> QED
    BY <1>5, <2>2 DEF ListFails
<1>6. ASSUME NEW k \in Load, OthersEnd(k)
      PROVE  TypeOK'
  <2>1. PICK outcome \in {"ok", "failed"} :
          PartIn(k, [loads[k] EXCEPT !.others = outcome], messages)
    BY <1>6 DEF OthersEnd
  <2>2. [loads[k] EXCEPT !.others = outcome] \in LoadRecord
    BY <1>6, BegunLoad DEF OthersEnd, NoLoad, LoadRecord
  <2>3. loads' \in [Load -> LoadRecord \cup {NoLoad}] /\ rows' \subseteq Message
    BY <2>1, <2>2, PartInType
  <2> QED
    BY <1>6, <2>3 DEF OthersEnd
<1>7. ASSUME NEW m \in Message, ReadMessage(m)
      PROVE  TypeOK'
  BY <1>7 DEF ReadMessage
<1>8. ASSUME NEW m \in Message, ReadArrives(m) \/ ReadFails(m)
      PROVE  TypeOK'
  BY <1>8 DEF ReadArrives, ReadFails
<1>9. ASSUME NEW j \in Job, SendMessage(j)
      PROVE  TypeOK'
  BY <1>9 DEF SendMessage, JobRecord
<1>10. ASSUME NEW j \in Job, HandleSend(j) \/ SendSucceeds(j) \/ HandleJobList(j)
       PROVE  TypeOK'
  <2>1. jobs[j] \in JobRecord
    BY <1>10, BegunJob DEF HandleSend, SendSucceeds, HandleJobList, NoJob
  <2>2. jobs' \in [Job -> JobRecord \cup {NoJob}]
    BY <1>10, <2>1 DEF HandleSend, SendSucceeds, HandleJobList, JobRecord
  <2> QED
    BY <1>10, <2>2 DEF HandleSend, SendSucceeds, HandleJobList
<1>11. ASSUME NEW j \in Job, SendFails(j)
       PROVE  TypeOK'
  <2>1. jobs' \in [Job -> JobRecord \cup {NoJob}] /\ accepted' \subseteq Job
    BY <1>11, EndJobType DEF SendFails
  <2> QED
    BY <1>11, <2>1 DEF SendFails
<1>12. ASSUME NEW j \in Job, JobListArrives(j)
       PROVE  TypeOK'
  <2>1. jobs[j].snap \subseteq Message
    BY <1>12, BegunJob DEF JobListArrives, NoJob, JobRecord
  <2>2. /\ messages' \subseteq Message /\ reads' \subseteq Message
        /\ {selectedId', shown'} \subseteq Message \cup {None} /\ lateRead' \in BOOLEAN
    BY <1>12, <2>1, ShowListType DEF JobListArrives
  <2>3. jobs' \in [Job -> JobRecord \cup {NoJob}] /\ accepted' \subseteq Job
    BY <1>12, EndJobType DEF JobListArrives
  <2> QED
    BY <1>12, <2>2, <2>3 DEF JobListArrives
<1>13. CASE ClearQueue
  <2>1. jobs' \in [Job -> JobRecord \cup {NoJob}]
    <3>1. ASSUME NEW j \in Job, jobs[j].status = "succeeded"
          PROVE  [jobs[j] EXCEPT !.status = "cleared"] \in JobRecord
      BY <3>1, BegunJob DEF NoJob, JobRecord
    <3> QED
      BY <1>13, <3>1 DEF ClearQueue
  <2> QED
    BY <1>13, <2>1 DEF ClearQueue
<1>14. CASE UNCHANGED vars
  BY <1>14 DEF vars
<1> QED
  BY <1>1, <1>2, <1>3, <1>4, <1>5, <1>6, <1>7, <1>8, <1>9, <1>10, <1>11, <1>12,
     <1>13, <1>14
  DEF Next, Loading, Reading, Sending

-----------------------------------------------------------------------------
(* The inductive invariant *)

LEMMA InitInv == Init => IInv
<1> SUFFICES ASSUME Init
             PROVE  IInv
  OBVIOUS
<1>1. TypeOK
  BY InitType
<1>2. DetailIsOfSelection
  BY DEF Init, DetailIsOfSelection
<1>3. JobsOK /\ JobIsHonest
  BY DEF Init, JobsOK, JobOK, JobIsHonest, NoJob
<1> QED
  BY <1>1, <1>2, <1>3 DEF IInv

(* The list replaces what is shown only together with the selection.        *)
LEMMA ShowListDetail ==
  ASSUME TypeOK, DetailIsOfSelection, NEW snap, ShowList(snap)
  PROVE  DetailIsOfSelection'
BY DEF TypeOK, DetailIsOfSelection, ShowList

LEMMA NextDetail ==
  TypeOK /\ DetailIsOfSelection /\ [Next]_vars => DetailIsOfSelection'
<1> SUFFICES ASSUME TypeOK, DetailIsOfSelection, [Next]_vars
             PROVE  DetailIsOfSelection'
  OBVIOUS
<1>1. ASSUME NEW k \in Load, ListArrives(k)
      PROVE  DetailIsOfSelection'
  BY <1>1, ShowListDetail DEF ListArrives
<1>2. ASSUME NEW j \in Job, JobListArrives(j)
      PROVE  DetailIsOfSelection'
  BY <1>2, ShowListDetail DEF JobListArrives
<1>3. ASSUME NEW m \in Message, ReadMessage(m) \/ ReadArrives(m)
      PROVE  DetailIsOfSelection'
  BY <1>3 DEF ReadMessage, ReadArrives, DetailIsOfSelection
<1>4. ASSUME UNCHANGED <<selectedId, shown, lateRead>>
      PROVE  DetailIsOfSelection'
  BY <1>4 DEF DetailIsOfSelection
<1>5. ASSUME NEW k \in Load, LoadAll(k) \/ HandleList(k) \/ ListFails(k) \/ OthersEnd(k)
      PROVE  UNCHANGED <<selectedId, shown, lateRead>>
  BY <1>5 DEF LoadAll, HandleList, ListFails, OthersEnd, detail
<1>6. ASSUME NEW m \in Message, ReadFails(m)
      PROVE  UNCHANGED <<selectedId, shown, lateRead>>
  BY <1>6 DEF ReadFails
<1>7. ASSUME NEW j \in Job,
             SendMessage(j) \/ HandleSend(j) \/ SendSucceeds(j) \/ SendFails(j) \/ HandleJobList(j)
      PROVE  UNCHANGED <<selectedId, shown, lateRead>>
  BY <1>7 DEF SendMessage, HandleSend, SendSucceeds, SendFails, HandleJobList, detail
<1>8. ASSUME MailboxChanges \/ ClearQueue \/ Redraw \/ UNCHANGED vars
      PROVE  UNCHANGED <<selectedId, shown, lateRead>>
  BY <1>8 DEF MailboxChanges, ClearQueue, Redraw, vars, detail
<1> QED
  BY <1>1, <1>2, <1>3, <1>4, <1>5, <1>6, <1>7, <1>8 DEF Next, Loading, Reading, Sending

(* The end of a job tells the truth of the mail.                            *)
LEMMA EndJobHonest ==
  ASSUME TypeOK, JobsOK, JobIsHonest, NEW j \in Job,
         NEW status \in {"succeeded", "failed"}, EndJob(j, status),
         jobs[j].at \in {"sent", "taken", "refused", "listing", "listed"},
         excused \subseteq excused',
         status = "succeeded" => j \in accepted,
         status = "failed" /\ j \in accepted /\ jobs[j].status # "cleared" => j \in excused'
  PROVE  JobsOK' /\ JobIsHonest'
<1>1. \A i \in Job : i # j => jobs'[i] = jobs[i] /\ (i \in accepted' <=> i \in accepted)
  BY DEF EndJob, TypeOK
<1>2. CASE jobs[j].status = "cleared"
  <2>1. jobs'[j] = NoJob /\ j \notin accepted'
    BY <1>2 DEF EndJob, TypeOK
  <2> QED
    BY <1>1, <2>1 DEF JobsOK, JobOK, JobIsHonest, NoJob
<1>3. CASE jobs[j].status # "cleared"
  <2>1. /\ accepted' = accepted
        /\ jobs'[j] = [status |-> status, at |-> "through", snap |-> {}]
    BY <1>3 DEF EndJob, TypeOK
  <2> QED
    BY <1>1, <1>3, <2>1 DEF JobsOK, JobOK, JobIsHonest, NoJob
<1> QED
  BY <1>2, <1>3

LEMMA NextJobs == TypeOK /\ JobsOK /\ JobIsHonest /\ [Next]_vars => JobsOK' /\ JobIsHonest'
<1> SUFFICES ASSUME TypeOK, JobsOK, JobIsHonest, [Next]_vars
             PROVE  JobsOK' /\ JobIsHonest'
  OBVIOUS
<1> USE DEF JobsOK, JobOK, JobIsHonest
<1>1. ASSUME NEW j \in Job, SendMessage(j)
      PROVE  JobsOK' /\ JobIsHonest'
  BY <1>1 DEF SendMessage, TypeOK, backend, NoJob
<1>2. ASSUME NEW j \in Job, HandleSend(j) \/ SendSucceeds(j) \/ HandleJobList(j)
      PROVE  JobsOK' /\ JobIsHonest'
  <2>1. jobs[j] \in JobRecord
    BY <1>2, BegunJob DEF HandleSend, SendSucceeds, HandleJobList, NoJob
  <2> QED
    BY <1>2, <2>1 DEF HandleSend, SendSucceeds, HandleJobList, TypeOK, JobRecord, NoJob, backend
<1>3. ASSUME NEW j \in Job, SendFails(j)
      PROVE  JobsOK' /\ JobIsHonest'
  <2>1. /\ excused \subseteq excused'
        /\ j \in accepted /\ jobs[j].status # "cleared" => j \in excused'
    BY <1>3 DEF SendFails
  <2> QED
    BY <1>3, <2>1, EndJobHonest DEF SendFails
<1>4. ASSUME NEW j \in Job, JobListArrives(j)
      PROVE  JobsOK' /\ JobIsHonest'
  <2>1. j \in accepted
    BY <1>4 DEF JobListArrives
  <2> QED
    BY <1>4, <2>1, EndJobHonest DEF JobListArrives
<1>5. CASE ClearQueue
  <2>1. ASSUME NEW j \in Job, jobs[j].at = "through"
        PROVE  jobs'[j] = NoJob /\ j \notin accepted'
    BY <1>5, <2>1 DEF ClearQueue
  <2>2. ASSUME NEW j \in Job, jobs[j].at # "through"
        PROVE  /\ j \in accepted' <=> j \in accepted
               /\ j \in excused' <=> j \in excused
    BY <1>5, <2>2 DEF ClearQueue
  <2>3. ASSUME NEW j \in Job, jobs[j].at # "through", jobs[j].status = "succeeded"
        PROVE  /\ jobs[j] \in JobRecord /\ jobs'[j] # NoJob
               /\ jobs'[j].status = "cleared" /\ jobs'[j].at = jobs[j].at
    BY <1>5, <2>3, BegunJob DEF ClearQueue, NoJob, JobRecord
  <2>4. ASSUME NEW j \in Job, jobs[j].at # "through", jobs[j].status # "succeeded"
        PROVE  jobs'[j] = jobs[j]
    BY <1>5, <2>4 DEF ClearQueue
  <2> QED
    BY <2>1, <2>2, <2>3, <2>4 DEF NoJob
<1>6. ASSUME UNCHANGED <<accepted, jobs, excused>>
      PROVE  JobsOK' /\ JobIsHonest'
  BY <1>6
<1>7. ASSUME NEW k \in Load, LoadAll(k) \/ Loading(k)
      PROVE  UNCHANGED <<accepted, jobs, excused>>
  BY <1>7 DEF LoadAll, Loading, HandleList, ListArrives, ListFails, OthersEnd, backend
<1>8. ASSUME NEW m \in Message, ReadMessage(m) \/ Reading(m)
      PROVE  UNCHANGED <<accepted, jobs, excused>>
  BY <1>8 DEF ReadMessage, Reading, ReadArrives, ReadFails, backend
<1>9. ASSUME MailboxChanges \/ Redraw \/ UNCHANGED vars
      PROVE  UNCHANGED <<accepted, jobs, excused>>
  BY <1>9 DEF MailboxChanges, Redraw, vars, backend
<1> QED
  BY <1>1, <1>2, <1>3, <1>4, <1>5, <1>6, <1>7, <1>8, <1>9 DEF Next, Sending

(* The inductive invariant holds in every reachable state.                  *)
THEOREM Invariance == Spec => []IInv
<1>1. IInv /\ [Next]_vars => IInv'
  BY NextType, NextDetail, NextJobs DEF IInv
<1> QED
  BY <1>1, InitInv, PTL DEF Spec

(* The page, its requests and its queue are well formed.                    *)
THEOREM TypeCorrect == Spec => []TypeOK
<1>1. IInv => TypeOK
  BY DEF IInv
<1> QED
  BY <1>1, Invariance, PTL

(* What is shown is of the selected message, but for a late read.           *)
THEOREM DetailOfSelection == Spec => []DetailIsOfSelection
<1>1. IInv => DetailIsOfSelection
  BY DEF IInv
<1> QED
  BY <1>1, Invariance, PTL

(* The queue tells what became of a mail, but for answers that were lost.   *)
THEOREM HonestJobs == Spec => []JobIsHonest
<1>1. IInv => JobIsHonest
  BY DEF IInv
<1> QED
  BY <1>1, Invariance, PTL
================================================================================
